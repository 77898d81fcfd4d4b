------------------------ MODULE MCNotificationOutbox ------------------------
(***************************************************************************)
(* Instances of NotificationOutbox for TLC.                                *)
(***************************************************************************)
EXTENDS NotificationOutbox, TLC

TwoChannels == {"WHATSAPP", "SMS"}

\* One channel or the other: each notification has a single row.
OneChannel == {{c} : c \in TwoChannels}

\* Requests, and the drains of other operations, are interchangeable.
Symmetry == Permutations(Requests) \cup Permutations(Others)
=============================================================================
