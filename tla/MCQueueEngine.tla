--------------------------- MODULE MCQueueEngine ---------------------------
(***************************************************************************)
(* Instances of QueueEngine for TLC: the request mixes of the runs, and    *)
(* the symmetry of customers, of queues and of requests in flight.         *)
(***************************************************************************)
EXTENDS QueueEngine, TLC

\* Everything that happens to tickets, in queues whose status stays as created.
TicketRequests == Operations \ {"setQueueStatus", "updateQueue", "setQueueKioskMode"}

\* The same without the two that add nothing one at a time: leaveQueue writes
\* what cancelTicket does and recallTicket writes nothing.
OneAtATimeRequests == TicketRequests \ {"leaveQueue", "recallTicket"}

\* The same for overlapping requests, where markNoShow writes what cancelTicket
\* does, and recallTicket holds a row lock in between.
OverlappingRequests == TicketRequests \ {"leaveQueue", "markNoShow"}

\* Entries into a queue, and departures, while its status and its kiosk are switched.
EntryRequests == {"joinQueue", "leaveQueue", "transferTicket", "setQueueStatus", "updateQueue",
                  "setQueueKioskMode"}

\* The shortest mix in which a decision taken on a stale read is visible.
TransferMix == {"joinQueue", "cancelTicket", "transferTicket"}

Symmetry == Permutations(Procs) \cup Permutations(Users) \cup Permutations(Queues)
=============================================================================
