------------------------- MODULE MCPublicEndpoints -------------------------
(***************************************************************************)
(* Instances of PublicEndpoints for TLC.                                   *)
(***************************************************************************)
EXTENDS PublicEndpoints, TLC

LimitedKeys == {<<"login", "ip">>, <<"login", "identity">>, ReportKey}

\* One sign-in of the account in a window of two ticks, and two of the address.
Rules == [k \in Keys |-> [window |-> 2, max |-> IF k = <<"login", "identity">> THEN 1 ELSE 2]]

Symmetry == Permutations(Handlers) \cup Permutations(Reporters)
=============================================================================
