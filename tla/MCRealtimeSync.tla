--------------------------- MODULE MCRealtimeSync ---------------------------
(***************************************************************************)
(* Instances of RealtimeSync for TLC.                                      *)
(***************************************************************************)
EXTENDS RealtimeSync

\* Each queue changes once.
Once == [q \in Queues |-> 1]
=============================================================================
