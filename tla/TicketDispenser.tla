-------------------------- MODULE TicketDispenser --------------------------
(***************************************************************************)
(* What the numbering of FilaZero promises: each queue counts up by one    *)
(* for each slip it issues, and a ticket holds the slip it was last        *)
(* issued.  A number is never issued twice by a queue, not even after the  *)
(* ticket that held it has moved to another queue.                         *)
(***************************************************************************)
EXTENDS Integers

CONSTANTS Queues, NoQueue, Tickets

VARIABLES seq,   \* last number issued by each queue
          slip   \* queue and number each ticket holds

vars == <<seq, slip>>

Init == /\ seq = [q \in Queues |-> 0]
        /\ slip = [t \in Tickets |-> [queue |-> NoQueue, number |-> 0]]

\* A slip for queue q: for a new ticket, for one sent over from another queue,
\* and even for one that two members of staff send to q at the same time.
Issue(t, q) ==
  /\ seq' = [seq EXCEPT ![q] = @ + 1]
  /\ slip' = [slip EXCEPT ![t] = [queue |-> q, number |-> seq[q] + 1]]

Next == \E t \in Tickets, q \in Queues : Issue(t, q)

Spec == Init /\ [][Next]_vars
=============================================================================
