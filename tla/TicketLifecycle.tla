-------------------------- MODULE TicketLifecycle --------------------------
(***************************************************************************)
(* What a customer and a counter see of FilaZero's queues: tickets that    *)
(* are taken, called in order of arrival, served and finished.  A queue    *)
(* has at most one ticket in progress.  QueueEngine implements this        *)
(* specification when requests do not overlap.                             *)
(***************************************************************************)
EXTENDS TicketState, Integers

CONSTANTS Queues, NoQueue, Tickets

VARIABLES status,  \* status of each ticket, "NONE" before it is taken
          place    \* queue of each ticket

In(q, S) == {t \in Tickets : place[t] = q /\ status[t] \in S}

Init == /\ status = [t \in Tickets |-> "NONE"]
        /\ place = [t \in Tickets |-> NoQueue]

\* A customer takes the next ticket, in queue q.
Take(t, q) == /\ status[t] = "NONE"
              /\ status' = [status EXCEPT ![t] = "WAITING"]
              /\ place' = [place EXCEPT ![t] = q]

\* The counter of q, free, calls whoever has waited longest.
Call(q) == /\ In(q, IN_PROGRESS_STATUSES) = {}
           /\ \E t \in In(q, {"WAITING"}) :
                /\ \A u \in In(q, {"WAITING"}) : t <= u
                /\ status' = [status EXCEPT ![t] = "CALLED"]
           /\ UNCHANGED place

\* A ticket is served, finished, missed or given up.
Advance(t, s) == /\ s # "CALLED"
                 /\ canTransitionTicket(status[t], s)
                 /\ status' = [status EXCEPT ![t] = s]
                 /\ UNCHANGED place

\* Staff send an active ticket to wait in another queue.
Transfer(t, q) == /\ status[t] \in ACTIVE_TICKET_STATUSES
                  /\ q # place[t]
                  /\ status' = [status EXCEPT ![t] = "WAITING"]
                  /\ place' = [place EXCEPT ![t] = q]

Next == \/ \E t \in Tickets, q \in Queues : Take(t, q) \/ Transfer(t, q)
        \/ \E q \in Queues : Call(q)
        \/ \E t \in Tickets, s \in TicketStatus : Advance(t, s)

Spec == Init /\ [][Next]_<<status, place>>
=============================================================================
