---------------------------- MODULE TicketState ----------------------------
(***************************************************************************)
(* The ticket state machine of src/server/tickets/ticket.state.ts: the     *)
(* statuses, the transition table and the two predicates over it that the  *)
(* queue engine consults before it changes a ticket.                       *)
(***************************************************************************)

\* TICKET_TRANSITIONS, as the set of permitted <<from, to>> pairs.
TICKET_TRANSITIONS ==
  {<<"WAITING", "CALLED">>, <<"WAITING", "CANCELLED">>,
   <<"CALLED", "SERVING">>, <<"CALLED", "NO_SHOW">>, <<"CALLED", "CANCELLED">>,
   <<"SERVING", "COMPLETED">>, <<"SERVING", "CANCELLED">>}

ACTIVE_TICKET_STATUSES == {"WAITING", "CALLED", "SERVING"}

TERMINAL_TICKET_STATUSES == {"COMPLETED", "CANCELLED", "NO_SHOW"}

TicketStatus == ACTIVE_TICKET_STATUSES \cup TERMINAL_TICKET_STATUSES

\* A ticket that holds the counter: what callNext refuses to call past.
IN_PROGRESS_STATUSES == {"CALLED", "SERVING"}

canTransitionTicket(from, to) == <<from, to>> \in TICKET_TRANSITIONS
=============================================================================
