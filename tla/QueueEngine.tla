---------------------------- MODULE QueueEngine ----------------------------
(***************************************************************************)
(* The queue engine of FilaZero: src/server/tickets/ticket.service.ts with *)
(* the status operations of src/server/queues.                             *)
(*                                                                         *)
(* Every operation is one PostgreSQL transaction at READ COMMITTED, the    *)
(* level the code leaves in force.  A process of Procs is one HTTP request *)
(* being served; it runs its transaction one statement per step.  The      *)
(* reads that follow a lock are taken with it (nobody else can change what *)
(* they decide on but by leaving the queue), and a count is taken with the *)
(* insert that stores it:                                                  *)
(*   - a statement reads the committed rows, or the transaction's own      *)
(*     uncommitted version (SeenTicket, SeenQueue);                        *)
(*   - writing a row, or SELECT ... FOR UPDATE, takes its row lock, held   *)
(*     until Commit or Abort; a step that needs a locked row is disabled,  *)
(*     which is the wait, and the write then applies to the newest version;*)
(*   - Abort is every way a transaction ends without effect: a failed      *)
(*     check, a unique violation, a deadlock victim, Prisma's interactive- *)
(*     transaction timeout, a lost connection or a crash.                  *)
(* Ids grow with joined_at: rows are inserted under one clock, so a ticket *)
(* is named by its rank in joined_at order.  The audit log, the text of    *)
(* notifications and the authorisation checks have no effect on this state *)
(* and are left out; a rejected request is a step that does not happen.    *)
(* A definition named <What>_<definition> is <definition> with a bug in it *)
(* that the properties are shown to catch; nothing else uses it.           *)
(***************************************************************************)
EXTENDS TicketState, Integers, FiniteSets

CONSTANTS
  Queues,      \* queues of one organization
  Users,       \* customers with an account
  Guest,       \* the null userId of a kiosk ticket
  Procs,       \* requests that can be in flight at the same time
  NoProc,      \* no lock owner
  NoQueue,     \* null queue id
  MaxTickets,  \* bound on the tickets ever created
  MaxSeq,      \* bound on ticket_sequence of a queue
  Requests     \* the operations clients issue

Operations == {"joinQueue", "callNext", "startServing", "completeService",
               "markNoShow", "cancelTicket", "leaveQueue", "recallTicket",
               "transferTicket", "setQueueStatus", "updateQueue",
               "setQueueKioskMode"}

ASSUME ConstantsOK == /\ Guest \notin Users
                      /\ NoProc \notin Procs
                      /\ NoQueue \notin Queues
                      /\ MaxTickets \in Nat
                      /\ MaxSeq \in Nat
                      /\ Requests \subseteq Operations

Tickets == 1..MaxTickets
NoTicket == 0
QueueStatus == {"OPEN", "PAUSED", "CLOSED"}

VARIABLES
  ticket,  \* committed rows of `tickets`
  queue,   \* committed rows of `queues`
  tlock,   \* owner of each ticket row's lock
  tnew,    \* newest version of each ticket row: the lock owner's, or the committed one
  qlock,   \* owner of each queue row's lock
  qnew,    \* newest version of each queue row
  txn,     \* what each request is doing
  sent     \* `notifications` rows the last step committed

vars == <<ticket, queue, tlock, tnew, qlock, qnew, txn, sent>>
rows == <<ticket, queue, tlock, tnew, qlock, qnew>>

\* A slot of `tickets` in which no row has been inserted.  Position 0 is NULL.
NoRow == [status |-> "NONE", queue |-> NoQueue, user |-> Guest,
          number |-> 0, position |-> 0]

\* The locals of an idle request.  `t`, `q` and `user` hold what the first
\* read returned, and are not refreshed later; `before` and `ranks` belong to
\* a running recomputePositions (0: no entry), `rq` is the queue it ranks.
Idle == [op |-> "none", pc |-> "idle", t |-> NoTicket, q |-> NoQueue,
         to |-> NoQueue, user |-> Guest, seen |-> "CLOSED", want |-> "CLOSED",
         rq |-> NoQueue, before |-> [t \in Tickets |-> 0],
         ranks |-> [t \in Tickets |-> 0], notices |-> {}]

\* createQueue stores the status it is asked for; the rest are column defaults.
Init == /\ ticket = [t \in Tickets |-> NoRow]
        /\ queue \in [Queues -> [status: QueueStatus, seq: {0},
                                 current: {NoTicket}, kiosk: {FALSE}]]
        /\ tlock = [t \in Tickets |-> NoProc]
        /\ tnew = ticket
        /\ qlock = [q \in Queues |-> NoProc]
        /\ qnew = queue
        /\ txn = [p \in Procs |-> Idle]
        /\ sent = {}

-----------------------------------------------------------------------------
\* Rows, locks and constraints as PostgreSQL gives them to a transaction.

SeenTicket(p, t) == IF tlock[t] = p THEN tnew[t] ELSE ticket[t]
SeenQueue(p, q) == IF qlock[q] = p THEN qnew[q] ELSE queue[q]

WaitingIn(p, q) == {t \in Tickets : /\ SeenTicket(p, t).status = "WAITING"
                                    /\ SeenTicket(p, t).queue = q}

NotLocking_QueueRowFree(p, q) == TRUE

\* A row locked FOR UPDATE, or being written, by another request is waited for.
QueueRowFree(p, q) == qlock[q] \in {NoProc, p}

\* Partial unique index tickets_one_active_per_user_queue.
SameHolder(r, s) == /\ r.user = s.user
                    /\ r.user # Guest
                    /\ r.queue = s.queue
                    /\ r.status \in ACTIVE_TICKET_STATUSES
                    /\ s.status \in ACTIVE_TICKET_STATUSES

NoIndex_ActiveTwin(p, t, row) == FALSE

\* Writing `row` to t must wait for, or collides with, another active ticket.
ActiveTwin(p, t, row) ==
  \E x \in Tickets \ {t} :
     \/ SameHolder(tnew[x], row)
     \/ tlock[x] \notin {NoProc, p} /\ SameHolder(ticket[x], row)

\* Unique column current_ticket_id: t is current in a queue other than q.
CurrentTaken(p, q, t) ==
  \E x \in Queues \ {q} :
     \/ qnew[x].current = t
     \/ qlock[x] \notin {NoProc, p} /\ queue[x].current = t

WriteTicket(p, t, row) ==
  /\ tlock[t] \in {NoProc, p}
  /\ ~ActiveTwin(p, t, row)
  /\ tlock' = [tlock EXCEPT ![t] = p]
  /\ tnew' = [tnew EXCEPT ![t] = row]

WriteQueue(p, q, row) ==
  /\ QueueRowFree(p, q)
  /\ qlock' = [qlock EXCEPT ![q] = p]
  /\ qnew' = [qnew EXCEPT ![q] = row]

Continue(p, locals) == /\ txn' = [txn EXCEPT ![p] = locals]
                       /\ sent' = {}

Begin(p, op) == /\ txn[p].pc = "idle"
                /\ op \in Requests

At(p, label) == txn[p].pc = label

\* createNotification writes a row for the ticket's owner; a guest has none.
Notice(t, user, type) == IF user = Guest THEN {} ELSE {<<t, type>>}

Commit(p) ==
  /\ At(p, "commit")
  /\ ticket' = [t \in Tickets |-> IF tlock[t] = p THEN tnew[t] ELSE ticket[t]]
  /\ queue' = [q \in Queues |-> IF qlock[q] = p THEN qnew[q] ELSE queue[q]]
  /\ tlock' = [t \in Tickets |-> IF tlock[t] = p THEN NoProc ELSE tlock[t]]
  /\ qlock' = [q \in Queues |-> IF qlock[q] = p THEN NoProc ELSE qlock[q]]
  /\ txn' = [txn EXCEPT ![p] = Idle]
  /\ sent' = txn[p].notices
  /\ UNCHANGED <<tnew, qnew>>

Abort(p) ==
  /\ ~At(p, "idle")
  /\ tnew' = [t \in Tickets |-> IF tlock[t] = p THEN ticket[t] ELSE tnew[t]]
  /\ qnew' = [q \in Queues |-> IF qlock[q] = p THEN queue[q] ELSE qnew[q]]
  /\ tlock' = [t \in Tickets |-> IF tlock[t] = p THEN NoProc ELSE tlock[t]]
  /\ qlock' = [q \in Queues |-> IF qlock[q] = p THEN NoProc ELSE qlock[q]]
  /\ txn' = [txn EXCEPT ![p] = Idle]
  /\ sent' = {}
  /\ UNCHANGED <<ticket, queue>>

-----------------------------------------------------------------------------
\* recomputePositions and the helpers several operations share.

OffByOne_computeLivePosition(p, t) ==
  Cardinality({x \in WaitingIn(p, SeenTicket(p, t).queue) : x < t}) - 1

\* computeLivePosition: one more than the WAITING tickets ahead in the queue.
computeLivePosition(p, t) ==
  1 + Cardinality({x \in WaitingIn(p, SeenTicket(p, t).queue) : x < t})

\* recomputePositions starts with the positions as they are.
ReadPositions(p) ==
  /\ At(p, "before")
  /\ LET waiting == WaitingIn(p, txn[p].rq)
     IN Continue(p, [txn[p] EXCEPT
          !.pc = "rank",
          !.before = [t \in Tickets |->
                        IF t \in waiting THEN SeenTicket(p, t).position ELSE 0]])
  /\ UNCHANGED rows

\* The ROW_NUMBER() snapshot of the UPDATE.
RankWaiting(p) ==
  /\ At(p, "rank")
  /\ LET waiting == WaitingIn(p, txn[p].rq)
     IN Continue(p, [txn[p] EXCEPT
          !.pc = "write",
          !.ranks = [t \in Tickets |->
                       IF t \in waiting THEN computeLivePosition(p, t) ELSE 0]])
  /\ UNCHANGED rows

\* The UPDATE reaches one more ranked row, in no particular order, waiting for
\* its lock.  A row changed in the meantime is still matched by its id alone.
WriteRank(p) ==
  /\ At(p, "write")
  /\ \E t \in Tickets :
       /\ txn[p].ranks[t] > 0
       /\ WriteTicket(p, t, [tnew[t] EXCEPT !.position = txn[p].ranks[t]])
       /\ Continue(p, [txn[p] EXCEPT !.ranks[t] = 0])
  /\ UNCHANGED <<ticket, queue, qlock, qnew>>

NotStrict_Promoted(p) ==
  {t \in WaitingIn(p, txn[p].rq) : /\ txn[p].before[t] > 0
                                   /\ SeenTicket(p, t).position <= txn[p].before[t]}

\* Tickets whose position in the queue just ranked is better than `before`.
Promoted(p) ==
  {t \in WaitingIn(p, txn[p].rq) :
     /\ txn[p].before[t] > 0
     /\ SeenTicket(p, t).position > 0
     /\ SeenTicket(p, t).position < txn[p].before[t]}

SourceOnly_RanksTarget(p) == FALSE

\* transferTicket ranks its source queue first and then its target.
RanksTarget(p) == txn[p].op = "transferTicket" /\ txn[p].rq # txn[p].to

\* The `after` read: the promoted customers are told, and the caller goes on.
NotifyPromoted(p) ==
  /\ At(p, "write")
  /\ \A t \in Tickets : txn[p].ranks[t] = 0
  /\ Continue(p, [txn[p] EXCEPT
       !.pc = IF RanksTarget(p) THEN "before" ELSE "commit",
       !.rq = IF RanksTarget(p) THEN txn[p].to ELSE NoQueue,
       !.before = [t \in Tickets |-> 0],
       !.notices = @ \cup UNION {Notice(t, SeenTicket(p, t).user, "POSITION_CHANGED")
                                   : t \in Promoted(p)}])
  /\ UNCHANGED rows

NeverCleared_PointingQueues(p) == {}

\* Queues whose pointer clearCurrentTicket (or, for a transfer, the update of
\* the source queue) matches.
PointingQueues(p) ==
  {q \in Queues : /\ SeenQueue(p, q).current = txn[p].t
                  /\ txn[p].op = "transferTicket" => q = txn[p].q}

ClearCurrent(p) ==
  /\ At(p, "clear")
  /\ \/ /\ PointingQueues(p) = {}
        /\ UNCHANGED <<qlock, qnew>>
     \/ \E q \in PointingQueues(p) :
          WriteQueue(p, q, [qnew[q] EXCEPT !.current = NoTicket])
  /\ Continue(p, [txn[p] EXCEPT !.pc = "before", !.rq = txn[p].q])
  /\ UNCHANGED <<ticket, queue, tlock, tnew>>

\* queue.update { currentTicketId } of callNext and startServing.
PointAt(p) ==
  /\ At(p, "point")
  /\ LET q == txn[p].q
     IN /\ ~CurrentTaken(p, q, txn[p].t)
        /\ WriteQueue(p, q, [qnew[q] EXCEPT !.current = txn[p].t])
        /\ Continue(p, IF txn[p].op = "callNext"
                       THEN [txn[p] EXCEPT !.pc = "before", !.rq = q]
                       ELSE [txn[p] EXCEPT !.pc = "commit"])
  /\ UNCHANGED <<ticket, queue, tlock, tnew>>

-----------------------------------------------------------------------------
\* joinQueue, and joinQueueAsGuest when u = Guest.

\* Lock the queue row, check it, and take the next number.
JoinQueue(p, u, q) ==
  /\ Begin(p, "joinQueue")
  /\ queue[q].status = "OPEN"
  /\ u = Guest => queue[q].kiosk
  /\ u # Guest => ~\E t \in Tickets :
                     /\ ticket[t].user = u
                     /\ ticket[t].queue = q
                     /\ ticket[t].status \in ACTIVE_TICKET_STATUSES
  /\ queue[q].seq < MaxSeq
  /\ WriteQueue(p, q, [queue[q] EXCEPT !.seq = @ + 1])
  /\ Continue(p, [Idle EXCEPT !.op = "joinQueue", !.pc = "insert",
                              !.q = q, !.user = u])
  /\ UNCHANGED <<ticket, queue, tlock, tnew>>

\* Count the queue and insert the ticket at its end.
InsertTicket(p) ==
  /\ At(p, "insert")
  /\ \E t \in Tickets :
       /\ \A x \in Tickets : x >= t <=> tnew[x].status = "NONE"
       /\ WriteTicket(p, t,
            [status |-> "WAITING", queue |-> txn[p].q, user |-> txn[p].user,
             number |-> qnew[txn[p].q].seq,
             position |-> Cardinality(WaitingIn(p, txn[p].q)) + 1])
       /\ Continue(p, [txn[p] EXCEPT !.pc = "commit", !.t = t,
                         !.notices = Notice(t, txn[p].user, "QUEUE_JOINED")])
  /\ UNCHANGED <<ticket, queue, qlock, qnew>>

-----------------------------------------------------------------------------
\* callNext.

CounterBusy(q) ==
  \E t \in Tickets : ticket[t].queue = q /\ ticket[t].status \in IN_PROGRESS_STATUSES

\* Lock the queue row and refuse while a ticket of it is in progress.
CallNext(p, q) ==
  /\ Begin(p, "callNext")
  /\ ~CounterBusy(q)
  /\ WriteQueue(p, q, queue[q])
  /\ Continue(p, [Idle EXCEPT !.op = "callNext", !.pc = "pick", !.q = q])
  /\ UNCHANGED <<ticket, queue, tlock, tnew>>

\* WAITING tickets of q that SKIP LOCKED does not pass over.
Callable(q) == {t \in Tickets : /\ ticket[t].status = "WAITING"
                                /\ ticket[t].queue = q
                                /\ tlock[t] = NoProc}

Newest_NextInLine(q) == {t \in Callable(q) : \A x \in Callable(q) : x <= t}

\* ... ORDER BY joined_at FOR UPDATE SKIP LOCKED LIMIT 1.
NextInLine(q) == {t \in Callable(q) : \A x \in Callable(q) : t <= x}

PickNext(p) ==
  /\ At(p, "pick")
  /\ \E t \in NextInLine(txn[p].q) :
       /\ WriteTicket(p, t, [tnew[t] EXCEPT !.status = "CALLED", !.position = 0])
       /\ Continue(p, [txn[p] EXCEPT !.pc = "point", !.t = t,
                         !.notices = Notice(t, tnew[t].user, "CUSTOMER_CALLED")])
  /\ UNCHANGED <<ticket, queue, qlock, qnew>>

-----------------------------------------------------------------------------
\* The operations on one ticket: an unlocked read that decides, then an update
\* of the row by its id.

\* The status an operation writes.
Target == [startServing |-> "SERVING", completeService |-> "COMPLETED",
           markNoShow |-> "NO_SHOW", cancelTicket |-> "CANCELLED",
           leaveQueue |-> "CANCELLED"]

ReadTicket(p, op, t) ==
  /\ Begin(p, op)
  /\ Continue(p, [Idle EXCEPT !.op = op, !.pc = "update", !.t = t,
                              !.q = ticket[t].queue, !.user = ticket[t].user])
  /\ UNCHANGED rows

\* The owner of a ticket may cancel it only while WAITING and staff always:
\* the customer's right is a part of the staff's, so one action covers both.
ReadForTransition(p, op, t) == /\ canTransitionTicket(ticket[t].status, Target[op])
                               /\ ReadTicket(p, op, t)

StartServing(p, t) == ReadForTransition(p, "startServing", t)
CompleteService(p, t) == ReadForTransition(p, "completeService", t)
MarkNoShow(p, t) == ReadForTransition(p, "markNoShow", t)
CancelTicket(p, t) == ReadForTransition(p, "cancelTicket", t)
LeaveQueue(p, t) == ReadForTransition(p, "leaveQueue", t)

RecallTicket(p, t) == /\ ticket[t].status \in IN_PROGRESS_STATUSES
                      /\ ReadTicket(p, "recallTicket", t)

Recalled_UpdatedRow(op, row) ==
  CASE op = "recallTicket" -> [row EXCEPT !.status = "CALLED"]
    [] op \in {"startServing", "completeService"} -> [row EXCEPT !.status = Target[op]]
    [] OTHER -> [row EXCEPT !.status = Target[op], !.position = 0]

\* What each operation writes over the newest version of the row.
UpdatedRow(op, row) ==
  CASE op = "recallTicket" -> row
    [] op \in {"startServing", "completeService"} ->
         [row EXCEPT !.status = Target[op]]
    [] op \in {"markNoShow", "cancelTicket", "leaveQueue"} ->
         [row EXCEPT !.status = Target[op], !.position = 0]

NoticeType == [recallTicket |-> "CUSTOMER_CALLED", startServing |-> "SERVING_STARTED",
               completeService |-> "SERVICE_COMPLETED", markNoShow |-> "TICKET_CANCELLED",
               cancelTicket |-> "TICKET_CANCELLED", leaveQueue |-> "TICKET_CANCELLED"]

\* ticket.update where { id } : whatever the row has become since the read.
UpdateTicket(p) ==
  LET op == txn[p].op
      t == txn[p].t
  IN /\ At(p, "update")
     /\ op \in DOMAIN NoticeType
     /\ WriteTicket(p, t, UpdatedRow(op, tnew[t]))
     /\ Continue(p, [txn[p] EXCEPT
          !.pc = CASE op = "startServing" -> "point"
                   [] op = "recallTicket" -> "commit"
                   [] OTHER -> "clear",
          !.notices = Notice(t, txn[p].user, NoticeType[op])])
     /\ UNCHANGED <<ticket, queue, qlock, qnew>>

-----------------------------------------------------------------------------
\* transferTicket.

ReadForTransfer(p, t, to) ==
  /\ Begin(p, "transferTicket")
  /\ ticket[t].status \in ACTIVE_TICKET_STATUSES
  /\ ticket[t].queue # to
  /\ Continue(p, [Idle EXCEPT !.op = "transferTicket", !.pc = "target", !.t = t,
                              !.q = ticket[t].queue, !.user = ticket[t].user,
                              !.to = to])
  /\ UNCHANGED rows

\* Lock the target queue, check it, and take its next number.
LockTarget(p) ==
  LET to == txn[p].to
  IN /\ At(p, "target")
     /\ queue[to].status = "OPEN"
     /\ queue[to].seq < MaxSeq
     /\ WriteQueue(p, to, [queue[to] EXCEPT !.seq = @ + 1])
     /\ Continue(p, [txn[p] EXCEPT !.pc = "move"])
     /\ UNCHANGED <<ticket, queue, tlock, tnew>>

OldNumber_MovedRow(row, to) ==
  [row EXCEPT !.queue = to, !.status = "WAITING", !.position = 0]

MovedRow(row, to) == [row EXCEPT !.queue = to, !.number = qnew[to].seq,
                                 !.status = "WAITING", !.position = 0]

MoveTicket(p) ==
  LET t == txn[p].t
  IN /\ At(p, "move")
     /\ WriteTicket(p, t, MovedRow(tnew[t], txn[p].to))
     /\ Continue(p, [txn[p] EXCEPT !.pc = "clear",
                       !.notices = Notice(t, txn[p].user, "QUEUE_JOINED")])
     /\ UNCHANGED <<ticket, queue, qlock, qnew>>

-----------------------------------------------------------------------------
\* The operations on a queue.

\* setQueueStatus loads the queue's status before its transaction starts.
SetQueueStatus(p, q, s) ==
  /\ Begin(p, "setQueueStatus")
  /\ Continue(p, [Idle EXCEPT !.op = "setQueueStatus", !.pc = "status", !.q = q,
                              !.seen = queue[q].status, !.want = s])
  /\ UNCHANGED rows

\* Who setQueueStatus tells: everyone waiting, when it saw the queue OPEN.
StatusNotices(p) ==
  IF txn[p].want # "OPEN" /\ txn[p].seen = "OPEN"
  THEN UNION {Notice(t, SeenTicket(p, t).user, "QUEUE_STATUS_CHANGED")
                : t \in WaitingIn(p, txn[p].q)}
  ELSE {}

WriteStatus(p) ==
  LET q == txn[p].q
  IN /\ At(p, "status")
     /\ WriteQueue(p, q, [qnew[q] EXCEPT !.status = txn[p].want])
     /\ Continue(p, [txn[p] EXCEPT !.pc = "commit", !.notices = StatusNotices(p)])
     /\ UNCHANGED <<ticket, queue, tlock, tnew>>

\* A single-statement update of a queue row commits at once.
UpdateRow(q, row) ==
  /\ qlock[q] = NoProc
  /\ queue' = [queue EXCEPT ![q] = row]
  /\ qnew' = [qnew EXCEPT ![q] = row]
  /\ sent' = {}
  /\ UNCHANGED <<ticket, tlock, tnew, qlock, txn>>

\* updateQueue can also write the status; it tells nobody.
UpdateQueue(q, s) == /\ "updateQueue" \in Requests
                     /\ UpdateRow(q, [queue[q] EXCEPT !.status = s])

SetQueueKioskMode(q, b) == /\ "setQueueKioskMode" \in Requests
                           /\ UpdateRow(q, [queue[q] EXCEPT !.kiosk = b])

-----------------------------------------------------------------------------
\* A new request of p reaches the engine.
Request(p) ==
  \/ \E u \in Users \cup {Guest}, q \in Queues : JoinQueue(p, u, q)
  \/ \E q \in Queues : CallNext(p, q)
  \/ \E t \in Tickets : \/ StartServing(p, t)
                        \/ CompleteService(p, t)
                        \/ MarkNoShow(p, t)
                        \/ CancelTicket(p, t)
                        \/ LeaveQueue(p, t)
                        \/ RecallTicket(p, t)
  \/ \E t \in Tickets, to \in Queues : ReadForTransfer(p, t, to)
  \/ \E q \in Queues, s \in QueueStatus : SetQueueStatus(p, q, s)

\* p's transaction runs its next statement.
Statement(p) == \/ InsertTicket(p)
                \/ PickNext(p)
                \/ UpdateTicket(p)
                \/ LockTarget(p)
                \/ MoveTicket(p)
                \/ ClearCurrent(p)
                \/ PointAt(p)
                \/ ReadPositions(p)
                \/ RankWaiting(p)
                \/ WriteRank(p)
                \/ NotifyPromoted(p)
                \/ WriteStatus(p)

Next == \/ \E p \in Procs : \/ Request(p)
                            \/ Statement(p)
                            \/ Commit(p)
                            \/ Abort(p)
        \/ \E q \in Queues, s \in QueueStatus : UpdateQueue(q, s)
        \/ \E q \in Queues, b \in BOOLEAN : SetQueueKioskMode(q, b)

Spec == Init /\ [][Next]_vars
-----------------------------------------------------------------------------
\* Types.

TicketRow == [status: TicketStatus \cup {"NONE"}, queue: Queues \cup {NoQueue},
              user: Users \cup {Guest}, number: Nat, position: Nat]

QueueRow == [status: QueueStatus, seq: Nat, current: Nat, kiosk: BOOLEAN]

NoticeTypes == {"QUEUE_JOINED", "CUSTOMER_CALLED", "SERVING_STARTED",
                "SERVICE_COMPLETED", "TICKET_CANCELLED", "POSITION_CHANGED",
                "QUEUE_STATUS_CHANGED"}

NoticeSet == SUBSET (Nat \X NoticeTypes)

Labels == {"idle", "insert", "pick", "point", "update", "target", "move", "clear",
           "before", "rank", "write", "status", "commit"}

Locals == [op: Operations \cup {"none"}, pc: Labels, t: Nat,
           q: Queues \cup {NoQueue}, to: Queues \cup {NoQueue},
           user: Users \cup {Guest}, seen: QueueStatus, want: QueueStatus,
           rq: Queues \cup {NoQueue}, before: [Tickets -> Nat],
           ranks: [Tickets -> Nat], notices: NoticeSet]

\* Type invariant of the engine: rows, locks and the locals of every request,
\* with a queue and a ticket wherever a statement numbers one in the other.
TypeOK == /\ ticket \in [Tickets -> TicketRow]
          /\ queue \in [Queues -> QueueRow]
          /\ tlock \in [Tickets -> Procs \cup {NoProc}]
          /\ tnew \in [Tickets -> TicketRow]
          /\ qlock \in [Queues -> Procs \cup {NoProc}]
          /\ qnew \in [Queues -> QueueRow]
          /\ txn \in [Procs -> Locals]
          /\ \A p \in Procs : /\ At(p, "insert") => txn[p].q \in Queues
                              /\ txn[p].pc \in {"target", "move"} =>
                                   txn[p].to \in Queues /\ txn[p].t \in Tickets
          /\ sent \in NoticeSet

-----------------------------------------------------------------------------
\* Safety.

Issued(t) == ticket[t].queue # NoQueue

\* No two tickets of a queue ever carry the same number, through concurrent
\* joins, transfers in, and aborted transactions, so the unique constraint on
\* (queue_id, ticket_number) is never what a customer runs into.
UniqueNumbers ==
  \A t, u \in Tickets :
     /\ Issued(t)
     /\ Issued(u)
     /\ ticket[t].queue = ticket[u].queue
     /\ ticket[t].number = ticket[u].number
     => t = u

\* Labels before a request has locked any ticket, and any queue.
NoTicketLocked == {"idle", "insert", "pick", "update", "target", "move", "status"}
NoQueueLocked == {"idle", "target"}

\* p has taken the next number of q and keeps the queue locked.
TookNumber(p, q) == /\ q \in Queues
                    /\ qlock[q] = p
                    /\ qnew[q].seq = queue[q].seq + 1

\* p's ticket carries the number p took from q.
HoldsSlip(p, q) == LET t == txn[p].t
                   IN /\ t \in Tickets
                      /\ tlock[t] = p
                      /\ tnew[t].queue = q
                      /\ tnew[t].number = qnew[q].seq

\* The queue whose number p is about to give to a ticket.
NumberingQueue(p) == IF At(p, "insert") THEN txn[p].q ELSE txn[p].to

Renumbered(t) == \/ tnew[t].queue # ticket[t].queue
                 \/ tnew[t].number # ticket[t].number

\* Why numbers stay unique.  An uncommitted number is one past the sequence of
\* a queue its request has locked, so no other request can take it; a committed
\* one is within the sequence; and a lock owner is the only author of a row's
\* newest version.
NumberInv ==
  /\ \A t \in Tickets : tlock[t] = NoProc => tnew[t] = ticket[t]
  /\ \A q \in Queues : qlock[q] = NoProc => qnew[q] = queue[q]
  /\ \A t \in Tickets : Issued(t) => ticket[t].number \in 1..queue[ticket[t].queue].seq
  /\ UniqueNumbers
  /\ \A t \in Tickets : Renumbered(t) =>
       /\ tlock[t] \in Procs
       /\ txn[tlock[t]].t = t
       /\ TookNumber(tlock[t], tnew[t].queue)
       /\ HoldsSlip(tlock[t], tnew[t].queue)
  /\ \A q \in Queues : qnew[q].seq # queue[q].seq =>
       /\ qlock[q] \in Procs
       /\ TookNumber(qlock[q], q)
       /\ IF txn[qlock[q]].pc \in {"insert", "move"}
          THEN q = NumberingQueue(qlock[q])
          ELSE HoldsSlip(qlock[q], q)
  /\ \A p \in Procs :
       /\ txn[p].pc \in {"insert", "move"} => TookNumber(p, NumberingQueue(p))
       /\ txn[p].pc \in NoTicketLocked => \A t \in Tickets : tlock[t] # p
       /\ txn[p].pc \in NoQueueLocked => \A q \in Queues : qlock[q] # p

\* A customer never holds two active tickets in one queue, whichever of join,
\* transfer and a transition decided on a stale read would give them a second.
OneActivePerUserPerQueue ==
  \A t, u \in Tickets : SameHolder(ticket[t], ticket[u]) => t = u

InProgress(q) == {t \in Tickets : /\ ticket[t].queue = q
                                  /\ ticket[t].status \in IN_PROGRESS_STATUSES}

\* A queue's current ticket is exactly the ticket in progress in it: set by
\* callNext, cleared by whatever takes the ticket out of progress.
CurrentIsInProgress ==
  \A q \in Queues, t \in Tickets : queue[q].current = t <=> t \in InProgress(q)

\* The cached position of every ticket is its live position, and only WAITING
\* tickets have one: each mutation leaves the cache as recomputePositions
\* would.
CachedPositions ==
  \A t \in Tickets : ticket[t].position =
     IF ticket[t].status = "WAITING"
     THEN 1 + Cardinality({x \in Tickets : /\ ticket[x].status = "WAITING"
                                           /\ ticket[x].queue = ticket[t].queue
                                           /\ x < t})
     ELSE 0

\* A ticket enters a queue, by join or by transfer, only while that queue is
\* OPEN when the entry commits.
OnlyOpenQueuesAdmit ==
  [][\A t \in Tickets :
       ticket'[t].queue # ticket[t].queue => queue[ticket'[t].queue].status = "OPEN"]_vars

\* Two calls never send two customers to one counter: however calls, transfers
\* and decisions on stale reads overlap, the lock of the queue covers the check
\* and the call, and a queue has at most one ticket that is CALLED.
OneCalled ==
  \A t, u \in Tickets : /\ ticket[t].queue = ticket[u].queue
                        /\ ticket[t].status = "CALLED"
                        /\ ticket[u].status = "CALLED"
                        => t = u

\* Two members of staff never receive the same customer: a ticket that becomes
\* CALLED was, until that commit, WAITING in the queue it is called in.
CalledFromWaiting ==
  [][\A t \in Tickets :
       (ticket'[t].status = "CALLED" /\ ticket[t].status # "CALLED")
         => /\ ticket[t].status = "WAITING"
            /\ ticket[t].queue = ticket'[t].queue]_vars

Improves(t) == /\ ticket[t].status = "WAITING"
               /\ ticket'[t].status = "WAITING"
               /\ ticket[t].queue = ticket'[t].queue
               /\ ticket'[t].position < ticket[t].position

\* Exactly the customers whose position improved, and all of them, are told so
\* by the transaction that improved it.
PositionNoticesExact ==
  [][\A t \in Tickets : <<t, "POSITION_CHANGED">> \in sent'
                           <=> Improves(t) /\ ticket[t].user # Guest]_vars

\* A ticket that is finished never goes back to WAITING.
TerminalNeverWaits ==
  [][\A t \in Tickets : ticket[t].status \in TERMINAL_TICKET_STATUSES
                           => ticket'[t].status # "WAITING"]_vars

-----------------------------------------------------------------------------
\* What the engine promises, and the state it promises it of.

Lifecycle == INSTANCE TicketLifecycle WITH
  status <- [t \in Tickets |-> ticket[t].status],
  place <- [t \in Tickets |-> ticket[t].queue]

Dispenser == INSTANCE TicketDispenser WITH
  seq <- [q \in Queues |-> queue[q].seq],
  slip <- [t \in Tickets |-> [queue |-> ticket[t].queue, number |-> ticket[t].number]]

\* One request at a time, the engine is the ticket life cycle: first in, first
\* out, one customer in progress per queue, transitions by the table.
ImplementsLifecycle == Lifecycle!Spec

\* Under any interleaving, the engine hands out numbers as a ticket dispenser.
ImplementsDispenser == Dispenser!Spec
=============================================================================
