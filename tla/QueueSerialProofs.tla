------------------------- MODULE QueueSerialProofs -------------------------
(***************************************************************************)
(* The queue engine when requests do not overlap: it is the ticket life    *)
(* cycle of TicketLifecycle, a queue's pointer is the ticket in progress   *)
(* in it, the cached positions are the live ones, and exactly the          *)
(* customers whose position improved are told.  Each operation takes these *)
(* through states in which they do not hold of the rows it has written;    *)
(* one inductive invariant says how far it has come at each label.         *)
(***************************************************************************)
EXTENDS QueueEngineProofs

\* Requests do not overlap: there is never more than one.
OneRequest == \A p, x \in Procs : p = x

-----------------------------------------------------------------------------
\* What a transaction has written, against the rows it will replace.

Same(t) == /\ tnew[t].status = ticket[t].status
           /\ tnew[t].queue = ticket[t].queue

Takes(t) == /\ ticket[t].status = "NONE"
            /\ tnew[t].status = "WAITING"
            /\ tnew[t].queue \in Queues

Calls(t) == /\ ticket[t].status = "WAITING"
            /\ tnew[t].status = "CALLED"
            /\ tnew[t].queue = ticket[t].queue
            /\ ticket[t].queue \in Queues
            /\ InProgress(ticket[t].queue) = {}
            /\ \A u \in Tickets : ticket[u].status = "WAITING" /\ ticket[u].queue = ticket[t].queue
                                    => t <= u

Advances(t) == /\ tnew[t].status \in TicketStatus \ {"CALLED"}
               /\ canTransitionTicket(ticket[t].status, tnew[t].status)
               /\ tnew[t].queue = ticket[t].queue

Moves(t) == /\ ticket[t].status \in ACTIVE_TICKET_STATUSES
            /\ tnew[t].status = "WAITING"
            /\ tnew[t].queue \in Queues \ {ticket[t].queue}

\* The transaction does to the tickets what one action of the life cycle does.
Lawful ==
  /\ \A t \in Tickets : ticket[t].status # "NONE" => tnew[t].user = ticket[t].user
  /\ \/ \A t \in Tickets : Same(t)
     \/ \E t \in Tickets : /\ \A u \in Tickets \ {t} : Same(u)
                           /\ Takes(t) \/ Calls(t) \/ Advances(t) \/ Moves(t)

\* Ticket t is in progress in queue q exactly if q points at it, in newest versions.
BusyIn(q, t) == tnew[t].queue = q /\ tnew[t].status \in IN_PROGRESS_STATUSES

Agree(q, t) == qnew[q].current = t <=> BusyIn(q, t)

\* How far the pointers have followed the ticket.
PointersOK(p) ==
  LET t == txn[p].t
      q == txn[p].q
  IN /\ txn[p].pc \in {"before", "rank", "write", "commit"} =>
          \A n \in Queues, u \in Tickets : Agree(n, u)
     /\ At(p, "point") => \A n \in Queues, u \in Tickets :
          IF n = q THEN BusyIn(n, u) <=> u = t ELSE Agree(n, u)
     /\ At(p, "clear") =>
          /\ t \in Tickets
          /\ \A n \in Queues : ~BusyIn(n, t)
          /\ \A n \in Queues, u \in Tickets \ {t} : Agree(n, u)
          /\ \A n \in Queues : qnew[n].current = t => n = q

\* The live position of t in one version of the rows.
Live(version, t) ==
  IF version[t].status = "WAITING"
  THEN 1 + Cardinality({x \in Tickets : /\ version[x].status = "WAITING"
                                        /\ version[x].queue = version[t].queue
                                        /\ x < t})
  ELSE 0

\* The queues whose positions the transaction has yet to recompute.
Stale(p) ==
  CASE At(p, "point") -> IF txn[p].op = "callNext" THEN {txn[p].q} ELSE {}
    [] At(p, "clear") -> {txn[p].q} \cup IF txn[p].op = "transferTicket" THEN {txn[p].to} ELSE {}
    [] txn[p].pc \in {"before", "rank", "write"} ->
         {txn[p].rq} \cup IF RanksTarget(p) THEN {txn[p].to} ELSE {}
    [] OTHER -> {}

Waits(t, S) == tnew[t].status = "WAITING" /\ tnew[t].queue \in S

\* The position t had when the transaction began, 0 if it was not waiting in that queue.
Formerly(t) == IF ticket[t].status = "WAITING" /\ ticket[t].queue = tnew[t].queue
               THEN ticket[t].position ELSE 0

\* Cached positions are live but in stale queues, where they are as they were
\* until the ranking is written.
PositionsOK(p) ==
  /\ \A t \in Tickets : ~Waits(t, Stale(p)) => tnew[t].position = Live(tnew, t)
  /\ \A t \in Tickets : Waits(t, Stale(p)) =>
       IF At(p, "write") /\ tnew[t].queue = txn[p].rq
       THEN IF txn[p].ranks[t] > 0 THEN txn[p].ranks[t] = Live(tnew, t)
                                   ELSE tnew[t].position = Live(tnew, t)
       ELSE tnew[t].position = Formerly(t)
  /\ At(p, "write") => \A t \in Tickets : txn[p].ranks[t] > 0 => Waits(t, {txn[p].rq})
  /\ txn[p].pc \in {"rank", "write"} => \A t \in Tickets :
       txn[p].before[t] = IF Waits(t, {txn[p].rq}) THEN Formerly(t) ELSE 0

\* t waits nearer to its turn in the queue it waited in.
Gains(t) == /\ ticket[t].status = "WAITING"
            /\ tnew[t].status = "WAITING"
            /\ ticket[t].queue = tnew[t].queue
            /\ tnew[t].position < ticket[t].position

\* Those who gained are told as their queue is recomputed.
NoticesOK(p) ==
  \A t \in Tickets : <<t, "POSITION_CHANGED">> \in txn[p].notices
                       <=> Gains(t) /\ ticket[t].user # Guest /\ tnew[t].queue \notin Stale(p)

\* What a request that has written no ticket has decided on, which still holds.
DecidedOK(p) ==
  LET t == txn[p].t
      op == txn[p].op
  IN /\ At(p, "pick") => /\ op = "callNext"
                         /\ txn[p].q \in Queues
                         /\ InProgress(txn[p].q) = {}
     /\ txn[p].pc \in {"update", "target", "move"} => /\ t \in Tickets
                                                      /\ txn[p].q = ticket[t].queue
     /\ At(p, "update") => /\ op \notin {"transferTicket", "callNext"}
                           /\ op \in DOMAIN Target =>
                                canTransitionTicket(ticket[t].status, Target[op])
     /\ txn[p].pc \in {"target", "move"} => /\ op = "transferTicket"
                                            /\ ticket[t].status \in ACTIVE_TICKET_STATUSES
                                            /\ ticket[t].queue # txn[p].to

\* How far request p has come.
Early(p) == txn[p].pc \in NoTicketLocked =>
  /\ \A q \in Queues : qnew[q].current = queue[q].current
  /\ DecidedOK(p)

Late(p) == txn[p].pc \notin NoTicketLocked =>
  /\ Lawful
  /\ PointersOK(p)
  /\ PositionsOK(p)
  /\ NoticesOK(p)

SerialInv == /\ CurrentIsInProgress
             /\ CachedPositions
             /\ \A p \in Procs : Early(p) /\ Late(p)

-----------------------------------------------------------------------------
\* One request, one version of every row.

\* The only request in flight sees the newest versions.
LEMMA SerialRows ==
  ASSUME OneRequest, TypeOK, NumberInv, NEW p \in Procs
  PROVE  /\ \A t \in Tickets : SeenTicket(p, t) = tnew[t]
         /\ \A q \in Queues : SeenQueue(p, q) = qnew[q]
         /\ \A t \in Tickets : tlock[t] # p => tnew[t] = ticket[t]
         /\ \A q \in Queues : qlock[q] # p => qnew[q] = queue[q]
<1>1. \A t \in Tickets : tlock[t] # p => tnew[t] = ticket[t]
  BY DEF OneRequest, TypeOK, NumberInv
<1>2. \A q \in Queues : qlock[q] # p => qnew[q] = queue[q]
  BY DEF OneRequest, TypeOK, NumberInv
<1> QED BY <1>1, <1>2 DEF SeenTicket, SeenQueue

\* So the tickets it finds waiting are those that wait in newest versions.
LEMMA SerialWaiting ==
  ASSUME OneRequest, TypeOK, NumberInv, NEW p \in Procs, NEW q
  PROVE  WaitingIn(p, q) = {t \in Tickets : Waits(t, {q})}
BY SerialRows DEF WaitingIn, Waits

\* Before it writes a ticket, every ticket is as committed.
LEMMA SerialUntouched ==
  ASSUME OneRequest, TypeOK, NumberInv, NEW p \in Procs, txn[p].pc \in NoTicketLocked
  PROVE  tnew = ticket
<1>1. \A t \in Tickets : tnew[t] = ticket[t]
  BY SerialRows DEF NumberInv
<1> QED BY <1>1 DEF TypeOK

\* A live position is a natural number, and that of a waiting ticket is not 0.
LEMMA LiveType ==
  ASSUME NEW version, NEW t \in Tickets
  PROVE  /\ Live(version, t) \in Nat
         /\ Live(version, t) > 0 <=> version[t].status = "WAITING"
<1> DEFINE ahead == {x \in Tickets : /\ version[x].status = "WAITING"
                                     /\ version[x].queue = version[t].queue
                                     /\ x < t}
<1>1. Cardinality(ahead) \in Nat
  BY FiniteCount
<1> HIDE DEF ahead
<1>2. Live(version, t) = IF version[t].status = "WAITING" THEN 1 + Cardinality(ahead) ELSE 0
  BY DEF Live, ahead
<1> QED BY <1>1, <1>2

\* The live position of a ticket depends on who waits before it in its queue.
LEMMA LiveSame ==
  ASSUME NEW a, NEW b, NEW t \in Tickets, a[t].status = b[t].status,
         a[t].status = "WAITING" =>
           /\ a[t].queue = b[t].queue
           /\ \A x \in Tickets : x < t =>
                (a[x].status = "WAITING" /\ a[x].queue = a[t].queue
                   <=> b[x].status = "WAITING" /\ b[x].queue = b[t].queue)
  PROVE  Live(a, t) = Live(b, t)
<1>1. CASE a[t].status = "WAITING"
  <2>1. {x \in Tickets : a[x].status = "WAITING" /\ a[x].queue = a[t].queue /\ x < t}
          = {x \in Tickets : b[x].status = "WAITING" /\ b[x].queue = b[t].queue /\ x < t}
    BY <1>1
  <2> QED BY <1>1, <2>1 DEF Live
<1>2. CASE a[t].status # "WAITING"
  BY <1>2 DEF Live
<1> QED BY <1>1, <1>2

\* A committed position is the live one of the committed rows.
LEMMA CachedIsLive == CachedPositions <=> \A t \in Tickets : ticket[t].position = Live(ticket, t)
BY DEF CachedPositions, Live

\* A step that commits nothing keeps the invariant if its request has come where
\* its label says.
LEMMA SerialStep ==
  ASSUME OneRequest, SerialInv, NEW p \in Procs, UNCHANGED <<ticket, queue>>,
         (Early(p) /\ Late(p))'
  PROVE  SerialInv'
<1>1. CurrentIsInProgress' /\ CachedPositions'
  BY DEF SerialInv, CurrentIsInProgress, CachedPositions, InProgress
<1>2. \A x \in Procs : (Early(x) /\ Late(x))'
  BY DEF OneRequest
<1> QED BY <1>1, <1>2 DEF SerialInv

-----------------------------------------------------------------------------
\* A request starts, and a transaction ends.

\* A request that starts has written nothing, and has decided on what it read.
LEMMA RequestSerial ==
  ASSUME OneRequest, TypeOK, NumberInv, SerialInv, NEW p \in Procs, Request(p)
  PROVE  SerialInv'
<1>1. At(p, "idle") /\ UNCHANGED <<ticket, queue, tnew>>
  BY RequestStarts DEF QuietStart
<1>2. \A q \in Queues : qnew[q].current = queue[q].current
  BY <1>1 DEF SerialInv, Early, At, NoTicketLocked
<1>3. ASSUME NEW q \in Queues, NEW row, WriteQueue(p, q, row), row.current = queue[q].current
      PROVE  \A n \in Queues : qnew'[n].current = queue[n].current
  BY <1>2, <1>3 DEF WriteQueue, TypeOK
<1>4. ASSUME txn'[p].pc \in NoTicketLocked, DecidedOK(p)',
             \A q \in Queues : qnew'[q].current = queue[q].current
      PROVE  SerialInv'
  BY <1>1, <1>4, SerialStep DEF Early, Late
<1>5. ASSUME NEW u \in Users \cup {Guest}, NEW q \in Queues, JoinQueue(p, u, q)
      PROVE  SerialInv'
  <2>0. txn'[p] = [Idle EXCEPT !.op = "joinQueue", !.pc = "insert", !.q = q, !.user = u]
    BY <1>5, ContinueSets DEF JoinQueue
  <2>1. txn'[p].pc = "insert"
    BY <2>0 DEF Idle
  <2>2. [queue[q] EXCEPT !.seq = @ + 1].current = queue[q].current
    BY DEF TypeOK, QueueRow
  <2>3. DecidedOK(p)'
    BY <2>1 DEF DecidedOK, At
  <2> QED BY <1>3, <1>4, <1>5, <2>1, <2>2, <2>3 DEF JoinQueue, NoTicketLocked
<1>6. ASSUME NEW q \in Queues, CallNext(p, q)
      PROVE  SerialInv'
  <2>1. txn'[p].pc = "pick" /\ txn'[p].op = "callNext" /\ txn'[p].q = q
    <3>1. txn'[p] = [Idle EXCEPT !.op = "callNext", !.pc = "pick", !.q = q]
      BY <1>6, ContinueSets DEF CallNext
    <3> QED BY <3>1 DEF Idle
  <2>2. InProgress(q) = {}
    BY <1>6 DEF CallNext, CounterBusy, InProgress
  <2>3. InProgress(q)' = {}
    BY <1>1, <2>2 DEF InProgress
  <2>4. DecidedOK(p)'
    BY <2>1, <2>3 DEF DecidedOK, At
  <2> QED BY <1>3, <1>4, <1>6, <2>1, <2>4 DEF CallNext, NoTicketLocked
<1>7. ASSUME NEW op, NEW t \in Tickets, ReadTicket(p, op, t),
             op \notin {"transferTicket", "callNext"},
             op \in DOMAIN Target => canTransitionTicket(ticket[t].status, Target[op])
      PROVE  SerialInv'
  <2>1. /\ txn'[p].pc = "update" /\ txn'[p].op = op
        /\ txn'[p].t = t /\ txn'[p].q = ticket[t].queue
    <3>1. txn'[p] = [Idle EXCEPT !.op = op, !.pc = "update", !.t = t,
                                  !.q = ticket[t].queue, !.user = ticket[t].user]
      BY <1>7, ContinueSets DEF ReadTicket
    <3> QED BY <3>1 DEF Idle
  <2>2. DecidedOK(p)'
    BY <1>1, <1>7, <2>1 DEF DecidedOK, At
  <2> QED BY <1>2, <1>4, <1>7, <2>1, <2>2 DEF ReadTicket, NoTicketLocked, rows
<1>8. ASSUME NEW t \in Tickets, NEW to \in Queues, ReadForTransfer(p, t, to)
      PROVE  SerialInv'
  <2>1. /\ txn'[p].pc = "target" /\ txn'[p].op = "transferTicket"
        /\ txn'[p].t = t /\ txn'[p].q = ticket[t].queue /\ txn'[p].to = to
    <3>1. txn'[p] = [Idle EXCEPT !.op = "transferTicket", !.pc = "target", !.t = t,
                       !.q = ticket[t].queue, !.user = ticket[t].user, !.to = to]
      BY <1>8, ContinueSets DEF ReadForTransfer
    <3> QED BY <3>1 DEF Idle
  <2>2. DecidedOK(p)'
    BY <1>1, <1>8, <2>1 DEF DecidedOK, At, ReadForTransfer
  <2> QED BY <1>2, <1>4, <1>8, <2>1, <2>2 DEF ReadForTransfer, NoTicketLocked, rows
<1>9. ASSUME NEW q \in Queues, NEW s \in QueueStatus, SetQueueStatus(p, q, s)
      PROVE  SerialInv'
  <2>1. txn'[p].pc = "status"
    <3>1. txn'[p] = [Idle EXCEPT !.op = "setQueueStatus", !.pc = "status", !.q = q,
                                  !.seen = queue[q].status, !.want = s]
      BY <1>9, ContinueSets DEF SetQueueStatus
    <3> QED BY <3>1 DEF Idle
  <2>2. DecidedOK(p)'
    BY <2>1 DEF DecidedOK, At
  <2> QED BY <1>2, <1>4, <1>9, <2>1, <2>2 DEF SetQueueStatus, NoTicketLocked, rows
<1>10. ASSUME NEW t \in Tickets, RecallTicket(p, t)
       PROVE  SerialInv'
  BY <1>7, <1>10 DEF RecallTicket, Target
<1>11. ASSUME NEW t \in Tickets, \/ StartServing(p, t) \/ CompleteService(p, t) \/ MarkNoShow(p, t)
                                 \/ CancelTicket(p, t) \/ LeaveQueue(p, t)
       PROVE  SerialInv'
  BY <1>7, <1>11 DEF StartServing, CompleteService, MarkNoShow, CancelTicket, LeaveQueue,
     ReadForTransition
<1> QED BY <1>5, <1>6, <1>8, <1>9, <1>10, <1>11 DEF Request

\* A commit makes the newest versions the committed rows.
LEMMA SerialCommit ==
  ASSUME OneRequest, TypeOK, NumberInv, NEW p \in Procs, Commit(p)
  PROVE  ticket' = tnew /\ tnew' = tnew /\ queue' = qnew /\ qnew' = qnew
<1>1. /\ ticket' = [t \in Tickets |-> IF tlock[t] = p THEN tnew[t] ELSE ticket[t]]
      /\ queue' = [q \in Queues |-> IF qlock[q] = p THEN qnew[q] ELSE queue[q]]
      /\ UNCHANGED <<tnew, qnew>>
  BY DEF Commit
<1>2. ticket' = tnew
  BY <1>1, SerialRows DEF TypeOK
<1>3. queue' = qnew
  BY <1>1, SerialRows DEF TypeOK
<1> QED BY <1>1, <1>2, <1>3

\* An idle request has come nowhere.
LEMMA IdleSerial ==
  ASSUME OneRequest, TypeOK, NEW p \in Procs, txn' = [txn EXCEPT ![p] = Idle],
         \A q \in Queues : qnew'[q].current = queue'[q].current
  PROVE  \A x \in Procs : (Early(x) /\ Late(x))'
<1>1. txn'[p].pc = "idle"
  BY DEF TypeOK, Idle
<1>2. (Early(p) /\ Late(p))'
  BY <1>1 DEF Early, Late, DecidedOK, At, NoTicketLocked
<1> QED BY <1>2 DEF OneRequest

\* What is committed has every position and pointer in place.
LEMMA CommitSerial ==
  ASSUME OneRequest, TypeOK, NumberInv, SerialInv, NEW p \in Procs, Commit(p)
  PROVE  SerialInv'
<1>1. At(p, "commit") /\ txn' = [txn EXCEPT ![p] = Idle]
  BY DEF Commit
<1>2. PointersOK(p) /\ PositionsOK(p)
  BY <1>1 DEF SerialInv, Late, At, NoTicketLocked
<1>3. CurrentIsInProgress'
  BY <1>1, <1>2, SerialCommit DEF PointersOK, Agree, BusyIn, At, CurrentIsInProgress, InProgress
<1>4. Stale(p) = {}
  BY <1>1 DEF Stale, At
<1>5. \A t \in Tickets : tnew[t].position = Live(tnew, t)
  BY <1>2, <1>4 DEF PositionsOK, Waits
<1>6. CachedPositions'
  BY <1>5, SerialCommit, CachedIsLive DEF CachedPositions, Live
<1> QED BY <1>1, <1>3, <1>6, SerialCommit, IdleSerial DEF SerialInv

\* A rollback leaves the committed rows, which are in order.
LEMMA AbortSerial ==
  ASSUME OneRequest, TypeOK, NumberInv, SerialInv, NEW p \in Procs, Abort(p)
  PROVE  SerialInv'
<1>1. UNCHANGED <<ticket, queue>> /\ txn' = [txn EXCEPT ![p] = Idle]
  BY DEF Abort
<1>2. \A q \in Queues : qnew'[q] = queue[q]
  BY SerialRows DEF Abort
<1>3. CurrentIsInProgress' /\ CachedPositions'
  BY <1>1 DEF SerialInv, CurrentIsInProgress, CachedPositions, InProgress
<1> QED BY <1>1, <1>2, <1>3, IdleSerial DEF SerialInv

\* Writing the status or the kiosk mode of a queue touches neither its tickets nor
\* its pointer, whatever request is under way.
LEMMA UpdateRowSerial ==
  ASSUME TypeOK, NumberInv, SerialInv, NEW q \in Queues,
         \/ \E s \in QueueStatus : UpdateQueue(q, s)
         \/ \E b \in BOOLEAN : SetQueueKioskMode(q, b)
  PROVE  SerialInv'
<1>1. UNCHANGED <<ticket, tnew, txn>>
  BY UpdateRowTickets
<1>2. \A n \in Queues : queue'[n].current = queue[n].current /\ qnew'[n].current = qnew[n].current
  <2>1. PICK row : UpdateRow(q, row) /\ row.current = queue[q].current
    <3>1. \A s : [queue[q] EXCEPT !.status = s].current = queue[q].current
      BY DEF TypeOK, QueueRow
    <3>2. \A b : [queue[q] EXCEPT !.kiosk = b].current = queue[q].current
      BY DEF TypeOK, QueueRow
    <3> QED BY <3>1, <3>2 DEF UpdateQueue, SetQueueKioskMode
  <2>2. qnew[q] = queue[q]
    BY <2>1 DEF UpdateRow, NumberInv
  <2> QED BY <2>1, <2>2 DEF UpdateRow, TypeOK
<1>3. CurrentIsInProgress' /\ CachedPositions'
  <2>1. CurrentIsInProgress'
    BY <1>1, <1>2 DEF SerialInv, CurrentIsInProgress, InProgress
  <2>2. CachedPositions'
    BY <1>1 DEF SerialInv, CachedPositions
  <2> QED BY <2>1, <2>2
<1>4. ASSUME NEW p \in Procs
      PROVE  (Early(p) /\ Late(p))'
  <2>1. Early(p) /\ Late(p)
    BY DEF SerialInv
  <2>2. DecidedOK(p)' <=> DecidedOK(p)
    BY <1>1 DEF DecidedOK, At, InProgress
  <2>3. \A n \in Queues, t \in Tickets : Agree(n, t)' <=> Agree(n, t)
    BY <1>1, <1>2 DEF Agree, BusyIn
  <2>4. PointersOK(p) => PointersOK(p)'
    BY <1>1, <1>2, <2>3 DEF PointersOK, At, BusyIn
  <2>5. Lawful' <=> Lawful
    BY <1>1 DEF Lawful, Same, Takes, Calls, Advances, Moves, InProgress
  <2>6. (PositionsOK(p)' <=> PositionsOK(p)) /\ (NoticesOK(p)' <=> NoticesOK(p))
    BY <1>1 DEF PositionsOK, NoticesOK, Waits, Formerly, Gains, Live, Stale, RanksTarget, At
  <2>7. Early(p)'
    BY <1>1, <1>2, <2>1, <2>2 DEF Early
  <2>8. Late(p)'
    BY <1>1, <2>1, <2>4, <2>5, <2>6 DEF Late
  <2> QED BY <2>7, <2>8
<1> QED BY <1>3, <1>4 DEF SerialInv

-----------------------------------------------------------------------------
\* The statement that writes the ticket a request is about.

\* What is left to show of a write of row to t: the life cycle allows it, its
\* position is in order, and those it moves up stand in a queue to be recomputed.
LEMMA FirstWriteSerial ==
  ASSUME OneRequest, TypeOK, NumberInv, SerialInv, NEW p \in Procs,
         txn[p].pc \in NoTicketLocked, txn'[p].pc \in {"point", "clear", "commit"},
         UNCHANGED <<ticket, queue>>,
         NEW t \in Tickets, NEW row, WriteTicket(p, t, row),
         ticket[t].status # "NONE" => row.user = ticket[t].user,
         (Same(t) \/ Takes(t) \/ Calls(t) \/ Advances(t) \/ Moves(t))',
         ~Gains(t)',
         row.position = IF Waits(t, Stale(p))' THEN Formerly(t)' ELSE Live(tnew', t),
         \A u \in Tickets \ {t} :
           \/ ticket[u].status # "WAITING"
           \/ ticket[u].queue \in Stale(p)'
           \/ u < t
           \/ ticket[t].status = "WAITING" /\ ticket[t].queue = ticket[u].queue
                <=> row.status = "WAITING" /\ row.queue = ticket[u].queue,
         \A u \in Tickets : <<u, "POSITION_CHANGED">> \notin txn'[p].notices,
         PointersOK(p)'
  PROVE  SerialInv'
<1>1. /\ tnew'[t] = row
      /\ \A u \in Tickets \ {t} : tnew'[u] = ticket[u]
  BY SerialUntouched DEF WriteTicket, TypeOK
<1>2. Lawful'
  BY <1>1 DEF Lawful, Same
<1>3. ASSUME NEW u \in Tickets \ {t}, ticket[u].status # "WAITING" \/ ticket[u].queue \notin Stale(p)'
      PROVE  tnew'[u].position = Live(tnew', u)
  <2>1. tnew'[u] = ticket[u]
    BY <1>1
  <2>2. ASSUME NEW x \in Tickets, x < u, ticket[u].status = "WAITING"
        PROVE  (tnew'[x].status = "WAITING" /\ tnew'[x].queue = tnew'[u].queue)
                 <=> (ticket[x].status = "WAITING" /\ ticket[x].queue = ticket[u].queue)
    <3>1. CASE x # t
      BY <1>1, <2>1, <3>1
    <3>2. CASE x = t
      <4>1. ~(u < t)
        BY <2>2, <3>2 DEF Tickets
      <4> QED BY <1>1, <1>3, <2>1, <2>2, <3>2, <4>1
    <3> QED BY <3>1, <3>2
  <2>3. Live(tnew', u) = Live(ticket, u)
    BY <2>1, <2>2, LiveSame
  <2> QED BY <2>1, <2>3, CachedIsLive DEF SerialInv
<1>4. ASSUME NEW u \in Tickets
      PROVE  /\ ~Waits(u, Stale(p))' => tnew'[u].position = Live(tnew', u)
             /\ Waits(u, Stale(p))' => tnew'[u].position = Formerly(u)'
  <2>1. CASE u = t
    BY <1>1, <2>1
  <2>2. CASE u # t
    BY <1>1, <1>3, <2>2 DEF Waits, Formerly
  <2> QED BY <2>1, <2>2
<1>5. PositionsOK(p)'
  BY <1>4 DEF PositionsOK, At
<1>6. \A u \in Tickets : ~Gains(u)'
  BY <1>1 DEF Gains, TypeOK, TicketRow
<1>7. NoticesOK(p)'
  BY <1>6 DEF NoticesOK
<1> QED BY <1>2, <1>5, <1>7, SerialStep DEF Early, Late, NoTicketLocked

\* What createNotification writes for a ticket says nothing of positions.
LEMMA OtherNotice ==
  ASSUME NEW t, NEW user, NEW type, type # "POSITION_CHANGED"
  PROVE  \A u \in Tickets : <<u, "POSITION_CHANGED">> \notin Notice(t, user, type)
BY DEF Notice

\* A new ticket stands behind all that wait.
LEMMA InsertSerial ==
  ASSUME OneRequest, TypeOK, NumberInv, SerialInv, NEW p \in Procs, InsertTicket(p)
  PROVE  SerialInv'
<1>0. At(p, "insert") /\ txn[p] \in Locals /\ txn[p].q \in Queues /\ tnew = ticket
      /\ UNCHANGED <<ticket, queue, qnew>>
  BY SerialUntouched DEF InsertTicket, At, NoTicketLocked, TypeOK
<1>1. PICK t \in Tickets :
        /\ \A x \in Tickets : x >= t <=> tnew[x].status = "NONE"
        /\ WriteTicket(p, t,
             [status |-> "WAITING", queue |-> txn[p].q, user |-> txn[p].user,
              number |-> qnew[txn[p].q].seq,
              position |-> Cardinality(WaitingIn(p, txn[p].q)) + 1])
        /\ Continue(p, [txn[p] EXCEPT !.pc = "commit", !.t = t,
                          !.notices = Notice(t, txn[p].user, "QUEUE_JOINED")])
  BY DEF InsertTicket
<1> DEFINE place == Cardinality(WaitingIn(p, txn[p].q)) + 1
           row == [status |-> "WAITING", queue |-> txn[p].q, user |-> txn[p].user,
                   number |-> qnew[txn[p].q].seq, position |-> place]
<1>2. WriteTicket(p, t, row)
  BY <1>1
<1>3. /\ row.status = "WAITING" /\ row.queue = txn[p].q /\ row.position = place
      /\ tnew'[t] = row /\ \A u \in Tickets \ {t} : tnew'[u] = ticket[u]
  BY <1>0, <1>2 DEF WriteTicket, TypeOK
<1>4. ticket[t].status = "NONE" /\ \A u \in Tickets : ticket[u].status # "NONE" => u < t
  BY <1>0, <1>1 DEF Tickets
<1>5. WaitingIn(p, txn[p].q)
        = {x \in Tickets : /\ tnew'[x].status = "WAITING"
                           /\ tnew'[x].queue = tnew'[t].queue
                           /\ x < t}
  <2>1. \A x \in Tickets : ticket[x].status = "WAITING" => x < t
    BY <1>4
  <2> QED BY <1>0, <1>3, <1>4, <2>1, SerialWaiting DEF Waits, Tickets
<1>6. place = Live(tnew', t)
  <2>1. Cardinality(WaitingIn(p, txn[p].q)) \in Nat
    BY FiniteCount DEF WaitingIn
  <2> QED BY <1>3, <1>5, <2>1 DEF Live
<1> HIDE DEF place, row
<1>7. /\ txn'[p].pc = "commit"
      /\ txn'[p].notices = Notice(t, txn[p].user, "QUEUE_JOINED")
  <2>1. txn'[p] = [txn[p] EXCEPT !.pc = "commit", !.t = t,
                     !.notices = Notice(t, txn[p].user, "QUEUE_JOINED")]
    BY <1>1, ContinueSets
  <2> QED BY <1>0, <2>1 DEF Locals
<1>8. Takes(t)' /\ ~Gains(t)'
  BY <1>0, <1>3, <1>4 DEF Takes, Gains
<1>9. PointersOK(p)'
  <2>1. \A n \in Queues : qnew[n].current = queue[n].current
    BY <1>0 DEF SerialInv, Early, At, NoTicketLocked
  <2>2. ASSUME NEW n \in Queues, NEW u \in Tickets
        PROVE  Agree(n, u)'
    <3>1. BusyIn(n, u)' <=> u \in InProgress(n)
      BY <1>3, <1>4 DEF BusyIn, InProgress, IN_PROGRESS_STATUSES
    <3> QED BY <1>0, <2>1, <3>1 DEF Agree, SerialInv, CurrentIsInProgress
  <2> QED BY <1>7, <2>2 DEF PointersOK, At
<1>10. Stale(p)' = {}
  BY <1>7 DEF Stale, At
<1>11. \A u \in Tickets : ticket[u].status = "WAITING" => u < t
  BY <1>4
<1> QED BY <1>0, <1>2, <1>3, <1>4, <1>6, <1>7, <1>8, <1>9, <1>10, <1>11, OtherNotice,
           FirstWriteSerial DEF At, NoTicketLocked, Waits

\* A call takes the first in line of a queue with nobody in progress.
LEMMA PickSerial ==
  ASSUME OneRequest, TypeOK, NumberInv, SerialInv, NEW p \in Procs, PickNext(p)
  PROVE  SerialInv'
<1> PICK q : q = txn[p].q
  OBVIOUS
<1>0. At(p, "pick") /\ txn[p] \in Locals /\ tnew = ticket /\ UNCHANGED <<ticket, queue, qnew>>
  BY SerialUntouched DEF PickNext, At, NoTicketLocked, TypeOK
<1>1. PICK t \in NextInLine(q) :
        /\ WriteTicket(p, t, [tnew[t] EXCEPT !.status = "CALLED", !.position = 0])
        /\ Continue(p, [txn[p] EXCEPT !.pc = "point", !.t = t,
                          !.notices = Notice(t, tnew[t].user, "CUSTOMER_CALLED")])
  BY DEF PickNext
<1>2. /\ t \in Tickets /\ ticket[t].status = "WAITING" /\ ticket[t].queue = q
      /\ \A u \in Tickets : ticket[u].status = "WAITING" /\ ticket[u].queue = q => t <= u
  <2>1. \A u \in Tickets : tlock[u] = NoProc
    BY <1>0 DEF OneRequest, TypeOK, NumberInv, NoTicketLocked, At
  <2> QED BY <2>1 DEF NextInLine, Callable
<1>3. PICK row : /\ WriteTicket(p, t, row)
                 /\ row.status = "CALLED" /\ row.position = 0
                 /\ row.queue = q /\ row.user = ticket[t].user
  <2>1. tnew[t] \in TicketRow
    BY <1>2 DEF TypeOK
  <2>2. PICK row : row = [tnew[t] EXCEPT !.status = "CALLED", !.position = 0]
    OBVIOUS
  <2>3. row.status = "CALLED" /\ row.position = 0 /\ row.queue = q /\ row.user = ticket[t].user
    BY <1>0, <1>2, <2>1, <2>2 DEF TicketRow
  <2> QED BY <1>1, <2>2, <2>3
<1>4. tnew'[t] = row /\ \A u \in Tickets \ {t} : tnew'[u] = ticket[u]
  BY <1>0, <1>2, <1>3 DEF WriteTicket, TypeOK
<1>5. txn[p].op = "callNext" /\ q \in Queues /\ InProgress(q) = {}
      /\ \A n \in Queues : qnew[n].current = queue[n].current
  BY <1>0 DEF SerialInv, Early, DecidedOK, At, NoTicketLocked
<1>6. /\ txn'[p].pc = "point" /\ txn'[p].op = "callNext" /\ txn'[p].q = q /\ txn'[p].t = t
      /\ txn'[p].notices = Notice(t, tnew[t].user, "CUSTOMER_CALLED")
  <2>1. txn'[p] = [txn[p] EXCEPT !.pc = "point", !.t = t,
                     !.notices = Notice(t, tnew[t].user, "CUSTOMER_CALLED")]
    BY <1>1, ContinueSets
  <2> QED BY <1>0, <1>5, <2>1 DEF Locals
<1>7. Calls(t)' /\ ~Gains(t)'
  <2>1. InProgress(q)' = {}
    BY <1>0, <1>5 DEF InProgress
  <2> QED BY <1>0, <1>2, <1>3, <1>4, <1>5, <2>1 DEF Calls, Gains
<1>8. PointersOK(p)'
  <2>1. ASSUME NEW n \in Queues, NEW u \in Tickets
        PROVE  BusyIn(n, u)' <=> u \in InProgress(n) \/ (u = t /\ n = q)
    BY <1>2, <1>3, <1>4 DEF BusyIn, InProgress, IN_PROGRESS_STATUSES
  <2>2. \A n \in Queues, u \in Tickets : qnew'[n].current = u <=> u \in InProgress(n)
    BY <1>0, <1>5 DEF SerialInv, CurrentIsInProgress
  <2> QED BY <1>2, <1>5, <1>6, <2>1, <2>2 DEF PointersOK, Agree, At
<1>9. Stale(p)' = {q}
  BY <1>6 DEF Stale, At
<1>10. row.position = IF Waits(t, Stale(p))' THEN Formerly(t)' ELSE Live(tnew', t)
  BY <1>3, <1>4 DEF Waits, Live
<1>11. \A u \in Tickets : <<u, "POSITION_CHANGED">> \notin txn'[p].notices
  BY <1>6, OtherNotice
<1>12. txn[p].pc \in NoTicketLocked /\ txn'[p].pc \in {"point", "clear", "commit"}
  BY <1>0, <1>6 DEF At, NoTicketLocked
<1>13. ASSUME NEW u \in Tickets \ {t}, ticket[u].queue \notin Stale(p)'
       PROVE  ticket[t].status = "WAITING" /\ ticket[t].queue = ticket[u].queue
                <=> row.status = "WAITING" /\ row.queue = ticket[u].queue
  BY <1>2, <1>3, <1>9, <1>13
<1> QED BY <1>0, <1>2, <1>3, <1>7, <1>8, <1>10, <1>11, <1>12, <1>13, FirstWriteSerial

\* The status an operation on one ticket leaves it in.
LEMMA UpdatedRowFields ==
  ASSUME NEW row \in TicketRow, NEW op \in DOMAIN NoticeType
  PROVE  /\ UpdatedRow(op, row).queue = row.queue
         /\ UpdatedRow(op, row).user = row.user
         /\ op = "recallTicket" => UpdatedRow(op, row) = row
         /\ op # "recallTicket" =>
              /\ op \in DOMAIN Target
              /\ UpdatedRow(op, row).status = Target[op]
              /\ Target[op] \in {"SERVING", "COMPLETED", "NO_SHOW", "CANCELLED"}
              /\ Target[op] = "SERVING" <=> op = "startServing"
              /\ UpdatedRow(op, row).position \in {0, row.position}
              /\ Target[op] = "CANCELLED" => UpdatedRow(op, row).position = 0
<1>1. op \in {"recallTicket", "startServing", "completeService", "markNoShow",
              "cancelTicket", "leaveQueue"}
  BY DEF NoticeType
<1>2. CASE op = "recallTicket"
  BY <1>2 DEF UpdatedRow
<1>3. CASE op \in {"startServing", "completeService"}
  BY <1>3 DEF UpdatedRow, Target, TicketRow
<1>4. CASE op \in {"markNoShow", "cancelTicket", "leaveQueue"}
  BY <1>4 DEF UpdatedRow, Target, TicketRow
<1> QED BY <1>1, <1>2, <1>3, <1>4

\* A transition, decided on a row that is still what was read, is the life cycle's.
LEMMA UpdateSerial ==
  ASSUME OneRequest, TypeOK, NumberInv, SerialInv, NEW p \in Procs, UpdateTicket(p)
  PROVE  SerialInv'
<1> PICK q, t, op, row : /\ q = txn[p].q /\ t = txn[p].t /\ op = txn[p].op
                         /\ row = UpdatedRow(op, ticket[t])
  OBVIOUS
<1> DEFINE label == CASE op = "startServing" -> "point"
                      [] op = "recallTicket" -> "commit"
                      [] OTHER -> "clear"
<1>0. At(p, "update") /\ txn[p] \in Locals /\ tnew = ticket /\ UNCHANGED <<ticket, queue, qnew>>
  BY SerialUntouched DEF UpdateTicket, At, NoTicketLocked, TypeOK
<1>1. /\ t \in Tickets /\ q = ticket[t].queue
      /\ op \in DOMAIN NoticeType
      /\ op \in DOMAIN Target => canTransitionTicket(ticket[t].status, Target[op])
      /\ op # "transferTicket" /\ op # "callNext"
      /\ \A n \in Queues : qnew[n].current = queue[n].current
  BY <1>0 DEF SerialInv, Early, DecidedOK, At, NoTicketLocked, UpdateTicket
<1>2. WriteTicket(p, t, row)
  BY <1>0 DEF UpdateTicket
<1>3. tnew'[t] = row /\ \A u \in Tickets \ {t} : tnew'[u] = ticket[u]
  BY <1>0, <1>1, <1>2 DEF WriteTicket, TypeOK
<1>4. /\ txn'[p].pc = label /\ txn'[p].t = t /\ txn'[p].q = q /\ txn'[p].op = op
      /\ txn'[p].notices = Notice(t, txn[p].user, NoticeType[op])
  <2>1. txn'[p] = [txn[p] EXCEPT !.pc = label, !.notices = Notice(t, txn[p].user, NoticeType[op])]
    BY ContinueSets DEF UpdateTicket
  <2> HIDE DEF label
  <2> QED BY <1>0, <2>1 DEF Locals
<1>5. NoticeType[op] # "POSITION_CHANGED"
  BY <1>1 DEF NoticeType
<1>6. ticket[t] \in TicketRow
  BY <1>1 DEF TypeOK
<1>7. /\ row.queue = q /\ row.user = ticket[t].user
      /\ op = "recallTicket" => row = ticket[t]
      /\ op # "recallTicket" =>
           /\ op \in DOMAIN Target
           /\ row.status = Target[op]
           /\ Target[op] \in {"SERVING", "COMPLETED", "NO_SHOW", "CANCELLED"}
           /\ Target[op] = "SERVING" <=> op = "startServing"
           /\ row.position \in {0, ticket[t].position}
           /\ Target[op] = "CANCELLED" => row.position = 0
  BY <1>1, <1>6, UpdatedRowFields
<1>8. /\ label = "point" => op = "startServing"
      /\ label = "commit" => op = "recallTicket"
      /\ label = "clear" => op \notin {"startServing", "recallTicket"}
      /\ label \in {"point", "commit", "clear"}
  BY DEF label
<1>9. /\ ticket[t].position = Live(ticket, t)
      /\ \A n \in Queues, u \in Tickets : queue[n].current = u <=> u \in InProgress(n)
  BY <1>1, CachedIsLive DEF SerialInv, CurrentIsInProgress
<1> HIDE DEF label
<1>10. ASSUME op # "recallTicket"
       PROVE  /\ Advances(t)' /\ row.position = Live(tnew', t)
              /\ op = "startServing" => ticket[t].status = "CALLED"
              /\ row.status # "WAITING"
              /\ op # "startServing" => row.status \notin IN_PROGRESS_STATUSES
  <2>1. <<ticket[t].status, Target[op]>> \in TICKET_TRANSITIONS
    BY <1>1, <1>7, <1>10 DEF canTransitionTicket
  <2>2. op = "startServing" => ticket[t].status = "CALLED"
    BY <1>7, <1>10, <2>1 DEF TICKET_TRANSITIONS
  <2>3. Advances(t)'
    BY <1>0, <1>1, <1>3, <1>7, <1>10 DEF Advances, TicketStatus, ACTIVE_TICKET_STATUSES,
       TERMINAL_TICKET_STATUSES
  <2>4. Live(tnew', t) = 0
    BY <1>3, <1>7, <1>10 DEF Live
  <2>5. row.position = 0
    <3>1. CASE op = "startServing"
      BY <1>7, <1>9, <1>10, <2>2, <3>1 DEF Live
    <3>2. CASE op # "startServing"
      <4>1. ticket[t].status = "WAITING" => Target[op] = "CANCELLED"
        BY <1>7, <1>10, <2>1 DEF TICKET_TRANSITIONS
      <4>2. ticket[t].status # "WAITING" => ticket[t].position = 0
        BY <1>9 DEF Live
      <4> QED BY <1>7, <1>10, <4>1, <4>2
    <3> QED BY <3>1, <3>2
  <2> QED BY <1>7, <1>10, <2>2, <2>3, <2>4, <2>5 DEF IN_PROGRESS_STATUSES
<1>11. ASSUME NEW u \in Tickets \ {t}, ticket[u].status = "WAITING", ticket[u].queue # q
       PROVE  ticket[t].status = "WAITING" /\ ticket[t].queue = ticket[u].queue
                <=> row.status = "WAITING" /\ row.queue = ticket[u].queue
  BY <1>1, <1>7, <1>11
<1>12. \A n \in Queues, u \in Tickets :
         /\ u # t => (BusyIn(n, u)' <=> u \in InProgress(n))
         /\ BusyIn(n, t)' <=> n = q /\ row.status \in IN_PROGRESS_STATUSES
         /\ qnew'[n].current = u <=> u \in InProgress(n)
         /\ t \in InProgress(n) => n = q
  BY <1>0, <1>1, <1>3, <1>7, <1>9 DEF BusyIn, InProgress
<1>13. \A u \in Tickets : <<u, "POSITION_CHANGED">> \notin txn'[p].notices
  BY <1>4, <1>5, OtherNotice
<1>14. CASE op = "recallTicket"
  <2>1. tnew' = ticket /\ txn'[p].pc = "commit"
    <3>1. tnew' = [tnew EXCEPT ![t] = row]
      BY <1>2 DEF WriteTicket
    <3> QED BY <1>0, <1>1, <1>4, <1>7, <1>14, <3>1 DEF TypeOK, label
  <2>2. Same(t)' /\ ~Gains(t)'
    BY <1>0, <1>6, <2>1 DEF Same, Gains, TicketRow
  <2>3. Stale(p)' = {}
    BY <2>1 DEF Stale, At
  <2>4. PointersOK(p)'
    <3>1. \A n \in Queues, u \in Tickets : BusyIn(n, u)' <=> u \in InProgress(n)
      BY <2>1 DEF BusyIn, InProgress
    <3> QED BY <1>12, <2>1, <3>1 DEF PointersOK, Agree, At
  <2> QED BY <1>0, <1>1, <1>2, <1>7, <1>9, <1>13, <1>14, <2>1, <2>2, <2>3, <2>4,
             FirstWriteSerial DEF At, NoTicketLocked, Waits
<1>15. CASE op = "startServing"
  <2>1. txn'[p].pc = "point" /\ Stale(p)' = {}
    <3>1. txn'[p].pc = "point"
      BY <1>4, <1>15 DEF label
    <3> QED BY <1>1, <1>4, <3>1 DEF Stale, At
  <2>2. Advances(t)' /\ ~Gains(t)' /\ row.position = Live(tnew', t)
    BY <1>3, <1>10, <1>15 DEF Gains
  <2>3. row.status \in IN_PROGRESS_STATUSES /\ t \in InProgress(q)
    BY <1>1, <1>7, <1>10, <1>15 DEF InProgress, IN_PROGRESS_STATUSES
  <2>4. PointersOK(p)'
    <3>1. ASSUME NEW n \in Queues, NEW u \in Tickets
          PROVE  IF n = q THEN BusyIn(n, u)' <=> u = t ELSE Agree(n, u)'
      <4>1. CASE n # q
        BY <1>12, <4>1 DEF Agree
      <4>2. CASE n = q /\ u = t
        BY <1>12, <2>3, <4>2
      <4>3. CASE n = q /\ u # t
        BY <1>1, <1>12, <2>3, <4>3
      <4> QED BY <4>1, <4>2, <4>3
    <3> QED BY <1>4, <2>1, <3>1 DEF PointersOK, At
  <2> QED BY <1>0, <1>1, <1>2, <1>7, <1>10, <1>13, <1>15, <2>1, <2>2, <2>4, FirstWriteSerial
          DEF At, NoTicketLocked, Waits
<1>16. CASE op \notin {"recallTicket", "startServing"}
  <2>1. txn'[p].pc = "clear" /\ Stale(p)' = {q}
    <3>1. txn'[p].pc = "clear"
      BY <1>4, <1>16 DEF label
    <3> QED BY <1>1, <1>4, <3>1 DEF Stale, At
  <2>2. Advances(t)' /\ ~Gains(t)' /\ row.position = Live(tnew', t) /\ ~Waits(t, Stale(p))'
    BY <1>3, <1>10, <1>16 DEF Gains, Waits
  <2>3. PointersOK(p)'
    BY <1>1, <1>4, <1>10, <1>12, <1>16, <2>1 DEF PointersOK, Agree, At
  <2> QED BY <1>0, <1>1, <1>2, <1>7, <1>11, <1>13, <2>1, <2>2, <2>3, FirstWriteSerial
          DEF At, NoTicketLocked
<1> QED BY <1>14, <1>15, <1>16

\* The target queue is locked and its next number taken; nothing else has changed.
LEMMA LockTargetSerial ==
  ASSUME OneRequest, TypeOK, NumberInv, SerialInv, NEW p \in Procs, LockTarget(p)
  PROVE  SerialInv'
<1>0. At(p, "target") /\ txn[p] \in Locals /\ txn[p].to \in Queues
      /\ UNCHANGED <<ticket, queue, tnew>>
  BY DEF LockTarget, At, TypeOK
<1>1. DecidedOK(p) /\ \A n \in Queues : qnew[n].current = queue[n].current
  BY <1>0 DEF SerialInv, Early, At, NoTicketLocked
<1>2. txn'[p] = [txn[p] EXCEPT !.pc = "move"]
  BY ContinueSets DEF LockTarget
<1>3. /\ txn'[p].pc = "move" /\ txn'[p].op = txn[p].op /\ txn'[p].t = txn[p].t
      /\ txn'[p].q = txn[p].q /\ txn'[p].to = txn[p].to
  BY <1>0, <1>2 DEF Locals
<1>4. DecidedOK(p)'
  BY <1>0, <1>1, <1>3 DEF DecidedOK, At
<1>5. \A n \in Queues : qnew'[n].current = queue[n].current
  <2>1. [queue[txn[p].to] EXCEPT !.seq = @ + 1].current = queue[txn[p].to].current
    BY <1>0 DEF TypeOK, QueueRow
  <2> QED BY <1>1, <2>1 DEF LockTarget, WriteQueue, TypeOK
<1> QED BY <1>0, <1>3, <1>4, <1>5, SerialStep DEF Early, Late, NoTicketLocked

\* A transferred ticket leaves one line and joins another.
LEMMA MoveSerial ==
  ASSUME OneRequest, TypeOK, NumberInv, SerialInv, NEW p \in Procs, MoveTicket(p)
  PROVE  SerialInv'
<1> PICK q, t, to, row : /\ q = txn[p].q /\ t = txn[p].t /\ to = txn[p].to
                         /\ row = MovedRow(ticket[t], to)
  OBVIOUS
<1>0. At(p, "move") /\ txn[p] \in Locals /\ tnew = ticket /\ to \in Queues
      /\ UNCHANGED <<ticket, queue, qnew>>
  BY SerialUntouched DEF MoveTicket, At, NoTicketLocked, TypeOK
<1>1. /\ t \in Tickets /\ q = ticket[t].queue /\ txn[p].op = "transferTicket"
      /\ ticket[t].status \in ACTIVE_TICKET_STATUSES
      /\ ticket[t].queue # to
      /\ \A n \in Queues : qnew[n].current = queue[n].current
  BY <1>0 DEF SerialInv, Early, DecidedOK, At, NoTicketLocked
<1>2. WriteTicket(p, t, row)
  BY <1>0 DEF MoveTicket
<1>3. tnew'[t] = row /\ \A u \in Tickets \ {t} : tnew'[u] = ticket[u]
  BY <1>0, <1>1, <1>2 DEF WriteTicket, TypeOK
<1>4. ticket[t] \in TicketRow
  BY <1>1 DEF TypeOK
<1>5. row.status = "WAITING" /\ row.queue = to /\ row.position = 0 /\ row.user = ticket[t].user
  BY <1>4 DEF MovedRow, TicketRow
<1>6. /\ txn'[p].pc = "clear" /\ txn'[p].op = "transferTicket"
      /\ txn'[p].t = t /\ txn'[p].q = q /\ txn'[p].to = to
      /\ txn'[p].notices = Notice(t, txn[p].user, "QUEUE_JOINED")
  <2>1. txn'[p] = [txn[p] EXCEPT !.pc = "clear", !.notices = Notice(t, txn[p].user, "QUEUE_JOINED")]
    BY ContinueSets DEF MoveTicket
  <2> QED BY <1>0, <1>1, <2>1 DEF Locals
<1>7. Stale(p)' = {q, to}
  BY <1>6 DEF Stale, At
<1>8. Moves(t)' /\ ~Gains(t)'
  BY <1>0, <1>1, <1>3, <1>5 DEF Moves, Gains
<1>9. Waits(t, Stale(p))' /\ Formerly(t)' = 0
  BY <1>0, <1>1, <1>3, <1>5, <1>7 DEF Waits, Formerly
<1>10. PointersOK(p)'
  <2>1. \A n \in Queues : ~BusyIn(n, t)'
    BY <1>3, <1>5 DEF BusyIn, IN_PROGRESS_STATUSES
  <2>2. \A n \in Queues, u \in Tickets : qnew'[n].current = u <=> u \in InProgress(n)
    BY <1>0, <1>1 DEF SerialInv, CurrentIsInProgress
  <2>3. \A n \in Queues, u \in Tickets \ {t} : Agree(n, u)'
    BY <1>3, <2>2 DEF Agree, BusyIn, InProgress
  <2>4. \A n \in Queues : qnew'[n].current = t => n = q
    BY <1>1, <2>2 DEF InProgress
  <2> QED BY <1>1, <1>6, <2>1, <2>3, <2>4 DEF PointersOK, At
<1>11. \A u \in Tickets : <<u, "POSITION_CHANGED">> \notin txn'[p].notices
  BY <1>6, OtherNotice
<1>12. ASSUME NEW u \in Tickets \ {t}, ticket[u].queue \notin Stale(p)'
       PROVE  ticket[t].status = "WAITING" /\ ticket[t].queue = ticket[u].queue
                <=> row.status = "WAITING" /\ row.queue = ticket[u].queue
  BY <1>1, <1>5, <1>7, <1>12
<1>13. txn[p].pc \in NoTicketLocked /\ txn'[p].pc \in {"point", "clear", "commit"}
  BY <1>0, <1>6 DEF At, NoTicketLocked
<1> QED BY <1>0, <1>1, <1>2, <1>5, <1>8, <1>9, <1>10, <1>11, <1>12, <1>13, FirstWriteSerial

\* Writing a queue's status writes no ticket: all is as committed.
LEMMA StatusSerial ==
  ASSUME OneRequest, TypeOK, NumberInv, SerialInv, NEW p \in Procs, WriteStatus(p)
  PROVE  SerialInv'
<1>0. At(p, "status") /\ txn[p] \in Locals /\ tnew = ticket /\ UNCHANGED <<ticket, queue, tnew>>
  BY SerialUntouched DEF WriteStatus, At, NoTicketLocked, TypeOK
<1>1. txn'[p] = [txn[p] EXCEPT !.pc = "commit", !.notices = StatusNotices(p)]
  BY ContinueSets DEF WriteStatus
<1>2. txn'[p].pc = "commit" /\ txn'[p].notices = StatusNotices(p)
  BY <1>0, <1>1 DEF Locals
<1>3. \A n \in Queues : qnew'[n].current = queue[n].current
  <2>1. \A n \in Queues : qnew[n].current = queue[n].current
    BY <1>0 DEF SerialInv, Early, At, NoTicketLocked
  <2>2. PICK row : /\ WriteQueue(p, txn[p].q, row)
                   /\ row = [qnew[txn[p].q] EXCEPT !.status = txn[p].want]
    BY DEF WriteStatus
  <2>3. CASE txn[p].q \in Queues
    <3>1. row.current = qnew[txn[p].q].current
      BY <2>2, <2>3 DEF TypeOK, QueueRow
    <3> QED BY <2>1, <2>2, <3>1 DEF WriteQueue, TypeOK
  <2>4. CASE txn[p].q \notin Queues
    BY <2>1, <2>2, <2>4 DEF WriteQueue, TypeOK
  <2> QED BY <2>3, <2>4
<1>4. Lawful'
  BY <1>0 DEF Lawful, Same
<1>5. PointersOK(p)'
  <2>1. \A n \in Queues, u \in Tickets : Agree(n, u)'
    BY <1>0, <1>3 DEF Agree, BusyIn, SerialInv, CurrentIsInProgress, InProgress
  <2> QED BY <1>2, <2>1 DEF PointersOK, At
<1>6. Stale(p)' = {}
  BY <1>2 DEF Stale, At
<1>7. \A u \in Tickets : tnew'[u].position = Live(tnew', u)
  BY <1>0, CachedIsLive DEF SerialInv
<1>8. PositionsOK(p)'
  BY <1>2, <1>6, <1>7 DEF PositionsOK, Waits, At
<1>9. NoticesOK(p)'
  <2>1. \A u \in Tickets : ~Gains(u)'
    BY <1>0 DEF Gains, TypeOK, TicketRow
  <2>2. \A u \in Tickets : <<u, "POSITION_CHANGED">> \notin StatusNotices(p)
    <3>1. ASSUME NEW u \in Tickets, <<u, "POSITION_CHANGED">> \in StatusNotices(p)
          PROVE  FALSE
      <4>1. PICK t \in WaitingIn(p, txn[p].q) :
              <<u, "POSITION_CHANGED">> \in Notice(t, SeenTicket(p, t).user, "QUEUE_STATUS_CHANGED")
        BY <3>1 DEF StatusNotices
      <4> QED BY <4>1, OtherNotice
    <3> QED BY <3>1
  <2> QED BY <1>2, <2>1, <2>2 DEF NoticesOK
<1> QED BY <1>0, <1>2, <1>4, <1>5, <1>8, <1>9, SerialStep DEF Early, Late, NoTicketLocked

-----------------------------------------------------------------------------
\* The statements that bring pointers and positions up to date.

\* Until its commit a request only adds to what makes its tickets lawful.
LEMMA LateSerial ==
  ASSUME OneRequest, SerialInv, NEW p \in Procs, UNCHANGED <<ticket, queue>>,
         txn'[p].pc \notin NoTicketLocked, (Lawful /\ PointersOK(p) /\ PositionsOK(p) /\ NoticesOK(p))'
  PROVE  SerialInv'
BY SerialStep DEF Early, Late

\* Tickets, and who has been told, stay as they are, and so do the stale queues.
LEMMA SamePositions ==
  ASSUME NEW p \in Procs, UNCHANGED <<ticket, tnew>>, Stale(p)' = Stale(p),
         ~At(p, "write"), txn'[p].pc \in {"before", "commit"},
         txn'[p].notices = txn[p].notices, Lawful, PositionsOK(p), NoticesOK(p)
  PROVE  (Lawful /\ PositionsOK(p) /\ NoticesOK(p))'
<1>1. Lawful'
  BY DEF Lawful, Same, Takes, Calls, Advances, Moves, InProgress
<1>2. \A u \in Tickets : /\ Waits(u, Stale(p))' <=> Waits(u, Stale(p))
                         /\ Formerly(u)' = Formerly(u)
                         /\ Live(tnew', u) = Live(tnew, u)
                         /\ Gains(u)' <=> Gains(u)
  BY DEF Waits, Formerly, Gains
<1>3. PositionsOK(p)'
  BY <1>2 DEF PositionsOK, At
<1>4. NoticesOK(p)'
  BY <1>2 DEF NoticesOK
<1> QED BY <1>1, <1>3, <1>4

\* The queue points at the ticket called or served in it.
LEMMA PointSerial ==
  ASSUME OneRequest, TypeOK, NumberInv, SerialInv, NEW p \in Procs, PointAt(p)
  PROVE  SerialInv'
<1> PICK q, t, op : q = txn[p].q /\ t = txn[p].t /\ op = txn[p].op
  OBVIOUS
<1>0. At(p, "point") /\ txn[p] \in Locals /\ UNCHANGED <<ticket, queue, tnew>>
  BY DEF PointAt, TypeOK
<1>1. Lawful /\ PointersOK(p) /\ PositionsOK(p) /\ NoticesOK(p)
  BY <1>0 DEF SerialInv, Late, At, NoTicketLocked
<1>2. PICK row : WriteQueue(p, q, row) /\ row = [qnew[q] EXCEPT !.current = t]
  BY DEF PointAt
<1>3. \A n \in Queues, u \in Tickets : Agree(n, u)'
  <2>1. ASSUME NEW n \in Queues \ {q}, NEW u \in Tickets
        PROVE  Agree(n, u)'
    BY <1>0, <1>1, <1>2, <2>1 DEF WriteQueue, PointersOK, Agree, BusyIn, TypeOK
  <2>2. ASSUME q \in Queues, NEW u \in Tickets
        PROVE  Agree(q, u)'
    <3>1. qnew'[q].current = t
      <4>1. qnew[q] \in QueueRow
        BY <2>2 DEF TypeOK
      <4> QED BY <1>2, <2>2, <4>1 DEF WriteQueue, TypeOK, QueueRow
    <3> QED BY <1>0, <1>1, <2>2, <3>1 DEF PointersOK, Agree, BusyIn
  <2> QED BY <2>1, <2>2
<1>4. /\ txn'[p].notices = txn[p].notices
      /\ op = "callNext" => txn'[p].pc = "before" /\ txn'[p].rq = q /\ txn'[p].op = op
      /\ op # "callNext" => txn'[p].pc = "commit"
  <2>1. CASE op = "callNext"
    <3>1. txn'[p] = [txn[p] EXCEPT !.pc = "before", !.rq = q]
      BY <2>1, ContinueSets DEF PointAt
    <3> QED BY <1>0, <2>1, <3>1 DEF Locals
  <2>2. CASE op # "callNext"
    <3>1. txn'[p] = [txn[p] EXCEPT !.pc = "commit"]
      BY <2>2, ContinueSets DEF PointAt
    <3> QED BY <1>0, <2>2, <3>1 DEF Locals
  <2> QED BY <2>1, <2>2
<1>5. Stale(p)' = Stale(p)
  BY <1>0, <1>4 DEF Stale, RanksTarget, At
<1>6. PointersOK(p)'
  BY <1>3, <1>4 DEF PointersOK, At
<1>7. txn'[p].pc \in {"before", "commit"}
  BY <1>4
<1>8. (Lawful /\ PositionsOK(p) /\ NoticesOK(p))'
  BY <1>0, <1>1, <1>4, <1>5, <1>7, SamePositions DEF At
<1> QED BY <1>0, <1>6, <1>7, <1>8, LateSerial DEF NoTicketLocked

\* The queue no longer points at the ticket that has left it.
LEMMA ClearSerial ==
  ASSUME OneRequest, TypeOK, NumberInv, SerialInv, NEW p \in Procs, ClearCurrent(p)
  PROVE  SerialInv'
<1> PICK q, t : q = txn[p].q /\ t = txn[p].t
  OBVIOUS
<1>0. At(p, "clear") /\ txn[p] \in Locals /\ UNCHANGED <<ticket, queue, tnew>>
  BY DEF ClearCurrent, TypeOK
<1>1. Lawful /\ PointersOK(p) /\ PositionsOK(p) /\ NoticesOK(p)
  BY <1>0 DEF SerialInv, Late, At, NoTicketLocked
<1>2. /\ t \in Tickets
      /\ \A n \in Queues : ~BusyIn(n, t)
      /\ \A n \in Queues, u \in Tickets \ {t} : Agree(n, u)
      /\ \A n \in Queues : qnew[n].current = t => n = q
  BY <1>0, <1>1 DEF PointersOK, At
<1>3. \A n \in Queues : n \in PointingQueues(p) <=> qnew[n].current = t
  BY <1>2, SerialRows DEF PointingQueues
<1>4. \A n \in Queues, u \in Tickets : Agree(n, u)'
  <2>1. CASE PointingQueues(p) = {} /\ UNCHANGED qnew
    <3>1. \A n \in Queues : qnew'[n].current # t
      BY <1>3, <2>1
    <3> QED BY <1>0, <1>2, <2>1, <3>1 DEF Agree, BusyIn
  <2>2. ASSUME NEW n \in PointingQueues(p), NEW row, WriteQueue(p, n, row),
               row = [qnew[n] EXCEPT !.current = NoTicket]
        PROVE  \A m \in Queues, u \in Tickets : Agree(m, u)'
    <3>1. n \in Queues /\ n = q /\ qnew[n].current = t
      BY <1>2, <1>3 DEF PointingQueues
    <3>2. qnew'[n].current = NoTicket /\ \A m \in Queues \ {n} : qnew'[m] = qnew[m]
      <4>1. row.current = NoTicket
        BY <2>2, <3>1 DEF TypeOK, QueueRow
      <4> QED BY <2>2, <3>1, <4>1 DEF WriteQueue, TypeOK
    <3>3. \A u \in Tickets : u # NoTicket
      BY DEF Tickets, NoTicket
    <3>4. \A u \in Tickets : ~BusyIn(n, u)
      BY <1>2, <3>1 DEF Agree
    <3>5. \A u \in Tickets : Agree(n, u)'
      BY <1>0, <3>2, <3>3, <3>4 DEF Agree, BusyIn
    <3>6. \A m \in Queues \ {n}, u \in Tickets : Agree(m, u)'
      BY <1>0, <1>2, <3>1, <3>2 DEF Agree, BusyIn
    <3> QED BY <3>5, <3>6
  <2> QED BY <2>1, <2>2 DEF ClearCurrent
<1>5. /\ txn'[p].notices = txn[p].notices /\ txn'[p].pc = "before" /\ txn'[p].rq = q
      /\ txn'[p].op = txn[p].op /\ txn'[p].to = txn[p].to
  <2>1. txn'[p] = [txn[p] EXCEPT !.pc = "before", !.rq = q]
    BY ContinueSets DEF ClearCurrent
  <2> QED BY <1>0, <2>1 DEF Locals
<1>6. Stale(p)' = Stale(p)
  BY <1>0, <1>5 DEF Stale, RanksTarget, At
<1>7. PointersOK(p)'
  BY <1>4, <1>5 DEF PointersOK, At
<1>8. (Lawful /\ PositionsOK(p) /\ NoticesOK(p))'
  BY <1>0, <1>1, <1>5, <1>6, SamePositions DEF At
<1> QED BY <1>0, <1>5, <1>7, <1>8, LateSerial DEF NoTicketLocked

\* recomputePositions reads the positions as they were when the request began.
LEMMA ReadPositionsSerial ==
  ASSUME OneRequest, TypeOK, NumberInv, SerialInv, NEW p \in Procs, ReadPositions(p)
  PROVE  SerialInv'
<1> PICK rq, before :
      /\ rq = txn[p].rq
      /\ before = [t \in Tickets |-> IF t \in WaitingIn(p, txn[p].rq)
                                     THEN SeenTicket(p, t).position ELSE 0]
  OBVIOUS
<1>0. At(p, "before") /\ txn[p] \in Locals /\ UNCHANGED <<ticket, queue, tnew, qnew>>
  BY DEF ReadPositions, TypeOK, rows
<1>1. Lawful /\ PointersOK(p) /\ PositionsOK(p) /\ NoticesOK(p)
  BY <1>0 DEF SerialInv, Late, At, NoTicketLocked
<1>2. /\ txn'[p].pc = "rank" /\ txn'[p].rq = rq /\ txn'[p].before = before
      /\ txn'[p].op = txn[p].op /\ txn'[p].to = txn[p].to
      /\ txn'[p].notices = txn[p].notices
  <2>1. txn'[p] = [txn[p] EXCEPT !.pc = "rank", !.before = before]
    BY ContinueSets DEF ReadPositions
  <2> QED BY <1>0, <2>1 DEF Locals
<1>3. Stale(p)' = Stale(p) /\ rq \in Stale(p)
  BY <1>0, <1>2 DEF Stale, RanksTarget, At
<1>4. \A u \in Tickets : before[u] = IF Waits(u, {rq}) THEN Formerly(u) ELSE 0
  <2>1. \A u \in Tickets : Waits(u, {rq}) => tnew[u].position = Formerly(u)
    BY <1>0, <1>1, <1>3 DEF PositionsOK, Waits, At
  <2> QED BY <2>1, SerialRows, SerialWaiting
<1>5. \A u \in Tickets : /\ Waits(u, Stale(p))' <=> Waits(u, Stale(p))
                         /\ Waits(u, {rq})' <=> Waits(u, {rq})
                         /\ Formerly(u)' = Formerly(u)
                         /\ Live(tnew', u) = Live(tnew, u)
                         /\ Gains(u)' <=> Gains(u)
                         /\ \A n \in Queues : Agree(n, u)' <=> Agree(n, u)
  BY <1>0, <1>3 DEF Waits, Formerly, Gains, Agree, BusyIn
<1>6. Lawful'
  BY <1>0, <1>1 DEF Lawful, Same, Takes, Calls, Advances, Moves, InProgress
<1>7. PointersOK(p)'
  BY <1>0, <1>1, <1>2, <1>5 DEF PointersOK, At
<1>8. PositionsOK(p)'
  <2>1. \A u \in Tickets : Waits(u, {txn[p].rq})' <=> Waits(u, {rq})
    BY <1>2, <1>5 DEF Waits
  <2> QED BY <1>0, <1>1, <1>2, <1>4, <1>5, <2>1 DEF PositionsOK, At
<1>9. NoticesOK(p)'
  BY <1>0, <1>1, <1>2, <1>3, <1>5 DEF NoticesOK
<1> QED BY <1>0, <1>2, <1>6, <1>7, <1>8, <1>9, LateSerial DEF NoTicketLocked

\* The ranking is the live positions of the queue.
LEMMA RankSerial ==
  ASSUME OneRequest, TypeOK, NumberInv, SerialInv, NEW p \in Procs, RankWaiting(p)
  PROVE  SerialInv'
<1> PICK rq, ranks :
      /\ rq = txn[p].rq
      /\ ranks = [t \in Tickets |-> IF t \in WaitingIn(p, txn[p].rq)
                                    THEN computeLivePosition(p, t) ELSE 0]
  OBVIOUS
<1>0. At(p, "rank") /\ txn[p] \in Locals /\ UNCHANGED <<ticket, queue, tnew, qnew>>
  BY DEF RankWaiting, TypeOK, rows
<1>1. Lawful /\ PointersOK(p) /\ PositionsOK(p) /\ NoticesOK(p)
  BY <1>0 DEF SerialInv, Late, At, NoTicketLocked
<1>2. /\ txn'[p].pc = "write" /\ txn'[p].rq = rq /\ txn'[p].ranks = ranks
      /\ txn'[p].before = txn[p].before
      /\ txn'[p].op = txn[p].op /\ txn'[p].to = txn[p].to
      /\ txn'[p].notices = txn[p].notices
  <2>1. txn'[p] = [txn[p] EXCEPT !.pc = "write", !.ranks = ranks]
    BY ContinueSets DEF RankWaiting
  <2> QED BY <1>0, <2>1 DEF Locals
<1>3. Stale(p)' = Stale(p) /\ rq \in Stale(p)
  BY <1>0, <1>2 DEF Stale, RanksTarget, At
<1>4. \A u \in Tickets : ranks[u] = IF Waits(u, {rq}) THEN Live(tnew, u) ELSE 0
  <2>1. ASSUME NEW u \in Tickets, Waits(u, {rq})
        PROVE  computeLivePosition(p, u) = Live(tnew, u)
    <3>1. {x \in WaitingIn(p, SeenTicket(p, u).queue) : x < u}
            = {x \in Tickets : /\ tnew[x].status = "WAITING"
                               /\ tnew[x].queue = tnew[u].queue
                               /\ x < u}
      BY SerialRows, SerialWaiting DEF Waits
    <3> QED BY <2>1, <3>1 DEF computeLivePosition, Live, Waits
  <2> QED BY <2>1, SerialWaiting
<1>5. \A u \in Tickets : /\ Waits(u, Stale(p))' <=> Waits(u, Stale(p))
                         /\ Waits(u, {txn[p].rq})' <=> Waits(u, {rq})
                         /\ Formerly(u)' = Formerly(u)
                         /\ Live(tnew', u) = Live(tnew, u)
                         /\ Gains(u)' <=> Gains(u)
                         /\ \A n \in Queues : Agree(n, u)' <=> Agree(n, u)
  BY <1>0, <1>2, <1>3 DEF Waits, Formerly, Gains, Agree, BusyIn
<1>6. Lawful'
  BY <1>0, <1>1 DEF Lawful, Same, Takes, Calls, Advances, Moves, InProgress
<1>7. PointersOK(p)'
  BY <1>0, <1>1, <1>2, <1>5 DEF PointersOK, At
<1>8. PositionsOK(p)'
  <2>1. ASSUME NEW u \in Tickets, Waits(u, {rq})
        PROVE  ranks[u] > 0 /\ ranks[u] = Live(tnew, u)
    BY <1>4, <2>1, LiveType DEF Waits
  <2>2. \A u \in Tickets : tnew[u].status = "WAITING" /\ tnew[u].queue = rq => Waits(u, {rq})
    BY DEF Waits
  <2>3. ASSUME NEW u \in Tickets, Waits(u, Stale(p)), tnew[u].queue = rq
        PROVE  Waits(u, {rq})
    BY <2>2, <2>3 DEF Waits
  <2>4. \A u \in Tickets : ranks[u] > 0 => Waits(u, {rq})
    BY <1>4
  <2>5. \A u \in Tickets : Waits(u, Stale(p))' =>
          IF tnew'[u].queue = rq
          THEN ranks[u] > 0 /\ ranks[u] = Live(tnew', u)
          ELSE tnew'[u].position = Formerly(u)'
    BY <1>0, <1>1, <1>5, <2>1, <2>3 DEF PositionsOK, At
  <2>6. \A u \in Tickets : ~Waits(u, Stale(p))' => tnew'[u].position = Live(tnew', u)
    BY <1>0, <1>1, <1>5 DEF PositionsOK
  <2>7. \A u \in Tickets : txn'[p].before[u] = IF Waits(u, {txn[p].rq})' THEN Formerly(u)' ELSE 0
    BY <1>0, <1>1, <1>2, <1>5 DEF PositionsOK, At
  <2> QED BY <1>2, <1>5, <2>4, <2>5, <2>6, <2>7 DEF PositionsOK, At
<1>9. NoticesOK(p)'
  BY <1>0, <1>1, <1>2, <1>3, <1>5 DEF NoticesOK
<1> QED BY <1>0, <1>2, <1>6, <1>7, <1>8, <1>9, LateSerial DEF NoTicketLocked

\* One more row gets its live position.
LEMMA WriteRankSerial ==
  ASSUME OneRequest, TypeOK, NumberInv, SerialInv, NEW p \in Procs, WriteRank(p)
  PROVE  SerialInv'
<1> PICK rq : rq = txn[p].rq
  OBVIOUS
<1>0. At(p, "write") /\ txn[p] \in Locals /\ UNCHANGED <<ticket, queue, qnew>>
  BY DEF WriteRank, TypeOK
<1>1. Lawful /\ PointersOK(p) /\ PositionsOK(p) /\ NoticesOK(p)
  BY <1>0 DEF SerialInv, Late, At, NoTicketLocked
<1>2. PICK t \in Tickets :
        /\ txn[p].ranks[t] > 0
        /\ WriteTicket(p, t, [tnew[t] EXCEPT !.position = txn[p].ranks[t]])
        /\ Continue(p, [txn[p] EXCEPT !.ranks[t] = 0])
  BY DEF WriteRank
<1>3. /\ tnew'[t].status = tnew[t].status /\ tnew'[t].queue = tnew[t].queue
      /\ tnew'[t].user = tnew[t].user
      /\ tnew'[t].position = txn[p].ranks[t]
      /\ \A u \in Tickets \ {t} : tnew'[u] = tnew[u]
  <2>1. tnew[t] \in TicketRow
    BY DEF TypeOK
  <2>2. tnew' = [tnew EXCEPT ![t] = [tnew[t] EXCEPT !.position = txn[p].ranks[t]]]
    BY <1>2 DEF WriteTicket
  <2> QED BY <2>1, <2>2 DEF TypeOK, TicketRow
<1>4. /\ txn'[p].pc = "write" /\ txn'[p].rq = rq /\ txn'[p].before = txn[p].before
      /\ txn'[p].op = txn[p].op /\ txn'[p].to = txn[p].to
      /\ txn'[p].notices = txn[p].notices
      /\ txn'[p].ranks = [txn[p].ranks EXCEPT ![t] = 0]
  <2>1. txn'[p] = [txn[p] EXCEPT !.ranks[t] = 0]
    BY <1>2, ContinueSets
  <2> QED BY <1>0, <2>1 DEF Locals, At
<1>5. txn'[p].ranks[t] = 0 /\ \A u \in Tickets \ {t} : txn'[p].ranks[u] = txn[p].ranks[u]
  BY <1>0, <1>4 DEF Locals
<1>6. Stale(p)' = Stale(p) /\ rq \in Stale(p)
  BY <1>0, <1>4 DEF Stale, RanksTarget, At
<1>7. \A u \in Tickets : tnew'[u].status = tnew[u].status /\ tnew'[u].queue = tnew[u].queue
                         /\ tnew'[u].user = tnew[u].user
  BY <1>3
<1>8. \A u \in Tickets : Live(tnew', u) = Live(tnew, u)
  BY <1>7, LiveSame
<1>9. \A u \in Tickets : /\ Waits(u, Stale(p))' <=> Waits(u, Stale(p))
                         /\ Waits(u, {txn[p].rq})' <=> Waits(u, {rq})
                         /\ Formerly(u)' = Formerly(u)
                         /\ \A n \in Queues : Agree(n, u)' <=> Agree(n, u)
  BY <1>0, <1>4, <1>6, <1>7 DEF Waits, Formerly, Agree, BusyIn
<1>10. Waits(t, {rq}) /\ Waits(t, Stale(p)) /\ tnew[t].queue = rq
  BY <1>0, <1>1, <1>2, <1>6 DEF PositionsOK, Waits, At
<1>11. tnew'[t].position = Live(tnew, t)
  BY <1>0, <1>1, <1>2, <1>3, <1>10 DEF PositionsOK, At
<1>12. Lawful'
  BY <1>0, <1>1, <1>7 DEF Lawful, Same, Takes, Calls, Advances, Moves, InProgress
<1>13. PointersOK(p)'
  BY <1>0, <1>1, <1>4, <1>9 DEF PointersOK, At
<1>14. PositionsOK(p)'
  <2>1. ASSUME NEW u \in Tickets, ~Waits(u, Stale(p))'
        PROVE  tnew'[u].position = Live(tnew', u)
    BY <1>1, <1>3, <1>8, <1>9, <1>10, <2>1 DEF PositionsOK
  <2>2. ASSUME NEW u \in Tickets, Waits(u, Stale(p))'
        PROVE  IF tnew'[u].queue = rq
               THEN IF txn'[p].ranks[u] > 0 THEN txn'[p].ranks[u] = Live(tnew', u)
                                            ELSE tnew'[u].position = Live(tnew', u)
               ELSE tnew'[u].position = Formerly(u)'
    <3>1. CASE u = t
      BY <1>5, <1>8, <1>10, <1>3, <1>11, <3>1
    <3>2. CASE u # t
      BY <1>0, <1>1, <1>3, <1>5, <1>8, <1>9, <2>2, <3>2 DEF PositionsOK, At
    <3> QED BY <3>1, <3>2
  <2>3. \A u \in Tickets : txn'[p].ranks[u] > 0 => Waits(u, {txn[p].rq})'
    <3>1. \A u \in Tickets : txn[p].ranks[u] > 0 => Waits(u, {rq})
      BY <1>0, <1>1 DEF PositionsOK, At
    <3> QED BY <1>5, <1>9, <3>1
  <2>4. \A u \in Tickets : txn'[p].before[u] = IF Waits(u, {txn[p].rq})' THEN Formerly(u)' ELSE 0
    BY <1>0, <1>1, <1>4, <1>9 DEF PositionsOK, At
  <2> QED BY <1>4, <2>1, <2>2, <2>3, <2>4 DEF PositionsOK, At
<1>15. NoticesOK(p)'
  <2>1. ASSUME NEW u \in Tickets
        PROVE  <<u, "POSITION_CHANGED">> \in txn'[p].notices
                 <=> Gains(u)' /\ ticket'[u].user # Guest /\ tnew'[u].queue \notin Stale(p)'
    <3>1. CASE u = t
      BY <1>0, <1>1, <1>3, <1>4, <1>6, <1>10, <3>1 DEF NoticesOK
    <3>2. CASE u # t
      BY <1>0, <1>1, <1>3, <1>4, <1>6, <3>2 DEF NoticesOK, Gains
    <3> QED BY <3>1, <3>2
  <2> QED BY <2>1 DEF NoticesOK
<1> QED BY <1>0, <1>4, <1>12, <1>13, <1>14, <1>15, LateSerial DEF NoTicketLocked

\* Who is promoted is who gained in the queue just ranked.
LEMMA PromotedGain ==
  ASSUME OneRequest, TypeOK, NumberInv, NEW p \in Procs, At(p, "write"), PositionsOK(p),
         \A t \in Tickets : txn[p].ranks[t] = 0, NEW t \in Tickets
  PROVE  t \in Promoted(p) <=> Gains(t) /\ tnew[t].queue = txn[p].rq
<1> PICK rq : rq = txn[p].rq
  OBVIOUS
<1>1. rq \in Stale(p)
  BY DEF Stale, At
<1>2. t \in Promoted(p) <=> /\ Waits(t, {rq}) /\ txn[p].before[t] > 0 /\ tnew[t].position > 0
                            /\ tnew[t].position < txn[p].before[t]
  BY SerialRows, SerialWaiting DEF Promoted
<1>3. txn[p].before[t] = IF Waits(t, {rq}) THEN Formerly(t) ELSE 0
  BY DEF PositionsOK, At
<1>4. Waits(t, {rq}) => tnew[t].position > 0
  <2>1. Waits(t, {rq}) => Waits(t, Stale(p)) /\ tnew[t].queue = rq /\ tnew[t].status = "WAITING"
    BY <1>1 DEF Waits
  <2>2. Waits(t, {rq}) => tnew[t].position = Live(tnew, t)
    BY <2>1 DEF PositionsOK, At
  <2> QED BY <2>1, <2>2, LiveType
<1>5. tnew[t].position \in Nat /\ ticket[t].position \in Nat
  BY DEF TypeOK, TicketRow
<1>6. Gains(t) /\ tnew[t].queue = rq
        <=> Waits(t, {rq}) /\ tnew[t].position < ticket[t].position
            /\ ticket[t].status = "WAITING" /\ ticket[t].queue = tnew[t].queue
  BY DEF Gains, Waits
<1> QED BY <1>2, <1>3, <1>4, <1>5, <1>6 DEF Formerly

\* The queue ranked is in order, and those who gained in it are told.
LEMMA NotifySerial ==
  ASSUME OneRequest, TypeOK, NumberInv, SerialInv, NEW p \in Procs, NotifyPromoted(p)
  PROVE  SerialInv'
<1> PICK rq, told :
      /\ rq = txn[p].rq
      /\ told = txn[p].notices \cup UNION {Notice(t, SeenTicket(p, t).user, "POSITION_CHANGED")
                                             : t \in Promoted(p)}
  OBVIOUS
<1>0. At(p, "write") /\ txn[p] \in Locals /\ UNCHANGED <<ticket, queue, tnew, qnew>>
      /\ \A t \in Tickets : txn[p].ranks[t] = 0
  BY DEF NotifyPromoted, TypeOK, rows
<1>1. Lawful /\ PointersOK(p) /\ PositionsOK(p) /\ NoticesOK(p)
  BY <1>0 DEF SerialInv, Late, At, NoTicketLocked
<1>2. /\ txn'[p].notices = told
      /\ txn'[p].op = txn[p].op /\ txn'[p].to = txn[p].to
      /\ RanksTarget(p) => txn'[p].pc = "before" /\ txn'[p].rq = txn[p].to
      /\ ~RanksTarget(p) => txn'[p].pc = "commit"
  <2>1. txn'[p] = [txn[p] EXCEPT
          !.pc = IF RanksTarget(p) THEN "before" ELSE "commit",
          !.rq = IF RanksTarget(p) THEN txn[p].to ELSE NoQueue,
          !.before = [t \in Tickets |-> 0],
          !.notices = told]
    BY ContinueSets DEF NotifyPromoted
  <2> QED BY <1>0, <2>1 DEF Locals
<1>3. Stale(p)' = Stale(p) \ {rq} /\ rq \in Stale(p)
  <2>1. CASE RanksTarget(p)
    <3>1. Stale(p) = {rq, txn[p].to} /\ rq # txn[p].to
      BY <1>0, <2>1 DEF Stale, RanksTarget, At
    <3>2. Stale(p)' = {txn[p].to}
      BY <1>2, <2>1 DEF Stale, RanksTarget, At
    <3> QED BY <3>1, <3>2
  <2>2. CASE ~RanksTarget(p)
    <3>1. Stale(p) = {rq}
      BY <1>0, <2>2 DEF Stale, At
    <3>2. Stale(p)' = {}
      BY <1>2, <2>2 DEF Stale, At
    <3> QED BY <3>1, <3>2
  <2> QED BY <2>1, <2>2
<1>4. txn'[p].pc \in {"before", "commit"}
  BY <1>2
<1>5. \A u \in Tickets : /\ Formerly(u)' = Formerly(u)
                         /\ Live(tnew', u) = Live(tnew, u)
                         /\ Gains(u)' <=> Gains(u)
                         /\ \A n \in Queues : Agree(n, u)' <=> Agree(n, u)
  BY <1>0 DEF Formerly, Gains, Agree, BusyIn
<1>6. Lawful'
  BY <1>0, <1>1 DEF Lawful, Same, Takes, Calls, Advances, Moves, InProgress
<1>7. PointersOK(p)'
  BY <1>0, <1>1, <1>4, <1>5 DEF PointersOK, At
<1>8. PositionsOK(p)'
  <2>1. ASSUME NEW u \in Tickets, Waits(u, Stale(p))'
        PROVE  tnew'[u].position = Formerly(u)'
    <3>1. Waits(u, Stale(p)) /\ tnew[u].queue # rq
      BY <1>0, <1>3, <2>1 DEF Waits
    <3> QED BY <1>0, <1>1, <1>5, <3>1 DEF PositionsOK
  <2>2. ASSUME NEW u \in Tickets, ~Waits(u, Stale(p))'
        PROVE  tnew'[u].position = Live(tnew', u)
    <3>1. CASE ~Waits(u, Stale(p))
      BY <1>0, <1>1, <1>5, <3>1 DEF PositionsOK
    <3>2. CASE Waits(u, Stale(p))
      <4>1. tnew[u].queue = rq
        BY <1>0, <1>3, <2>2, <3>2 DEF Waits
      <4>2. ~(txn[p].ranks[u] > 0)
        BY <1>0
      <4> QED BY <1>0, <1>1, <1>5, <3>2, <4>1, <4>2 DEF PositionsOK
    <3> QED BY <3>1, <3>2
  <2> QED BY <1>4, <2>1, <2>2 DEF PositionsOK, At
<1>9. NoticesOK(p)'
  <2>1. ASSUME NEW u \in Tickets
        PROVE  <<u, "POSITION_CHANGED">> \in told
                 <=> \/ <<u, "POSITION_CHANGED">> \in txn[p].notices
                     \/ u \in Promoted(p) /\ tnew[u].user # Guest
    <3>1. \A t \in Promoted(p) : t \in Tickets
      BY DEF Promoted, WaitingIn
    <3>2. <<u, "POSITION_CHANGED">> \in told
            <=> \/ <<u, "POSITION_CHANGED">> \in txn[p].notices
                \/ \E t \in Promoted(p) :
                     <<u, "POSITION_CHANGED">> \in Notice(t, SeenTicket(p, t).user, "POSITION_CHANGED")
      OBVIOUS
    <3>3. \A t \in Promoted(p) :
            <<u, "POSITION_CHANGED">> \in Notice(t, SeenTicket(p, t).user, "POSITION_CHANGED")
              <=> tnew[t].user # Guest /\ u = t
      BY <3>1, SerialRows DEF Notice
    <3> QED BY <3>2, <3>3
  <2>2. ASSUME NEW u \in Tickets
        PROVE  u \in Promoted(p) /\ tnew[u].user # Guest
                 <=> Gains(u) /\ ticket[u].user # Guest /\ tnew[u].queue = rq
    <3>1. u \in Promoted(p) <=> Gains(u) /\ tnew[u].queue = rq
      BY <1>0, <1>1, PromotedGain
    <3>2. Gains(u) => tnew[u].user = ticket[u].user
      BY <1>1 DEF Gains, Lawful
    <3> QED BY <3>1, <3>2
  <2>3. \A u \in Tickets : tnew[u].queue \in Stale(p) =>
          (tnew[u].queue \notin Stale(p)' <=> tnew[u].queue = rq)
    BY <1>3
  <2>4. \A u \in Tickets : tnew[u].queue = rq => tnew[u].queue \in Stale(p)
    BY <1>3
  <2>5. \A u \in Tickets : <<u, "POSITION_CHANGED">> \in told
           <=> Gains(u) /\ ticket[u].user # Guest /\ tnew[u].queue \notin Stale(p)'
    BY <1>1, <1>3, <2>1, <2>2, <2>3, <2>4 DEF NoticesOK
  <2> QED BY <1>0, <1>2, <1>5, <2>5 DEF NoticesOK
<1> QED BY <1>0, <1>4, <1>6, <1>7, <1>8, <1>9, LateSerial DEF NoTicketLocked

-----------------------------------------------------------------------------
\* The invariant holds throughout.

\* Nobody waits, and no queue points at a ticket, before the first request.
LEMMA SerialInit == Init => SerialInv
<1> SUFFICES ASSUME Init PROVE SerialInv
  OBVIOUS
<1>1. \A t \in Tickets : ticket[t].status = "NONE" /\ ticket[t].position = 0
  BY DEF Init, NoRow
<1>2. \A q \in Queues : qnew[q].current = queue[q].current /\ queue[q].current \notin Tickets
  <2>1. \A q \in Queues : qnew[q] = queue[q] /\ queue[q].current = NoTicket
    BY DEF Init
  <2>2. NoTicket \notin Tickets
    BY ConstantsOK DEF NoTicket, Tickets
  <2> QED BY <2>1, <2>2
<1>3. CurrentIsInProgress
  BY <1>1, <1>2 DEF CurrentIsInProgress, InProgress, IN_PROGRESS_STATUSES
<1>4. CachedPositions
  BY <1>1 DEF CachedPositions
<1>5. \A p \in Procs : At(p, "idle")
  BY DEF Init, Idle, At
<1> QED BY <1>2, <1>3, <1>4, <1>5 DEF SerialInv, Early, Late, DecidedOK, At, NoTicketLocked

\* Every step of a request that runs alone takes it where its label says.
LEMMA SerialNext ==
  ASSUME OneRequest
  PROVE  TypeOK /\ NumberInv /\ SerialInv /\ [Next]_vars => SerialInv'
<1> SUFFICES ASSUME TypeOK, NumberInv, SerialInv, [Next]_vars
             PROVE  SerialInv'
  OBVIOUS
<1>1. ASSUME NEW p \in Procs, Statement(p)
      PROVE  SerialInv'
  BY <1>1, InsertSerial, PickSerial, UpdateSerial, LockTargetSerial, MoveSerial, ClearSerial,
     PointSerial, ReadPositionsSerial, RankSerial, WriteRankSerial, NotifySerial, StatusSerial
     DEF Statement
<1>2. CASE UNCHANGED vars
  <2>1. CurrentIsInProgress' /\ CachedPositions'
    BY <1>2 DEF vars, SerialInv, CurrentIsInProgress, CachedPositions, InProgress
  <2>2. ASSUME NEW p \in Procs
        PROVE  (Early(p) /\ Late(p))'
    <3>1. Early(p)'
      BY <1>2 DEF vars, SerialInv, Early, DecidedOK, At, InProgress
    <3>2. Stale(p)' = Stale(p) /\ (Lawful <=> Lawful') /\ (PointersOK(p) <=> PointersOK(p)')
      BY <1>2 DEF vars, Stale, At, RanksTarget, Lawful, Same, Takes, Calls, Advances, Moves,
                  InProgress, PointersOK, Agree, BusyIn
    <3>3. (PositionsOK(p) <=> PositionsOK(p)') /\ (NoticesOK(p) <=> NoticesOK(p)')
      BY <1>2, <3>2 DEF vars, PositionsOK, NoticesOK, Gains, Waits, Formerly, Live, At
    <3> QED BY <1>2, <3>1, <3>2, <3>3 DEF vars, SerialInv, Late
  <2> QED BY <2>1, <2>2 DEF SerialInv
<1> QED BY <1>1, <1>2, RequestSerial, CommitSerial, AbortSerial, UpdateRowSerial DEF Next

\* While requests do not overlap, none leaves the path of its labels.
LEMMA SerialCorrect == OneRequest => (Spec => []SerialInv)
<1> SUFFICES ASSUME OneRequest PROVE Spec => []SerialInv
  OBVIOUS
<1>1. TypeOK /\ NumberInv /\ SerialInv /\ [Next]_vars => SerialInv'
  BY SerialNext
<1> QED BY <1>1, SerialInit, TypeCorrect, NumbersInOrder, PTL DEF Spec

\* Between requests that do not overlap, a queue's pointer names the ticket at
\* its counter and nothing else, over any sequence of operations.
THEOREM PointerIsInProgress == OneRequest => (Spec => []CurrentIsInProgress)
<1>1. SerialInv => CurrentIsInProgress
  BY DEF SerialInv
<1> QED BY <1>1, SerialCorrect, PTL

\* The position every ticket has cached is the number of tickets up to it in its
\* queue, so whoever reads `position` sees what recomputePositions would write.
THEOREM PositionsCached == OneRequest => (Spec => []CachedPositions)
<1>1. SerialInv => CachedPositions
  BY DEF SerialInv
<1> QED BY <1>1, SerialCorrect, PTL

-----------------------------------------------------------------------------
\* What a commit publishes.

\* The rows a transaction that runs alone commits are the newest ones.
LEMMA CommitPublishes ==
  ASSUME OneRequest, TypeOK, NumberInv, SerialInv, NEW p \in Procs, Commit(p)
  PROVE  /\ ticket' = tnew
         /\ Lawful
         /\ NoticesOK(p) /\ Stale(p) = {} /\ sent' = txn[p].notices
<1>1. At(p, "commit") /\ sent' = txn[p].notices
      /\ ticket' = [t \in Tickets |-> IF tlock[t] = p THEN tnew[t] ELSE ticket[t]]
  BY DEF Commit
<1>2. \A t \in Tickets : ticket'[t] = tnew[t]
  BY <1>1, SerialRows
<1>3. ticket' = tnew
  BY <1>1, <1>2 DEF TypeOK
<1>4. Lawful /\ NoticesOK(p) /\ Stale(p) = {}
  BY <1>1 DEF SerialInv, Late, At, NoTicketLocked, Stale
<1> QED BY <1>1, <1>3, <1>4

\* Nothing but a commit sends a notice.
LEMMA OnlyCommitsSend ==
  ASSUME Next, ~\E p \in Procs : Commit(p)
  PROVE  sent' = {}
<1>1. ASSUME NEW p \in Procs, Request(p)
      PROVE  sent' = {}
  BY <1>1 DEF Request, JoinQueue, CallNext, StartServing, CompleteService, MarkNoShow,
              CancelTicket, LeaveQueue, RecallTicket, ReadForTransition, ReadTicket,
              ReadForTransfer, SetQueueStatus, Continue
<1>2. ASSUME NEW p \in Procs, Statement(p)
      PROVE  sent' = {}
  BY <1>2 DEF Statement, InsertTicket, PickNext, UpdateTicket, LockTarget, MoveTicket,
              ClearCurrent, PointAt, ReadPositions, RankWaiting, WriteRank, NotifyPromoted,
              WriteStatus, Continue
<1> QED BY <1>1, <1>2 DEF Next, Abort, UpdateQueue, SetQueueKioskMode, UpdateRow

\* Every customer whose turn comes nearer is told by the transaction that brings
\* it nearer, and nobody else is: no waiting customer misses a move, however many
\* positions one operation changes in one queue or, for a transfer, in two.
THEOREM PositionNoticesSent == OneRequest => (Spec => PositionNoticesExact)
<1> SUFFICES ASSUME OneRequest PROVE Spec => PositionNoticesExact
  OBVIOUS
<1>1. TypeOK /\ NumberInv /\ SerialInv /\ [Next]_vars =>
        [\A t \in Tickets : <<t, "POSITION_CHANGED">> \in sent'
                              <=> Improves(t) /\ ticket[t].user # Guest]_vars
  <2> SUFFICES ASSUME TypeOK, NumberInv, SerialInv, Next, NEW t \in Tickets
               PROVE  <<t, "POSITION_CHANGED">> \in sent'
                        <=> Improves(t) /\ ticket[t].user # Guest
    OBVIOUS
  <2>1. CASE \E p \in Procs : Commit(p)
    <3>1. PICK p \in Procs : Commit(p)
      BY <2>1
    <3>2. Improves(t) <=> Gains(t)
      BY <3>1, CommitPublishes DEF Improves, Gains
    <3> QED BY <3>1, <3>2, CommitPublishes DEF NoticesOK
  <2>2. CASE ~\E p \in Procs : Commit(p)
    <3>1. sent' = {} /\ ticket' = ticket
      BY <2>2, OnlyCommitsSend, OnlyCommitsChange
    <3>2. ticket[t].position \in Nat
      BY DEF TypeOK, TicketRow
    <3> QED BY <3>1, <3>2 DEF Improves
  <2> QED BY <2>1, <2>2
<1>2. Spec => []SerialInv
  BY SerialCorrect
<1> QED BY <1>1, <1>2, TypeCorrect, NumbersInOrder, PTL DEF Spec, PositionNoticesExact

-----------------------------------------------------------------------------
\* The engine implements the ticket life cycle.

\* What the life cycle sees of the tickets.
Statuses == [t \in Tickets |-> ticket[t].status]
Places == [t \in Tickets |-> ticket[t].queue]

\* The engine and the life cycle read the same tables.
LEMMA SameTables ==
  /\ Lifecycle!TicketStatus = TicketStatus
  /\ Lifecycle!ACTIVE_TICKET_STATUSES = ACTIVE_TICKET_STATUSES
  /\ Lifecycle!IN_PROGRESS_STATUSES = IN_PROGRESS_STATUSES
  /\ \A from, to : Lifecycle!canTransitionTicket(from, to) <=> canTransitionTicket(from, to)
BY DEF TicketStatus, ACTIVE_TICKET_STATUSES, TERMINAL_TICKET_STATUSES, IN_PROGRESS_STATUSES,
       canTransitionTicket, TICKET_TRANSITIONS, Lifecycle!TicketStatus,
       Lifecycle!ACTIVE_TICKET_STATUSES, Lifecycle!TERMINAL_TICKET_STATUSES,
       Lifecycle!IN_PROGRESS_STATUSES, Lifecycle!canTransitionTicket, Lifecycle!TICKET_TRANSITIONS

\* A lawful change of the tickets is one action of the life cycle, or none.
LEMMA LawfulRefines ==
  ASSUME TypeOK, Lawful, ticket' = tnew
  PROVE  [Lifecycle!Next]_<<Statuses, Places>>
<1>1. CASE \A t \in Tickets : Same(t)
  BY <1>1 DEF Same, Statuses, Places
<1>2. ASSUME NEW t \in Tickets, \A u \in Tickets \ {t} : Same(u)
      PROVE  /\ Statuses' = [Statuses EXCEPT ![t] = tnew[t].status]
             /\ Places' = [Places EXCEPT ![t] = tnew[t].queue]
             /\ tnew[t].queue = ticket[t].queue => Places' = Places
  BY <1>2 DEF Same, Statuses, Places
<1>3. ASSUME NEW t \in Tickets, \A u \in Tickets \ {t} : Same(u), Takes(t)
      PROVE  Lifecycle!Next
  <2>1. PICK q \in Queues : tnew[t].queue = q
    BY <1>3 DEF Takes
  <2>2. Lifecycle!Take(t, q)
    BY <1>2, <1>3, <2>1 DEF Takes, Lifecycle!Take, Statuses, Places
  <2> QED BY <2>2 DEF Lifecycle!Next
<1>4. ASSUME NEW t \in Tickets, \A u \in Tickets \ {t} : Same(u), Calls(t)
      PROVE  Lifecycle!Next
  <2>1. PICK q \in Queues : ticket[t].queue = q
    BY <1>4 DEF Calls
  <2>2. /\ Statuses' = [Statuses EXCEPT ![t] = "CALLED"]
        /\ Places' = Places
    BY <1>2, <1>4 DEF Calls
  <2>3. Lifecycle!In(q, IN_PROGRESS_STATUSES) = {}
    BY <1>4, <2>1 DEF Calls, InProgress, Lifecycle!In
  <2>4. t \in Lifecycle!In(q, {"WAITING"}) /\ \A u \in Lifecycle!In(q, {"WAITING"}) : t <= u
    BY <1>4, <2>1 DEF Calls, Lifecycle!In
  <2>5. Lifecycle!Call(q)
    BY <2>2, <2>3, <2>4, SameTables DEF Lifecycle!Call, Statuses, Places
  <2> QED BY <2>5 DEF Lifecycle!Next
<1>5. ASSUME NEW t \in Tickets, \A u \in Tickets \ {t} : Same(u), Advances(t)
      PROVE  Lifecycle!Next
  <2>1. PICK s \in TicketStatus : tnew[t].status = s
    BY <1>5 DEF Advances
  <2>2. /\ Statuses' = [Statuses EXCEPT ![t] = s]
        /\ Places' = Places
    BY <1>2, <1>5, <2>1 DEF Advances
  <2>3. Lifecycle!Advance(t, s)
    <3>1. s # "CALLED" /\ canTransitionTicket(Statuses[t], s)
      BY <1>5, <2>1 DEF Advances, Statuses
    <3> QED BY <2>2, <3>1, SameTables DEF Lifecycle!Advance, Statuses, Places
  <2> QED BY <2>3, SameTables DEF Lifecycle!Next
<1>6. ASSUME NEW t \in Tickets, \A u \in Tickets \ {t} : Same(u), Moves(t)
      PROVE  Lifecycle!Next
  <2>1. PICK q \in Queues : tnew[t].queue = q
    BY <1>6 DEF Moves
  <2>2. /\ Statuses' = [Statuses EXCEPT ![t] = "WAITING"]
        /\ Places' = [Places EXCEPT ![t] = q]
    BY <1>2, <1>6, <2>1 DEF Moves
  <2>3. Lifecycle!Transfer(t, q)
    <3>1. Statuses[t] \in ACTIVE_TICKET_STATUSES /\ q # Places[t]
      BY <1>6, <2>1 DEF Moves, Statuses, Places
    <3> QED BY <2>2, <3>1, SameTables DEF Lifecycle!Transfer, Statuses, Places
  <2> QED BY <2>3 DEF Lifecycle!Next
<1> QED BY <1>1, <1>3, <1>4, <1>5, <1>6 DEF Lawful

\* While requests do not overlap, every behaviour of the engine is one of the
\* ticket life cycle: the statements of an operation are invisible, and its
\* commit takes, calls the longest waiting, advances or transfers one ticket.
THEOREM LifecycleImplemented == OneRequest => (Spec => ImplementsLifecycle)
<1> SUFFICES ASSUME OneRequest PROVE Spec => ImplementsLifecycle
  OBVIOUS
<1>1. Init => Lifecycle!Init
  BY DEF Init, NoRow, Lifecycle!Init
<1>2. TypeOK /\ NumberInv /\ SerialInv /\ [Next]_vars => [Lifecycle!Next]_<<Statuses, Places>>
  <2> SUFFICES ASSUME TypeOK, NumberInv, SerialInv, [Next]_vars
               PROVE  [Lifecycle!Next]_<<Statuses, Places>>
    OBVIOUS
  <2>1. CASE \E p \in Procs : Commit(p)
    BY <2>1, CommitPublishes, LawfulRefines
  <2>2. CASE ~\E p \in Procs : Commit(p)
    <3>1. ticket' = ticket
      BY <2>2, OnlyCommitsChange
    <3> QED BY <3>1 DEF Statuses, Places
  <2> QED BY <2>1, <2>2
<1>3. TypeOK /\ NumberInv /\ SerialInv /\ [Next]_vars =>
        [Lifecycle!Next]_<<[t \in Tickets |-> ticket[t].status], [t \in Tickets |-> ticket[t].queue]>>
  BY <1>2 DEF Statuses, Places
<1>4. Spec => []SerialInv
  BY SerialCorrect
<1> QED BY <1>1, <1>3, <1>4, TypeCorrect, NumbersInOrder, PTL
        DEF Spec, ImplementsLifecycle, Lifecycle!Spec
=============================================================================
