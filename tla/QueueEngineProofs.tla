------------------------- MODULE QueueEngineProofs -------------------------
(***************************************************************************)
(* Theorems of QueueEngine for any number of queues, customers, tickets    *)
(* and requests in flight, whatever transactions overlap: types; numbers,  *)
(* which are never shared; and who is in a queue and who is called.        *)
(***************************************************************************)
EXTENDS QueueEngine, FiniteSetTheorems, TLAPS

\* computeLivePosition and the count of a join are natural numbers.
LEMMA FiniteCount ==
  ASSUME NEW S \in SUBSET Tickets
  PROVE  IsFiniteSet(S) /\ Cardinality(S) \in Nat
<1>1. IsFiniteSet(Tickets)
  BY ConstantsOK, FS_Interval DEF Tickets
<1>2. IsFiniteSet(S)
  BY <1>1, FS_Subset
<1> QED BY <1>2, FS_CardinalityType

\* The position computeLivePosition gives is a natural number.
LEMMA LivePositionType ==
  ASSUME NEW p, NEW t
  PROVE  computeLivePosition(p, t) \in Nat
<1> DEFINE ahead == {x \in WaitingIn(p, SeenTicket(p, t).queue) : x < t}
<1>1. ahead \in SUBSET Tickets
  BY DEF WaitingIn
<1>2. Cardinality(ahead) \in Nat
  BY <1>1, FiniteCount
<1> QED BY <1>2 DEF computeLivePosition

\* The locals of an idle request have their type.
LEMMA IdleType == Idle \in Locals
  BY ConstantsOK DEF Idle, Locals, Operations, Labels, NoTicket, QueueStatus, NoticeSet

\* What createNotification writes is a set of notices.
LEMMA NoticeType_ ==
  ASSUME NEW t \in Nat, NEW u, NEW type \in NoticeTypes
  PROVE  Notice(t, u, type) \in NoticeSet
  BY DEF Notice, NoticeSet

\* The initial states are typed.
LEMMA TypeInit == Init => TypeOK
<1> SUFFICES ASSUME Init PROVE TypeOK
  OBVIOUS
<1>1. NoRow \in TicketRow
  BY DEF NoRow, TicketRow
<1>2. \A p \in Procs : txn[p] = Idle
  BY DEF Init
<1>3. queue \in [Queues -> QueueRow]
  <2> DEFINE Fresh == [status: QueueStatus, seq: {0}, current: {NoTicket}, kiosk: {FALSE}]
  <2>1. \A r \in Fresh : r \in QueueRow
    <3> SUFFICES ASSUME NEW r \in Fresh PROVE r \in QueueRow
      OBVIOUS
    <3>1. r = [status |-> r.status, seq |-> r.seq, current |-> r.current, kiosk |-> r.kiosk]
      OBVIOUS
    <3>2. r.status \in QueueStatus /\ r.seq \in Nat /\ r.current \in Nat
      BY DEF NoTicket
    <3>3. r.kiosk \in BOOLEAN
      BY Zenon
    <3> QED BY <3>1, <3>2, <3>3 DEF QueueRow
  <2>2. queue \in [Queues -> Fresh]
    BY DEF Init
  <2> HIDE DEF Fresh
  <2> QED BY <2>1, <2>2
<1> QED BY <1>1, <1>2, <1>3, IdleType DEF Init, TypeOK, At, Idle, Locals

-----------------------------------------------------------------------------
\* What the building blocks of a step do to the types.

TxnTypeOK == /\ txn \in [Procs -> Locals]
             /\ \A p \in Procs : /\ At(p, "insert") => txn[p].q \in Queues
                                 /\ txn[p].pc \in {"target", "move"} =>
                                      txn[p].to \in Queues /\ txn[p].t \in Tickets
             /\ sent \in NoticeSet

\* A step of p that gives it locals of the type keeps the requests typed.
LEMMA ContinueType ==
  ASSUME TypeOK, NEW p \in Procs, NEW r \in Locals, Continue(p, r),
         r.pc = "insert" => r.q \in Queues,
         r.pc \in {"target", "move"} => r.to \in Queues /\ r.t \in Tickets
  PROVE  TxnTypeOK'
  BY DEF TypeOK, TxnTypeOK, Continue, At, NoticeSet

\* Writing a typed row keeps the ticket versions and their locks typed.
LEMMA WriteTicketType ==
  ASSUME TypeOK, NEW p \in Procs, NEW t, NEW row, WriteTicket(p, t, row),
         t \in Tickets => row \in TicketRow
  PROVE  /\ tlock' \in [Tickets -> Procs \cup {NoProc}]
         /\ tnew' \in [Tickets -> TicketRow]
  BY DEF TypeOK, WriteTicket

\* Writing a typed row keeps the queue versions and their locks typed.
LEMMA WriteQueueType ==
  ASSUME TypeOK, NEW p \in Procs, NEW q, NEW row, WriteQueue(p, q, row),
         q \in Queues => row \in QueueRow
  PROVE  /\ qlock' \in [Queues -> Procs \cup {NoProc}]
         /\ qnew' \in [Queues -> QueueRow]
  BY DEF TypeOK, WriteQueue

\* A new status leaves a ticket row a ticket row: this and the next five lemmas
\* are the updates a step makes of a row.
LEMMA TicketRowStatus ==
  ASSUME NEW r \in TicketRow, NEW s \in TicketStatus
  PROVE  [r EXCEPT !.status = s] \in TicketRow
  BY DEF TicketRow

\* A new position leaves a ticket row a ticket row.
LEMMA TicketRowPosition ==
  ASSUME NEW r \in TicketRow, NEW n \in Nat
  PROVE  [r EXCEPT !.position = n] \in TicketRow
  BY DEF TicketRow

\* A new status with the position cleared leaves a ticket row a ticket row.
LEMMA TicketRowLeaves ==
  ASSUME NEW r \in TicketRow, NEW s \in TicketStatus
  PROVE  [r EXCEPT !.status = s, !.position = 0] \in TicketRow
  BY DEF TicketRow

\* A new current ticket leaves a queue row a queue row.
LEMMA QueueRowCurrent ==
  ASSUME NEW r \in QueueRow, NEW n \in Nat
  PROVE  [r EXCEPT !.current = n] \in QueueRow
  BY DEF QueueRow

\* A new status leaves a queue row a queue row.
LEMMA QueueRowStatus ==
  ASSUME NEW r \in QueueRow, NEW s \in QueueStatus
  PROVE  [r EXCEPT !.status = s] \in QueueRow
  BY DEF QueueRow

\* A new kiosk mode leaves a queue row a queue row.
LEMMA QueueRowKiosk ==
  ASSUME NEW r \in QueueRow, NEW b \in BOOLEAN
  PROVE  [r EXCEPT !.kiosk = b] \in QueueRow
  BY DEF QueueRow

\* A new label leaves locals typed: this lemma and those named Locals<What> below
\* are the updates a step makes of the locals of a request.
LEMMA LocalsPc ==
  ASSUME NEW r \in Locals, NEW l \in Labels
  PROVE  [r EXCEPT !.pc = l] \in Locals
  BY DEF Locals

\* Turning to recomputePositions.
LEMMA LocalsRank ==
  ASSUME NEW r \in Locals, NEW l \in Labels, NEW q \in Queues \cup {NoQueue}
  PROVE  [r EXCEPT !.pc = l, !.rq = q] \in Locals
  BY DEF Locals

\* Going on with the notices to commit.
LEMMA LocalsNotices ==
  ASSUME NEW r \in Locals, NEW l \in Labels, NEW n \in NoticeSet
  PROVE  [r EXCEPT !.pc = l, !.notices = n] \in Locals
  BY DEF Locals

\* Going on with the ticket picked or inserted.
LEMMA LocalsPicked ==
  ASSUME NEW r \in Locals, NEW l \in Labels, NEW t \in Nat, NEW n \in NoticeSet
  PROVE  [r EXCEPT !.pc = l, !.t = t, !.notices = n] \in Locals
  BY DEF Locals

\* The locals callNext starts with.
LEMMA LocalsCall ==
  ASSUME NEW r \in Locals, NEW op \in Operations, NEW l \in Labels,
         NEW q \in Queues \cup {NoQueue}
  PROVE  [r EXCEPT !.op = op, !.pc = l, !.q = q] \in Locals
  BY DEF Locals

\* The locals a join starts with.
LEMMA LocalsJoin ==
  ASSUME NEW r \in Locals, NEW op \in Operations, NEW l \in Labels,
         NEW q \in Queues \cup {NoQueue}, NEW u \in Users \cup {Guest}
  PROVE  [r EXCEPT !.op = op, !.pc = l, !.q = q, !.user = u] \in Locals
  BY DEF Locals

\* The locals of an operation on one ticket.
LEMMA LocalsRead ==
  ASSUME NEW r \in Locals, NEW op \in Operations, NEW l \in Labels, NEW t \in Nat,
         NEW q \in Queues \cup {NoQueue}, NEW u \in Users \cup {Guest}
  PROVE  [r EXCEPT !.op = op, !.pc = l, !.t = t, !.q = q, !.user = u] \in Locals
  BY DEF Locals

\* The locals a transfer starts with.
LEMMA LocalsTransfer ==
  ASSUME NEW r \in Locals, NEW op \in Operations, NEW l \in Labels, NEW t \in Nat,
         NEW q \in Queues \cup {NoQueue}, NEW u \in Users \cup {Guest},
         NEW to \in Queues \cup {NoQueue}
  PROVE  [r EXCEPT !.op = op, !.pc = l, !.t = t, !.q = q, !.user = u, !.to = to] \in Locals
  BY DEF Locals

\* The locals setQueueStatus starts with.
LEMMA LocalsStatus ==
  ASSUME NEW r \in Locals, NEW op \in Operations, NEW l \in Labels,
         NEW q \in Queues \cup {NoQueue}, NEW s \in QueueStatus, NEW w \in QueueStatus
  PROVE  [r EXCEPT !.op = op, !.pc = l, !.q = q, !.seen = s, !.want = w] \in Locals
  BY DEF Locals

\* The positions, and then the ranking, recomputePositions has read.
LEMMA LocalsBefore ==
  ASSUME NEW r \in Locals, NEW l \in Labels, NEW b \in [Tickets -> Nat]
  PROVE  /\ [r EXCEPT !.pc = l, !.before = b] \in Locals
         /\ [r EXCEPT !.pc = l, !.ranks = b] \in Locals
  BY DEF Locals

\* One ranked row less to write.
LEMMA LocalsWritten ==
  ASSUME NEW r \in Locals, NEW t
  PROVE  [r EXCEPT !.ranks[t] = 0] \in Locals
<1>1. r.ranks \in [Tickets -> Nat]
  BY DEF Locals
<1>2. [r.ranks EXCEPT ![t] = 0] \in [Tickets -> Nat]
  BY <1>1
<1> QED BY <1>2 DEF Locals

\* The end of a ranking.
LEMMA LocalsNotify ==
  ASSUME NEW r \in Locals, NEW l \in Labels, NEW q \in Queues \cup {NoQueue},
         NEW b \in [Tickets -> Nat], NEW n \in NoticeSet
  PROVE  [r EXCEPT !.pc = l, !.rq = q, !.before = b, !.notices = n] \in Locals
  BY DEF Locals

\* The type of each local.
LEMMA LocalsFields ==
  ASSUME NEW r \in Locals
  PROVE  /\ r.t \in Nat
         /\ r.q \in Queues \cup {NoQueue}
         /\ r.to \in Queues \cup {NoQueue}
         /\ r.user \in Users \cup {Guest}
         /\ r.seen \in QueueStatus
         /\ r.want \in QueueStatus
         /\ r.ranks \in [Tickets -> Nat]
         /\ r.notices \in NoticeSet
  BY DEF Locals

\* Taking the next number of a queue.
LEMMA QueueRowSeq ==
  ASSUME NEW r \in QueueRow
  PROVE  [r EXCEPT !.seq = @ + 1] \in QueueRow
  BY DEF QueueRow

\* A transferred ticket row is a ticket row.
LEMMA MovedRowType ==
  ASSUME NEW r \in TicketRow, NEW to \in Queues, NEW n \in Nat
  PROVE  [r EXCEPT !.queue = to, !.number = n, !.status = "WAITING", !.position = 0] \in TicketRow
  BY DEF TicketRow, TicketStatus, ACTIVE_TICKET_STATUSES

\* Commit keeps every type: it moves newest versions to committed rows.
LEMMA CommitType ==
  ASSUME TypeOK, NEW p \in Procs, Commit(p)
  PROVE  TypeOK'
<1>1. TxnTypeOK'
  BY IdleType DEF TypeOK, TxnTypeOK, Commit, At, Idle, Locals
<1>2. /\ ticket' \in [Tickets -> TicketRow]
      /\ queue' \in [Queues -> QueueRow]
      /\ tlock' \in [Tickets -> Procs \cup {NoProc}]
      /\ qlock' \in [Queues -> Procs \cup {NoProc}]
      /\ UNCHANGED <<tnew, qnew>>
  BY DEF TypeOK, Commit
<1> QED BY <1>1, <1>2 DEF TypeOK, TxnTypeOK

\* Abort keeps every type: it puts committed rows back as newest versions.
LEMMA AbortType ==
  ASSUME TypeOK, NEW p \in Procs, Abort(p)
  PROVE  TypeOK'
<1>1. TxnTypeOK'
  BY IdleType DEF TypeOK, TxnTypeOK, Abort, At, Idle, Locals
<1>2. /\ tnew' \in [Tickets -> TicketRow]
      /\ qnew' \in [Queues -> QueueRow]
      /\ tlock' \in [Tickets -> Procs \cup {NoProc}]
      /\ qlock' \in [Queues -> Procs \cup {NoProc}]
      /\ UNCHANGED <<ticket, queue>>
  BY DEF TypeOK, Abort
<1> QED BY <1>1, <1>2 DEF TypeOK, TxnTypeOK

-----------------------------------------------------------------------------
-----------------------------------------------------------------------------
\* Every step keeps every type.
LEMMA TypeNext == TypeOK /\ [Next]_vars => TypeOK'
<1> SUFFICES ASSUME TypeOK, [Next]_vars PROVE TypeOK'
  OBVIOUS
<1> USE DEF TypeOK, TxnTypeOK
<1>1. ASSUME NEW p \in Procs, NEW u \in Users \cup {Guest}, NEW q \in Queues,
             JoinQueue(p, u, q)
      PROVE  TypeOK'
  <2>1. [queue[q] EXCEPT !.seq = @ + 1] \in QueueRow
    BY QueueRowSeq
  <2>2. [Idle EXCEPT !.op = "joinQueue", !.pc = "insert", !.q = q, !.user = u] \in Locals
    BY IdleType, LocalsJoin DEF Operations, Labels
  <2>3. TxnTypeOK'
    BY <1>1, <2>2, ContinueType DEF JoinQueue, Idle
  <2> QED BY <1>1, <2>1, <2>3, WriteQueueType DEF JoinQueue
<1>2. ASSUME NEW p \in Procs, NEW q \in Queues, CallNext(p, q)
      PROVE  TypeOK'
  <2>1. [Idle EXCEPT !.op = "callNext", !.pc = "pick", !.q = q] \in Locals
    BY IdleType, LocalsCall DEF Operations, Labels
  <2>2. TxnTypeOK'
    BY <1>2, <2>1, ContinueType DEF CallNext, Idle
  <2> QED BY <1>2, <2>2, WriteQueueType DEF CallNext
<1>3. ASSUME NEW p \in Procs, NEW op \in Operations, NEW t \in Tickets, ReadTicket(p, op, t)
      PROVE  TypeOK'
  <2>1. [Idle EXCEPT !.op = op, !.pc = "update", !.t = t, !.q = ticket[t].queue,
                     !.user = ticket[t].user] \in Locals
    <3>1. ticket[t].queue \in Queues \cup {NoQueue} /\ ticket[t].user \in Users \cup {Guest}
      BY DEF TicketRow
    <3>2. t \in Nat
      BY ConstantsOK DEF Tickets
    <3> HIDE DEF TypeOK
    <3> QED BY <3>1, <3>2, IdleType, LocalsRead DEF Labels
  <2>2. TxnTypeOK'
    BY <1>3, <2>1, ContinueType DEF ReadTicket, Idle
  <2> QED BY <1>3, <2>2 DEF ReadTicket, rows
<1>4. ASSUME NEW p \in Procs, NEW t \in Tickets, NEW to \in Queues, ReadForTransfer(p, t, to)
      PROVE  TypeOK'
  <2>1. [Idle EXCEPT !.op = "transferTicket", !.pc = "target", !.t = t,
                     !.q = ticket[t].queue, !.user = ticket[t].user, !.to = to] \in Locals
    <3>1. ticket[t].queue \in Queues \cup {NoQueue} /\ ticket[t].user \in Users \cup {Guest}
      BY DEF TicketRow
    <3>2. t \in Nat /\ to \in Queues \cup {NoQueue}
      BY ConstantsOK DEF Tickets
    <3>3. "transferTicket" \in Operations /\ "target" \in Labels
      BY DEF Operations, Labels
    <3> HIDE DEF TypeOK
    <3> QED BY <3>1, <3>2, <3>3, IdleType, LocalsTransfer
  <2>2. TxnTypeOK'
    BY <1>4, <2>1, ContinueType DEF ReadForTransfer, Idle
  <2> QED BY <1>4, <2>2 DEF ReadForTransfer, rows
<1>5. ASSUME NEW p \in Procs, NEW q \in Queues, NEW s \in QueueStatus, SetQueueStatus(p, q, s)
      PROVE  TypeOK'
  <2>1. [Idle EXCEPT !.op = "setQueueStatus", !.pc = "status", !.q = q,
                     !.seen = queue[q].status, !.want = s] \in Locals
    <3>1. queue[q].status \in QueueStatus
      BY DEF QueueRow
    <3> HIDE DEF TypeOK
    <3> QED BY <3>1, IdleType, LocalsStatus DEF Labels, Operations
  <2>2. TxnTypeOK'
    BY <1>5, <2>1, ContinueType DEF SetQueueStatus, Idle
  <2> QED BY <1>5, <2>2 DEF SetQueueStatus, rows
<1>6. ASSUME NEW p \in Procs, InsertTicket(p)
      PROVE  TypeOK'
  <2>1. PICK t \in Tickets :
          /\ WriteTicket(p, t,
               [status |-> "WAITING", queue |-> txn[p].q, user |-> txn[p].user,
                number |-> qnew[txn[p].q].seq,
                position |-> Cardinality(WaitingIn(p, txn[p].q)) + 1])
          /\ Continue(p, [txn[p] EXCEPT !.pc = "commit", !.t = t,
                            !.notices = Notice(t, txn[p].user, "QUEUE_JOINED")])
    BY <1>6 DEF InsertTicket
  <2>2. txn[p] \in Locals /\ txn[p].q \in Queues
    BY <1>6 DEF InsertTicket, At
  <2>3. Cardinality(WaitingIn(p, txn[p].q)) + 1 \in Nat
    BY FiniteCount DEF WaitingIn
  <2>4. [status |-> "WAITING", queue |-> txn[p].q, user |-> txn[p].user,
         number |-> qnew[txn[p].q].seq,
         position |-> Cardinality(WaitingIn(p, txn[p].q)) + 1] \in TicketRow
    BY <2>2, <2>3 DEF TicketRow, Locals, QueueRow, TicketStatus, ACTIVE_TICKET_STATUSES
  <2>5. Notice(t, txn[p].user, "QUEUE_JOINED") \in NoticeSet
    BY ConstantsOK, NoticeType_ DEF Tickets, NoticeTypes
  <2>6. [txn[p] EXCEPT !.pc = "commit", !.t = t,
           !.notices = Notice(t, txn[p].user, "QUEUE_JOINED")] \in Locals
    <3>1. t \in Nat
      BY ConstantsOK DEF Tickets
    <3> HIDE DEF TypeOK
    <3> QED BY <3>1, <2>2, <2>5, LocalsPicked DEF Labels
  <2>7. TxnTypeOK'
    BY <2>1, <2>2, <2>6, ContinueType DEF Locals
  <2> QED BY <1>6, <2>1, <2>4, <2>7, WriteTicketType DEF InsertTicket
<1>7. ASSUME NEW p \in Procs, PickNext(p)
      PROVE  TypeOK'
  <2>1. PICK t \in Tickets :
          /\ WriteTicket(p, t, [tnew[t] EXCEPT !.status = "CALLED", !.position = 0])
          /\ Continue(p, [txn[p] EXCEPT !.pc = "point", !.t = t,
                            !.notices = Notice(t, tnew[t].user, "CUSTOMER_CALLED")])
    BY <1>7 DEF PickNext, NextInLine, Callable
  <2>2. [tnew[t] EXCEPT !.status = "CALLED", !.position = 0] \in TicketRow
    BY TicketRowLeaves DEF TicketStatus, ACTIVE_TICKET_STATUSES
  <2>3. Notice(t, tnew[t].user, "CUSTOMER_CALLED") \in NoticeSet
    BY ConstantsOK, NoticeType_ DEF Tickets, NoticeTypes
  <2>4. [txn[p] EXCEPT !.pc = "point", !.t = t,
           !.notices = Notice(t, tnew[t].user, "CUSTOMER_CALLED")] \in Locals
    <3>1. t \in Nat /\ txn[p] \in Locals
      BY ConstantsOK DEF Tickets
    <3> HIDE DEF TypeOK
    <3> QED BY <3>1, <2>3, LocalsPicked DEF Labels
  <2>5. TxnTypeOK'
    BY <2>1, <2>4, ContinueType DEF Locals
  <2> QED BY <1>7, <2>1, <2>2, <2>5, WriteTicketType DEF PickNext
<1>8. ASSUME NEW p \in Procs, UpdateTicket(p)
      PROVE  TypeOK'
  <2> DEFINE op == txn[p].op
             t == txn[p].t
             label == CASE op = "startServing" -> "point"
                        [] op = "recallTicket" -> "commit"
                        [] OTHER -> "clear"
             locals == [txn[p] EXCEPT !.pc = label,
                          !.notices = Notice(t, txn[p].user, NoticeType[op])]
  <2>1. /\ op \in DOMAIN NoticeType
        /\ WriteTicket(p, t, UpdatedRow(op, tnew[t]))
        /\ Continue(p, locals)
    BY <1>8 DEF UpdateTicket
  <2>2. t \in Tickets => UpdatedRow(op, tnew[t]) \in TicketRow
    <3> SUFFICES ASSUME t \in Tickets PROVE UpdatedRow(op, tnew[t]) \in TicketRow
      OBVIOUS
    <3>1. tnew[t] \in TicketRow
      OBVIOUS
    <3>2. op # "recallTicket" => Target[op] \in TicketStatus
      BY <2>1 DEF NoticeType, Target, TicketStatus, ACTIVE_TICKET_STATUSES,
                  TERMINAL_TICKET_STATUSES
    <3> HIDE DEF op, t
    <3> QED BY <2>1, <3>1, <3>2, TicketRowStatus, TicketRowLeaves DEF UpdatedRow, NoticeType
  <2>3. NoticeType[op] \in NoticeTypes /\ t \in Nat
    BY <2>1 DEF NoticeType, NoticeTypes, Locals
  <2>4. Notice(t, txn[p].user, NoticeType[op]) \in NoticeSet
    BY <2>3, NoticeType_
  <2>5. label \in {"point", "commit", "clear"}
    OBVIOUS
  <2>6. locals \in Locals /\ locals.pc = label
    <3> HIDE DEF label
    <3>1. locals \in Locals
      BY <2>4, <2>5, LocalsNotices DEF Labels
    <3>2. locals.pc = label
      BY DEF Locals
    <3> QED BY <3>1, <3>2
  <2>7. TxnTypeOK'
    <3> HIDE DEF label, locals
    <3> QED BY <2>1, <2>5, <2>6, ContinueType
  <2> QED BY <1>8, <2>1, <2>2, <2>7, WriteTicketType DEF UpdateTicket
<1>9. ASSUME NEW p \in Procs, LockTarget(p)
      PROVE  TypeOK'
  <2> DEFINE to == txn[p].to
  <2>1. to \in Queues /\ txn[p].t \in Tickets
    BY <1>9 DEF LockTarget, At
  <2>2. [queue[to] EXCEPT !.seq = @ + 1] \in QueueRow
    BY <2>1, QueueRowSeq
  <2>3. [txn[p] EXCEPT !.pc = "move"] \in Locals
    BY LocalsPc DEF Labels
  <2>4. TxnTypeOK'
    BY <1>9, <2>1, <2>3, ContinueType DEF LockTarget, Locals
  <2> QED BY <1>9, <2>2, <2>4, WriteQueueType DEF LockTarget
<1>10. ASSUME NEW p \in Procs, MoveTicket(p)
       PROVE  TypeOK'
  <2> DEFINE t == txn[p].t
  <2>1. txn[p].to \in Queues /\ t \in Nat
    BY <1>10 DEF MoveTicket, At, Locals
  <2>2. t \in Tickets => MovedRow(tnew[t], txn[p].to) \in TicketRow
    <3>1. qnew[txn[p].to].seq \in Nat
      BY <2>1 DEF QueueRow
    <3> QED BY <2>1, <3>1, MovedRowType DEF MovedRow
  <2>3. Notice(t, txn[p].user, "QUEUE_JOINED") \in NoticeSet
    BY <2>1, NoticeType_ DEF NoticeTypes
  <2>4. [txn[p] EXCEPT !.pc = "clear",
           !.notices = Notice(t, txn[p].user, "QUEUE_JOINED")] \in Locals
    BY <2>3, LocalsNotices DEF Labels
  <2>5. TxnTypeOK'
    BY <1>10, <2>4, ContinueType DEF MoveTicket, Locals
  <2> QED BY <1>10, <2>2, <2>5, WriteTicketType DEF MoveTicket
<1>11. ASSUME NEW p \in Procs, ClearCurrent(p)
       PROVE  TypeOK'
  <2>1. [txn[p] EXCEPT !.pc = "before", !.rq = txn[p].q] \in Locals
    BY LocalsRank, LocalsFields DEF Labels
  <2>2. TxnTypeOK'
    BY <1>11, <2>1, ContinueType DEF ClearCurrent, Locals
  <2>3. /\ qlock' \in [Queues -> Procs \cup {NoProc}]
        /\ qnew' \in [Queues -> QueueRow]
    <3>1. CASE UNCHANGED <<qlock, qnew>>
      BY <3>1
    <3>2. ASSUME NEW q \in Queues, WriteQueue(p, q, [qnew[q] EXCEPT !.current = NoTicket])
          PROVE  <2>3!1 /\ <2>3!2
      <4>1. [qnew[q] EXCEPT !.current = NoTicket] \in QueueRow
        BY QueueRowCurrent DEF NoTicket
      <4> QED BY <3>2, <4>1, WriteQueueType
    <3> QED BY <1>11, <3>1, <3>2 DEF ClearCurrent, PointingQueues
  <2> QED BY <1>11, <2>2, <2>3 DEF ClearCurrent
<1>12. ASSUME NEW p \in Procs, PointAt(p)
       PROVE  TypeOK'
  <2> DEFINE q == txn[p].q
             locals == IF txn[p].op = "callNext"
                       THEN [txn[p] EXCEPT !.pc = "before", !.rq = q]
                       ELSE [txn[p] EXCEPT !.pc = "commit"]
  <2>1. q \in Queues => [qnew[q] EXCEPT !.current = txn[p].t] \in QueueRow
    BY QueueRowCurrent, LocalsFields
  <2>2. locals \in Locals /\ locals.pc \in {"before", "commit"}
    <3>1. locals \in Locals
      BY LocalsRank, LocalsPc, LocalsFields DEF Labels
    <3> QED BY <3>1 DEF Locals
  <2>3. TxnTypeOK'
    <3>1. Continue(p, locals)
      BY <1>12 DEF PointAt
    <3> HIDE DEF locals
    <3> QED BY <3>1, <2>2, ContinueType
  <2> QED BY <1>12, <2>1, <2>3, WriteQueueType DEF PointAt
<1>13. ASSUME NEW p \in Procs, ReadPositions(p) \/ RankWaiting(p)
       PROVE  TypeOK'
  <2> DEFINE waiting == WaitingIn(p, txn[p].rq)
             before == [t \in Tickets |-> IF t \in waiting THEN SeenTicket(p, t).position ELSE 0]
             ranks == [t \in Tickets |-> IF t \in waiting THEN computeLivePosition(p, t) ELSE 0]
  <2>1. before \in [Tickets -> Nat]
    BY DEF SeenTicket, TicketRow
  <2>2. ranks \in [Tickets -> Nat]
    BY LivePositionType
  <2>3. \/ Continue(p, [txn[p] EXCEPT !.pc = "rank", !.before = before])
        \/ Continue(p, [txn[p] EXCEPT !.pc = "write", !.ranks = ranks])
    BY <1>13 DEF ReadPositions, RankWaiting
  <2> HIDE DEF before, ranks
  <2>4. /\ [txn[p] EXCEPT !.pc = "rank", !.before = before] \in Locals
        /\ [txn[p] EXCEPT !.pc = "write", !.ranks = ranks] \in Locals
    BY <2>1, <2>2, LocalsBefore DEF Labels
  <2>5. TxnTypeOK'
    BY <2>3, <2>4, ContinueType DEF Locals
  <2> QED BY <1>13, <2>5 DEF ReadPositions, RankWaiting, rows
<1>14. ASSUME NEW p \in Procs, WriteRank(p)
       PROVE  TypeOK'
  <2>1. PICK t \in Tickets :
          /\ WriteTicket(p, t, [tnew[t] EXCEPT !.position = txn[p].ranks[t]])
          /\ Continue(p, [txn[p] EXCEPT !.ranks[t] = 0])
    BY <1>14 DEF WriteRank
  <2>2. txn[p].ranks[t] \in Nat
    BY DEF Locals
  <2>3. [tnew[t] EXCEPT !.position = txn[p].ranks[t]] \in TicketRow
    BY <2>2, TicketRowPosition
  <2>4. [txn[p] EXCEPT !.ranks[t] = 0] \in Locals
    BY LocalsWritten
  <2>5. TxnTypeOK'
    BY <1>14, <2>1, <2>4, ContinueType DEF Locals, WriteRank, At
  <2> QED BY <1>14, <2>1, <2>3, <2>5, WriteTicketType DEF WriteRank
<1>15. ASSUME NEW p \in Procs, NotifyPromoted(p)
       PROVE  TypeOK'
  <2> DEFINE told == UNION {Notice(t, SeenTicket(p, t).user, "POSITION_CHANGED") : t \in Promoted(p)}
             label == IF RanksTarget(p) THEN "before" ELSE "commit"
             next == IF RanksTarget(p) THEN txn[p].to ELSE NoQueue
  <2>1. told \in NoticeSet
    <3>1. \A t \in Promoted(p) : t \in Nat
      BY ConstantsOK DEF Promoted, WaitingIn, Tickets
    <3>2. \A t \in Promoted(p) :
            Notice(t, SeenTicket(p, t).user, "POSITION_CHANGED") \in NoticeSet
      BY <3>1, NoticeType_ DEF NoticeTypes
    <3> QED BY <3>2 DEF NoticeSet
  <2>2. label \in {"before", "commit"} /\ next \in Queues \cup {NoQueue}
    BY DEF Locals
  <2>3. Continue(p, [txn[p] EXCEPT !.pc = label, !.rq = next,
                       !.before = [t \in Tickets |-> 0], !.notices = @ \cup told])
    BY <1>15 DEF NotifyPromoted
  <2> HIDE DEF told, label, next
  <2>4. [txn[p] EXCEPT !.pc = label, !.rq = next,
           !.before = [t \in Tickets |-> 0], !.notices = @ \cup told] \in Locals
    <3>1. [t \in Tickets |-> 0] \in [Tickets -> Nat] /\ txn[p].notices \cup told \in NoticeSet
      BY <2>1, LocalsFields DEF NoticeSet
    <3> QED BY <3>1, <2>2, LocalsNotify DEF Labels
  <2>5. TxnTypeOK'
    BY <2>2, <2>3, <2>4, ContinueType DEF Locals
  <2> QED BY <1>15, <2>5 DEF NotifyPromoted, rows
<1>16. ASSUME NEW p \in Procs, WriteStatus(p)
       PROVE  TypeOK'
  <2> DEFINE q == txn[p].q
  <2>1. q \in Queues => [qnew[q] EXCEPT !.status = txn[p].want] \in QueueRow
    BY QueueRowStatus, LocalsFields
  <2>2. StatusNotices(p) \in NoticeSet
    <3>1. \A t \in WaitingIn(p, q) : t \in Nat
      BY ConstantsOK DEF WaitingIn, Tickets
    <3>2. \A t \in WaitingIn(p, q) :
            Notice(t, SeenTicket(p, t).user, "QUEUE_STATUS_CHANGED") \in NoticeSet
      BY <3>1, NoticeType_ DEF NoticeTypes
    <3> QED BY <3>2 DEF StatusNotices, NoticeSet
  <2>3. [txn[p] EXCEPT !.pc = "commit", !.notices = StatusNotices(p)] \in Locals
    BY <2>2, LocalsNotices DEF Labels
  <2>4. TxnTypeOK'
    BY <1>16, <2>3, ContinueType DEF WriteStatus, Locals
  <2> QED BY <1>16, <2>1, <2>4, WriteQueueType DEF WriteStatus
<1>17. ASSUME NEW q \in Queues, NEW s \in QueueStatus, UpdateQueue(q, s)
       PROVE  TypeOK'
  <2>1. [queue[q] EXCEPT !.status = s] \in QueueRow
    BY QueueRowStatus
  <2> QED BY <1>17, <2>1 DEF UpdateQueue, UpdateRow, At, NoticeSet
<1>18. ASSUME NEW q \in Queues, NEW b \in BOOLEAN, SetQueueKioskMode(q, b)
       PROVE  TypeOK'
  <2>1. [queue[q] EXCEPT !.kiosk = b] \in QueueRow
    BY QueueRowKiosk
  <2> QED BY <1>18, <2>1 DEF SetQueueKioskMode, UpdateRow, At, NoticeSet
<1>19. CASE UNCHANGED vars
  BY <1>19 DEF vars, At
<1>20. ASSUME NEW p \in Procs, Request(p)
       PROVE  TypeOK'
  BY <1>1, <1>2, <1>3, <1>4, <1>5, <1>20
     DEF Request, StartServing, CompleteService, MarkNoShow, CancelTicket, LeaveQueue,
         RecallTicket, ReadForTransition, Operations
<1>21. ASSUME NEW p \in Procs, Statement(p)
       PROVE  TypeOK'
  BY <1>6, <1>7, <1>8, <1>9, <1>10, <1>11, <1>12, <1>13, <1>14, <1>15, <1>16, <1>21
     DEF Statement
<1> HIDE DEF TypeOK
<1> QED BY <1>17, <1>18, <1>19, <1>20, <1>21, CommitType, AbortType DEF Next

\* Every row, lock and local variable keeps its type, and a request that is
\* about to number a ticket always has a real queue to number it in.
THEOREM TypeCorrect == Spec => []TypeOK
<1> QED BY TypeInit, TypeNext, PTL DEF Spec

-----------------------------------------------------------------------------
(***************************************************************************)
(* Ticket numbers: no queue gives a number twice, and the engine           *)
(* implements TicketDispenser.  The argument is the inductive invariant    *)
(* NumberInv.                                                              *)
(***************************************************************************)

\* A step of p that renumbers nothing: it may lock rows and write their other
\* columns, and it moves p on without passing a numbering label.
QuietStep(p) ==
  /\ ticket' = ticket
  /\ queue' = queue
  /\ \A t \in Tickets : /\ tnew'[t].queue = tnew[t].queue
                        /\ tnew'[t].number = tnew[t].number
                        /\ \/ tlock'[t] = tlock[t]
                           \/ tlock[t] = NoProc /\ tlock'[t] = p
                        /\ tlock'[t] = NoProc => tnew'[t] = tnew[t]
  /\ \A q \in Queues : /\ qnew'[q].seq = qnew[q].seq
                       /\ \/ qlock'[q] = qlock[q]
                          \/ qlock[q] = NoProc /\ qlock'[q] = p
                       /\ qlock'[q] = NoProc => qnew'[q] = qnew[q]
  /\ \A x \in Procs \ {p} : txn'[x] = txn[x]
  /\ txn[p].pc \notin {"insert", "move"}
  /\ txn'[p].pc \notin {"insert", "move"}
  /\ \/ txn'[p].t = txn[p].t
     \/ txn[p].pc \in NoTicketLocked
  /\ txn'[p].pc \in NoTicketLocked => /\ txn[p].pc \in NoTicketLocked
                                      /\ tlock' = tlock
  /\ txn'[p].pc \in NoQueueLocked => /\ txn[p].pc \in NoQueueLocked
                                     /\ qlock' = qlock

\* A quiet step keeps every number, issued or about to be, as it was.
LEMMA QuietPreserves ==
  ASSUME TypeOK, NumberInv, NEW p \in Procs, QuietStep(p)
  PROVE  NumberInv'
<1> DEFINE early == txn[p].pc \in NoTicketLocked
<1>1. \A t \in Tickets : Renumbered(t)' <=> Renumbered(t)
  BY DEF QuietStep, Renumbered
<1>2. \A x \in Procs, q \in Queues : TookNumber(x, q) => TookNumber(x, q)'
  BY ConstantsOK DEF QuietStep, TookNumber
<1>3. \A x \in Procs, q \in Queues : HoldsSlip(x, q) => HoldsSlip(x, q)'
  <2> SUFFICES ASSUME NEW x \in Procs, NEW q \in Queues, HoldsSlip(x, q)
               PROVE  HoldsSlip(x, q)'
    OBVIOUS
  <2>1. txn[x].t \in Tickets /\ tlock[txn[x].t] = x
    BY DEF HoldsSlip
  <2>2. txn'[x].t = txn[x].t
    BY <2>1 DEF QuietStep, NumberInv
  <2>3. tlock'[txn[x].t] = x
    BY <2>1, ConstantsOK DEF QuietStep
  <2> QED BY <2>1, <2>2, <2>3 DEF HoldsSlip, QuietStep
<1>4. \A t \in Tickets : tlock'[t] = NoProc => tnew'[t] = ticket'[t]
  BY DEF NumberInv, QuietStep
<1>5. \A q \in Queues : qlock'[q] = NoProc => qnew'[q] = queue'[q]
  BY DEF NumberInv, QuietStep
<1>6. /\ \A t \in Tickets : Issued(t)' => ticket'[t].number \in 1..queue'[ticket'[t].queue].seq
      /\ UniqueNumbers'
  BY DEF NumberInv, QuietStep, Issued, UniqueNumbers
<1>7. ASSUME NEW t \in Tickets, Renumbered(t)'
      PROVE  /\ tlock'[t] \in Procs
             /\ txn'[tlock'[t]].t = t
             /\ TookNumber(tlock[t], tnew[t].queue)'
             /\ HoldsSlip(tlock[t], tnew[t].queue)'
  <2>1. PICK x \in Procs, q \in Queues :
          /\ x = tlock[t] /\ q = tnew[t].queue /\ txn[x].t = t
          /\ TookNumber(x, q) /\ HoldsSlip(x, q)
    BY <1>1, <1>7 DEF NumberInv, TookNumber
  <2>3. tlock'[t] = x /\ tnew'[t].queue = q
    BY <2>1, ConstantsOK DEF QuietStep
  <2>4. TookNumber(x, q)' /\ HoldsSlip(x, q)'
    BY <1>2, <1>3, <2>1
  <2>5. txn'[x].t = t
    BY <2>4, <2>1 DEF HoldsSlip, QuietStep, NumberInv
  <2> QED BY <2>1, <2>3, <2>4, <2>5 DEF TookNumber, HoldsSlip
<1>8. ASSUME NEW q \in Queues, qnew'[q].seq # queue'[q].seq
      PROVE  /\ qlock'[q] \in Procs
             /\ TookNumber(qlock[q], q)'
             /\ IF txn'[qlock'[q]].pc \in {"insert", "move"}
                THEN q = NumberingQueue(qlock[q])'
                ELSE HoldsSlip(qlock[q], q)'
  <2>1. PICK x \in Procs :
          /\ x = qlock[q]
          /\ TookNumber(x, q)
          /\ IF txn[x].pc \in {"insert", "move"}
             THEN q = NumberingQueue(x) ELSE HoldsSlip(x, q)
    BY <1>8 DEF NumberInv, QuietStep
  <2>2. qlock'[q] = x
    BY <2>1, ConstantsOK DEF QuietStep
  <2>3. TookNumber(x, q)'
    BY <1>2, <2>1
  <2>4. CASE x = p
    <3>1. HoldsSlip(x, q)'
      BY <2>1, <2>4, <1>3 DEF QuietStep
    <3> QED BY <3>1, <2>1, <2>2, <2>3, <2>4 DEF QuietStep, TookNumber, HoldsSlip
  <2>5. CASE x # p
    <3>1. txn'[x] = txn[x]
      BY <2>1, <2>5 DEF QuietStep
    <3> QED BY <3>1, <2>1, <2>2, <2>3, <1>3
            DEF NumberingQueue, At, TookNumber, HoldsSlip
  <2> QED BY <2>4, <2>5
<1>9. ASSUME NEW x \in Procs
      PROVE  /\ txn'[x].pc \in {"insert", "move"} => TookNumber(x, NumberingQueue(x))'
             /\ txn'[x].pc \in NoTicketLocked => \A t \in Tickets : tlock'[t] # x
             /\ txn'[x].pc \in NoQueueLocked => \A q \in Queues : qlock'[q] # x
  <2>1. CASE x = p
    BY <2>1 DEF QuietStep, NumberInv
  <2>2. CASE x # p
    <3>1. txn'[x] = txn[x]
      BY <2>2 DEF QuietStep
    <3>2. txn'[x].pc \in {"insert", "move"} => TookNumber(x, NumberingQueue(x))'
      <4> SUFFICES ASSUME txn'[x].pc \in {"insert", "move"}
                   PROVE  TookNumber(x, NumberingQueue(x))'
        OBVIOUS
      <4>1. TookNumber(x, NumberingQueue(x)) /\ NumberingQueue(x)' = NumberingQueue(x)
        BY <3>1 DEF NumberInv, NumberingQueue, At
      <4>2. NumberingQueue(x) \in Queues
        BY <4>1 DEF TookNumber
      <4> QED BY <4>1, <4>2, <1>2 DEF TookNumber, QuietStep
    <3>3. /\ txn'[x].pc \in NoTicketLocked => \A t \in Tickets : tlock'[t] # x
          /\ txn'[x].pc \in NoQueueLocked => \A q \in Queues : qlock'[q] # x
      BY <2>2, <3>1, ConstantsOK DEF QuietStep, NumberInv
    <3> QED BY <3>2, <3>3
  <2> QED BY <2>1, <2>2
<1> QED BY <1>4, <1>5, <1>6, <1>7, <1>8, <1>9 DEF NumberInv

-----------------------------------------------------------------------------
\* Which steps are quiet.

\* What a quiet step may do to the rows of a table.
QuietTickets(p) ==
  \A t \in Tickets : /\ tnew'[t].queue = tnew[t].queue
                     /\ tnew'[t].number = tnew[t].number
                     /\ \/ tlock'[t] = tlock[t]
                        \/ tlock[t] = NoProc /\ tlock'[t] = p
                     /\ tlock'[t] = NoProc => tnew'[t] = tnew[t]

QuietQueues(p) ==
  \A q \in Queues : /\ qnew'[q].seq = qnew[q].seq
                    /\ \/ qlock'[q] = qlock[q]
                       \/ qlock[q] = NoProc /\ qlock'[q] = p
                    /\ qlock'[q] = NoProc => qnew'[q] = qnew[q]

\* Writing a ticket row without touching its queue and number is quiet.
LEMMA QuietWriteTicket ==
  ASSUME TypeOK, NEW p \in Procs, NEW t \in Tickets, NEW row,
         row.queue = tnew[t].queue, row.number = tnew[t].number,
         WriteTicket(p, t, row)
  PROVE  QuietTickets(p)
<1> QED BY ConstantsOK DEF QuietTickets, WriteTicket, TypeOK

\* Writing a queue row without touching its sequence is quiet.
LEMMA QuietWriteQueue ==
  ASSUME TypeOK, NEW p \in Procs, NEW q \in Queues, NEW row,
         row.seq = qnew[q].seq, WriteQueue(p, q, row)
  PROVE  QuietQueues(p)
<1> QED BY ConstantsOK DEF QuietQueues, WriteQueue, QueueRowFree, TypeOK

\* An update of a ticket row that is not a transfer keeps queue and number.
LEMMA QuietUpdate ==
  ASSUME NEW row \in TicketRow, NEW op \in DOMAIN NoticeType
  PROVE  /\ UpdatedRow(op, row).queue = row.queue
         /\ UpdatedRow(op, row).number = row.number
<1>1. op \in {"recallTicket", "startServing", "completeService", "markNoShow",
              "cancelTicket", "leaveQueue"}
  BY DEF NoticeType
<1> QED BY <1>1 DEF UpdatedRow, TicketRow

\* Every request but a join or a transfer's move starts with a quiet step.
LEMMA RequestQuiet ==
  ASSUME TypeOK, NumberInv, NEW p \in Procs, At(p, "idle"),
         \/ \E q \in Queues : CallNext(p, q)
         \/ \E op \in Operations, t \in Tickets : ReadTicket(p, op, t)
         \/ \E t \in Tickets, to \in Queues : ReadForTransfer(p, t, to)
         \/ \E q \in Queues, s \in QueueStatus : SetQueueStatus(p, q, s)
  PROVE  QuietStep(p)
<1>1. ASSUME NEW q \in Queues, CallNext(p, q)
      PROVE  QuietStep(p)
  <2>1. qnew[q] = queue[q]
    BY <1>1 DEF CallNext, WriteQueue, QueueRowFree, NumberInv, At, NoQueueLocked
  <2>2. QuietQueues(p)
    BY <1>1, <2>1, QuietWriteQueue DEF CallNext
  <2>3. /\ ticket' = ticket /\ queue' = queue /\ tlock' = tlock /\ tnew' = tnew
        /\ txn' = [txn EXCEPT ![p] = [Idle EXCEPT !.op = "callNext", !.pc = "pick", !.q = q]]
    BY <1>1 DEF CallNext, Continue
  <2>4. txn'[p].pc = "pick" /\ \A x \in Procs \ {p} : txn'[x] = txn[x]
    BY <2>3 DEF TypeOK, Idle
  <2> QED BY <2>2, <2>3, <2>4 DEF QuietStep, QuietQueues, At, NoTicketLocked, NoQueueLocked
<1>2. ASSUME NEW locals, Continue(p, locals), UNCHANGED rows,
             locals.pc \in {"update", "target", "status"}
      PROVE  QuietStep(p)
  <2>1. txn'[p].pc = locals.pc /\ \A x \in Procs \ {p} : txn'[x] = txn[x]
    BY <1>2 DEF TypeOK, Continue
  <2> QED BY <1>2, <2>1 DEF QuietStep, At, NoTicketLocked, NoQueueLocked, rows
<1>3. ASSUME NEW op \in Operations, NEW t \in Tickets, ReadTicket(p, op, t)
      PROVE  QuietStep(p)
  <2> DEFINE locals == [Idle EXCEPT !.op = op, !.pc = "update", !.t = t,
                                    !.q = ticket[t].queue, !.user = ticket[t].user]
  <2>1. Continue(p, locals) /\ UNCHANGED rows /\ locals.pc = "update"
    BY <1>3 DEF ReadTicket, Idle
  <2> HIDE DEF locals
  <2> QED BY <2>1, <1>2
<1>4. ASSUME NEW t \in Tickets, NEW to \in Queues, ReadForTransfer(p, t, to)
      PROVE  QuietStep(p)
  <2> DEFINE locals == [Idle EXCEPT !.op = "transferTicket", !.pc = "target", !.t = t,
                              !.q = ticket[t].queue, !.user = ticket[t].user, !.to = to]
  <2>1. Continue(p, locals) /\ UNCHANGED rows /\ locals.pc = "target"
    BY <1>4 DEF ReadForTransfer, Idle
  <2> HIDE DEF locals
  <2> QED BY <2>1, <1>2
<1>5. ASSUME NEW q \in Queues, NEW s \in QueueStatus, SetQueueStatus(p, q, s)
      PROVE  QuietStep(p)
  <2> DEFINE locals == [Idle EXCEPT !.op = "setQueueStatus", !.pc = "status", !.q = q,
                                    !.seen = queue[q].status, !.want = s]
  <2>1. Continue(p, locals) /\ UNCHANGED rows /\ locals.pc = "status"
    BY <1>5 DEF SetQueueStatus, Idle
  <2> HIDE DEF locals
  <2> QED BY <2>1, <1>2
<1> QED BY <1>1, <1>3, <1>4, <1>5

\* Every statement but those that take a number or give it to a ticket is quiet.
LEMMA StatementQuiet ==
  ASSUME TypeOK, NumberInv, NEW p \in Procs,
         \/ PickNext(p) \/ UpdateTicket(p) \/ ClearCurrent(p) \/ PointAt(p)
         \/ ReadPositions(p) \/ RankWaiting(p) \/ WriteRank(p) \/ NotifyPromoted(p) \/ WriteStatus(p)
  PROVE  QuietStep(p)
<1> USE DEF NoTicketLocked, NoQueueLocked, At
<1>1. ASSUME NEW locals, Continue(p, locals)
      PROVE  txn'[p] = locals /\ \A x \in Procs \ {p} : txn'[x] = txn[x]
  BY <1>1 DEF TypeOK, Continue
<1>0. txn \in [Procs -> Locals]
  BY DEF TypeOK
<1>2. txn[p] \in Locals
  BY DEF TypeOK
<1>3. UNCHANGED <<tlock, tnew>> => QuietTickets(p)
  BY DEF QuietTickets
<1>4. UNCHANGED <<qlock, qnew>> => QuietQueues(p)
  BY DEF QuietQueues
<1>5. ASSUME PickNext(p)
      PROVE  QuietStep(p)
  <2>1. PICK t \in Tickets :
          /\ WriteTicket(p, t, [tnew[t] EXCEPT !.status = "CALLED", !.position = 0])
          /\ Continue(p, [txn[p] EXCEPT !.pc = "point", !.t = t,
                            !.notices = Notice(t, tnew[t].user, "CUSTOMER_CALLED")])
    BY <1>5 DEF PickNext, NextInLine, Callable
  <2>2. QuietTickets(p)
    <3>1. tnew[t] \in TicketRow
      BY DEF TypeOK
    <3> QED BY <2>1, <3>1, QuietWriteTicket DEF TicketRow
  <2>3. txn'[p].pc = "point" /\ \A x \in Procs \ {p} : txn'[x] = txn[x]
    BY <2>1, <1>0, <1>2 DEF Continue, Locals
  <2> QED BY <1>5, <1>4, <2>2, <2>3 DEF PickNext, QuietStep, QuietTickets, QuietQueues
<1>6. ASSUME UpdateTicket(p)
      PROVE  QuietStep(p)
  <2> DEFINE t == txn[p].t
             op == txn[p].op
             row == UpdatedRow(op, tnew[t])
  <2>1. QuietTickets(p)
    <3>1. CASE t \in Tickets
      <4>1. tnew[t] \in TicketRow
        BY <3>1 DEF TypeOK
      <4>2. row.queue = tnew[t].queue /\ row.number = tnew[t].number
        BY <1>6, <4>1, QuietUpdate DEF UpdateTicket
      <4>3. WriteTicket(p, t, row)
        BY <1>6 DEF UpdateTicket
      <4> HIDE DEF row, t
      <4> QED BY <3>1, <4>2, <4>3, QuietWriteTicket
    <3>2. CASE t \notin Tickets
      <4>1. UNCHANGED <<tlock, tnew>>
        BY <1>6, <3>2 DEF UpdateTicket, WriteTicket, TypeOK
      <4> QED BY <4>1, <1>3
    <3> QED BY <3>1, <3>2
  <2>2. PICK label \in {"point", "commit", "clear"} : \E told :
          Continue(p, [txn[p] EXCEPT !.pc = label, !.notices = told])
    <3>1. op \in {"recallTicket", "startServing", "completeService", "markNoShow",
                  "cancelTicket", "leaveQueue"}
      BY <1>6 DEF UpdateTicket, NoticeType
    <3>2. PICK label : label = CASE op = "startServing" -> "point"
                                 [] op = "recallTicket" -> "commit"
                                 [] OTHER -> "clear"
      OBVIOUS
    <3>3. label \in {"point", "commit", "clear"}
      BY <3>1, <3>2
    <3>4. Continue(p, [txn[p] EXCEPT !.pc = label, !.notices = Notice(t, txn[p].user, NoticeType[op])])
      BY <1>6, <3>2 DEF UpdateTicket
    <3> QED BY <3>3, <3>4
  <2>3. /\ txn'[p].pc \in {"point", "commit", "clear"}
        /\ txn'[p].t = txn[p].t
        /\ \A x \in Procs \ {p} : txn'[x] = txn[x]
    BY <2>2, <1>0, <1>2 DEF Continue, Locals
  <2> QED BY <1>6, <1>4, <2>1, <2>3 DEF UpdateTicket, QuietStep, QuietTickets, QuietQueues
<1>7. ASSUME ClearCurrent(p)
      PROVE  QuietStep(p)
  <2>1. QuietQueues(p)
    <3>1. ASSUME NEW q \in Queues, WriteQueue(p, q, [qnew[q] EXCEPT !.current = NoTicket])
          PROVE  QuietQueues(p)
      <4>1. qnew[q] \in QueueRow
        BY DEF TypeOK
      <4> QED BY <3>1, <4>1, QuietWriteQueue DEF QueueRow
    <3> QED BY <1>7, <1>4, <3>1 DEF ClearCurrent, PointingQueues
  <2>2. Continue(p, [txn[p] EXCEPT !.pc = "before", !.rq = txn[p].q])
    BY <1>7 DEF ClearCurrent
  <2>3. /\ txn'[p].pc = "before" /\ txn'[p].t = txn[p].t
        /\ \A x \in Procs \ {p} : txn'[x] = txn[x]
    BY <2>2, <1>0, <1>2 DEF Continue, Locals
  <2> QED BY <1>7, <1>3, <2>1, <2>3 DEF ClearCurrent, QuietStep, QuietTickets, QuietQueues
<1>8. ASSUME PointAt(p)
      PROVE  QuietStep(p)
  <2> DEFINE q == txn[p].q
             row == [qnew[q] EXCEPT !.current = txn[p].t]
  <2>1. QuietQueues(p)
    <3>1. WriteQueue(p, q, row)
      BY <1>8 DEF PointAt
    <3>2. CASE q \in Queues
      <4>1. qnew[q] \in QueueRow
        BY <3>2 DEF TypeOK
      <4>2. row.seq = qnew[q].seq
        BY <4>1 DEF QueueRow
      <4> HIDE DEF row, q
      <4> QED BY <3>1, <3>2, <4>2, QuietWriteQueue
    <3>3. CASE q \notin Queues
      <4>1. UNCHANGED <<qlock, qnew>>
        BY <3>1, <3>3 DEF WriteQueue, TypeOK
      <4> QED BY <4>1, <1>4
    <3> QED BY <3>2, <3>3
  <2>2. PICK label \in {"before", "commit"} : \E rq :
          Continue(p, [txn[p] EXCEPT !.pc = label, !.rq = rq])
    <3>1. CASE txn[p].op = "callNext"
      BY <1>8, <3>1 DEF PointAt
    <3>2. CASE txn[p].op # "callNext"
      <4>1. Continue(p, [txn[p] EXCEPT !.pc = "commit"])
        BY <1>8, <3>2 DEF PointAt
      <4>2. [txn[p] EXCEPT !.pc = "commit"] = [txn[p] EXCEPT !.pc = "commit", !.rq = txn[p].rq]
        BY <1>2 DEF Locals
      <4> QED BY <4>1, <4>2
    <3> QED BY <3>1, <3>2
  <2>3. /\ txn'[p].pc \in {"before", "commit"} /\ txn'[p].t = txn[p].t
        /\ \A x \in Procs \ {p} : txn'[x] = txn[x]
    BY <2>2, <1>0, <1>2 DEF Continue, Locals
  <2> QED BY <1>8, <1>3, <2>1, <2>3 DEF PointAt, QuietStep, QuietTickets, QuietQueues
<1>9. ASSUME NEW label \in {"rank", "write", "before", "commit"}, NEW locals, Continue(p, locals),
             locals.pc = label, locals.t = txn[p].t, UNCHANGED rows,
             txn[p].pc \in {"before", "rank", "write"}
      PROVE  QuietStep(p)
  BY <1>9, <1>1, <1>3, <1>4 DEF QuietStep, QuietTickets, QuietQueues, rows
<1>10. ASSUME ReadPositions(p) \/ RankWaiting(p)
       PROVE  QuietStep(p)
  <2>1. CASE ReadPositions(p)
    <3>1. PICK before : Continue(p, [txn[p] EXCEPT !.pc = "rank", !.before = before])
      BY <2>1 DEF ReadPositions
    <3> QED BY <2>1, <3>1, <1>2, <1>9 DEF ReadPositions, Locals
  <2>2. CASE RankWaiting(p)
    <3>1. PICK ranks : Continue(p, [txn[p] EXCEPT !.pc = "write", !.ranks = ranks])
      BY <2>2 DEF RankWaiting
    <3> QED BY <2>2, <3>1, <1>2, <1>9 DEF RankWaiting, Locals
  <2> QED BY <1>10, <2>1, <2>2
<1>11. ASSUME WriteRank(p)
       PROVE  QuietStep(p)
  <2>1. PICK t \in Tickets :
          /\ WriteTicket(p, t, [tnew[t] EXCEPT !.position = txn[p].ranks[t]])
          /\ Continue(p, [txn[p] EXCEPT !.ranks[t] = 0])
    BY <1>11 DEF WriteRank
  <2>2. QuietTickets(p)
    <3>1. tnew[t] \in TicketRow
      BY DEF TypeOK
    <3> QED BY <2>1, <3>1, QuietWriteTicket DEF TicketRow
  <2>3. /\ txn'[p].pc = txn[p].pc /\ txn'[p].t = txn[p].t
        /\ \A x \in Procs \ {p} : txn'[x] = txn[x]
    BY <2>1, <1>0, <1>2 DEF Continue, Locals
  <2> QED BY <1>11, <1>4, <2>2, <2>3 DEF WriteRank, QuietStep, QuietTickets, QuietQueues
<1>12. ASSUME NotifyPromoted(p)
       PROVE  QuietStep(p)
  <2>1. PICK label \in {"before", "commit"} : \E rq, before, told :
          Continue(p, [txn[p] EXCEPT !.pc = label, !.rq = rq, !.before = before,
                                     !.notices = told])
    BY <1>12 DEF NotifyPromoted
  <2> QED BY <1>12, <2>1, <1>2, <1>9 DEF NotifyPromoted, Locals
<1>13. ASSUME WriteStatus(p)
       PROVE  QuietStep(p)
  <2> DEFINE q == txn[p].q
             row == [qnew[q] EXCEPT !.status = txn[p].want]
  <2>1. QuietQueues(p)
    <3>1. WriteQueue(p, q, row)
      BY <1>13 DEF WriteStatus
    <3>2. CASE q \in Queues
      <4>1. qnew[q] \in QueueRow
        BY <3>2 DEF TypeOK
      <4>2. row.seq = qnew[q].seq
        BY <4>1 DEF QueueRow
      <4> HIDE DEF row, q
      <4> QED BY <3>1, <3>2, <4>2, QuietWriteQueue
    <3>3. CASE q \notin Queues
      <4>1. UNCHANGED <<qlock, qnew>>
        BY <3>1, <3>3 DEF WriteQueue, TypeOK
      <4> QED BY <4>1, <1>4
    <3> QED BY <3>2, <3>3
  <2>2. Continue(p, [txn[p] EXCEPT !.pc = "commit", !.notices = StatusNotices(p)])
    BY <1>13 DEF WriteStatus
  <2>3. /\ txn'[p].pc = "commit" /\ txn'[p].t = txn[p].t
        /\ \A x \in Procs \ {p} : txn'[x] = txn[x]
    BY <2>2, <1>0, <1>2 DEF Continue, Locals
  <2> QED BY <1>13, <1>3, <2>1, <2>3 DEF WriteStatus, QuietStep, QuietTickets, QuietQueues
<1> QED BY <1>5, <1>6, <1>7, <1>8, <1>10, <1>11, <1>12, <1>13

-----------------------------------------------------------------------------
\* The steps that are not quiet.

\* Two requests are not told apart by the steps of a third: what y holds stays
\* when y's locals, the rows it has locked and their committed versions do.
LEMMA OthersKeep ==
  ASSUME NEW y, txn'[y] = txn[y],
         \A t \in Tickets : tlock[t] = y => tlock'[t] = y /\ tnew'[t] = tnew[t],
         \A q \in Queues : qlock[q] = y => /\ qlock'[q] = y
                                           /\ qnew'[q] = qnew[q]
                                           /\ queue'[q].seq = queue[q].seq
  PROVE  /\ \A q : TookNumber(y, q) => TookNumber(y, q)'
         /\ \A q \in Queues : HoldsSlip(y, q) /\ TookNumber(y, q) => HoldsSlip(y, q)'
<1> QED BY DEF TookNumber, HoldsSlip

\* Locking a queue and taking its next number: the first statement of a join
\* and the second of a transfer.
LEMMA TakeNumberPreserves ==
  ASSUME TypeOK, NumberInv, NEW p \in Procs, NEW q \in Queues,
         txn[p].pc \in NoQueueLocked,
         WriteQueue(p, q, [queue[q] EXCEPT !.seq = @ + 1]),
         UNCHANGED <<ticket, queue, tlock, tnew>>,
         \A x \in Procs \ {p} : txn'[x] = txn[x],
         txn'[p].pc \in {"insert", "move"},
         NumberingQueue(p)' = q
  PROVE  NumberInv'
<1> USE DEF NoTicketLocked, NoQueueLocked
<1>1. /\ \A t \in Tickets : tlock[t] # p
      /\ \A n \in Queues : qlock[n] # p
      /\ qlock[q] = NoProc
  BY DEF NumberInv, WriteQueue, QueueRowFree
<1>2. /\ qlock' = [qlock EXCEPT ![q] = p]
      /\ qnew' = [qnew EXCEPT ![q] = [queue[q] EXCEPT !.seq = @ + 1]]
      /\ qlock \in [Queues -> Procs \cup {NoProc}]
      /\ qnew \in [Queues -> QueueRow] /\ queue[q] \in QueueRow
  BY DEF WriteQueue, TypeOK
<1>3. /\ qlock'[q] = p /\ qnew'[q].seq = queue[q].seq + 1
      /\ \A n \in Queues \ {q} : qlock'[n] = qlock[n] /\ qnew'[n] = qnew[n]
  BY <1>2 DEF QueueRow
<1>4. TookNumber(p, q)'
  BY <1>3 DEF TookNumber
<1>5. ASSUME NEW y \in Procs \ {p}
      PROVE  /\ \A n : TookNumber(y, n) => TookNumber(y, n)'
             /\ \A n \in Queues : HoldsSlip(y, n) /\ TookNumber(y, n) => HoldsSlip(y, n)'
  <2>1. \A n \in Queues : qlock[n] = y => n # q
    BY <1>1, <1>5, ConstantsOK
  <2> QED BY <1>3, <2>1, OthersKeep
<1>6. \A t \in Tickets : tlock'[t] = NoProc => tnew'[t] = ticket'[t]
  BY DEF NumberInv
<1>7. \A n \in Queues : qlock'[n] = NoProc => qnew'[n] = queue'[n]
  BY <1>3, ConstantsOK DEF NumberInv
<1>8. /\ \A t \in Tickets : Issued(t)' => ticket'[t].number \in 1..queue'[ticket'[t].queue].seq
      /\ UniqueNumbers'
  BY DEF NumberInv, Issued, UniqueNumbers
<1>9. ASSUME NEW t \in Tickets, Renumbered(t)'
      PROVE  /\ tlock'[t] \in Procs
             /\ txn'[tlock'[t]].t = t
             /\ TookNumber(tlock[t], tnew[t].queue)'
             /\ HoldsSlip(tlock[t], tnew[t].queue)'
  <2>1. PICK y \in Procs, n \in Queues :
          /\ y = tlock[t] /\ n = tnew[t].queue /\ txn[y].t = t
          /\ TookNumber(y, n) /\ HoldsSlip(y, n)
    BY <1>9 DEF NumberInv, TookNumber, Renumbered
  <2>2. y # p
    BY <2>1, <1>1
  <2> QED BY <2>1, <2>2, <1>5 DEF TookNumber, HoldsSlip
<1>10. ASSUME NEW n \in Queues, qnew'[n].seq # queue'[n].seq
       PROVE  /\ qlock'[n] \in Procs
              /\ TookNumber(qlock[n], n)'
              /\ IF txn'[qlock'[n]].pc \in {"insert", "move"}
                 THEN n = NumberingQueue(qlock[n])'
                 ELSE HoldsSlip(qlock[n], n)'
  <2>1. CASE n = q
    BY <2>1, <1>3, <1>4 DEF TookNumber, NumberingQueue, At
  <2>2. CASE n # q
    <3>1. PICK y \in Procs \ {p} :
            /\ y = qlock[n] /\ TookNumber(y, n)
            /\ IF txn[y].pc \in {"insert", "move"} THEN n = NumberingQueue(y) ELSE HoldsSlip(y, n)
      BY <1>10, <2>2, <1>1, <1>3 DEF NumberInv
    <3>2. qlock'[n] = y /\ txn'[y] = txn[y]
      BY <3>1, <2>2, <1>3
    <3> QED BY <3>1, <3>2, <1>5 DEF NumberingQueue, At, TookNumber, HoldsSlip
  <2> QED BY <2>1, <2>2
<1>11. ASSUME NEW x \in Procs
       PROVE  /\ txn'[x].pc \in {"insert", "move"} => TookNumber(x, NumberingQueue(x))'
              /\ txn'[x].pc \in NoTicketLocked => \A t \in Tickets : tlock'[t] # x
              /\ txn'[x].pc \in NoQueueLocked => \A n \in Queues : qlock'[n] # x
  <2>1. CASE x = p
    BY <2>1, <1>1, <1>4 DEF TookNumber, NumberingQueue, At
  <2>2. CASE x # p
    <3>1. txn'[x] = txn[x] /\ NumberingQueue(x)' = NumberingQueue(x)
      BY <2>2 DEF NumberingQueue, At
    <3>2. txn'[x].pc \in {"insert", "move"} => TookNumber(x, NumberingQueue(x))'
      <4> SUFFICES ASSUME txn'[x].pc \in {"insert", "move"}
                   PROVE  TookNumber(x, NumberingQueue(x))'
        OBVIOUS
      <4>1. PICK n : n = NumberingQueue(x) /\ TookNumber(x, n)
        BY <3>1 DEF NumberInv
      <4>2. TookNumber(x, n)'
        BY <4>1, <1>5, <2>2
      <4> QED BY <4>1, <4>2, <3>1 DEF TookNumber
    <3>3. \A n \in Queues : qlock'[n] = x => qlock[n] = x
      BY <2>2, <1>3
    <3>4. /\ txn'[x].pc \in NoTicketLocked => \A t \in Tickets : tlock'[t] # x
          /\ txn'[x].pc \in NoQueueLocked => \A n \in Queues : qlock'[n] # x
      BY <3>1, <3>3 DEF NumberInv
    <3> QED BY <3>2, <3>4
  <2> QED BY <2>1, <2>2
<1> QED BY <1>6, <1>7, <1>8, <1>9, <1>10, <1>11 DEF NumberInv

\* Giving the number taken to a ticket: the insertion of a join and the move of
\* a transfer.
LEMMA GiveNumberPreserves ==
  ASSUME TypeOK, NumberInv, NEW p \in Procs, NEW t \in Tickets, NEW row,
         txn[p].pc \in {"insert", "move"},
         WriteTicket(p, t, row),
         row.queue = NumberingQueue(p),
         row.number = qnew[NumberingQueue(p)].seq,
         UNCHANGED <<ticket, queue, qlock, qnew>>,
         \A x \in Procs \ {p} : txn'[x] = txn[x],
         txn'[p].pc \in {"commit", "clear"},
         txn'[p].t = t
  PROVE  NumberInv'
<1> USE DEF NoTicketLocked, NoQueueLocked
<1>1. PICK q \in Queues : q = NumberingQueue(p) /\ TookNumber(p, q)
  BY DEF NumberInv, TookNumber
<1>2. /\ \A u \in Tickets : tlock[u] # p
      /\ tlock[t] = NoProc
  BY DEF NumberInv, WriteTicket
<1>3. /\ tlock'[t] = p /\ tnew'[t] = row
      /\ \A u \in Tickets \ {t} : tlock'[u] = tlock[u] /\ tnew'[u] = tnew[u]
  BY DEF WriteTicket, TypeOK
<1>4. TookNumber(p, q)' /\ HoldsSlip(p, q)'
  BY <1>1, <1>3 DEF TookNumber, HoldsSlip
<1>5. ASSUME NEW y \in Procs \ {p}
      PROVE  /\ \A n : TookNumber(y, n) => TookNumber(y, n)'
             /\ \A n \in Queues : HoldsSlip(y, n) /\ TookNumber(y, n) => HoldsSlip(y, n)'
  <2>1. \A u \in Tickets : tlock[u] = y => u # t
    BY <1>2, <1>5, ConstantsOK
  <2> QED BY <1>3, <2>1, OthersKeep
<1>6. \A u \in Tickets : tlock'[u] = NoProc => tnew'[u] = ticket'[u]
  BY <1>3, ConstantsOK DEF NumberInv
<1>7. \A n \in Queues : qlock'[n] = NoProc => qnew'[n] = queue'[n]
  BY DEF NumberInv
<1>8. /\ \A u \in Tickets : Issued(u)' => ticket'[u].number \in 1..queue'[ticket'[u].queue].seq
      /\ UniqueNumbers'
  BY DEF NumberInv, Issued, UniqueNumbers
<1>9. ASSUME NEW u \in Tickets, Renumbered(u)'
      PROVE  /\ tlock'[u] \in Procs
             /\ txn'[tlock'[u]].t = u
             /\ TookNumber(tlock[u], tnew[u].queue)'
             /\ HoldsSlip(tlock[u], tnew[u].queue)'
  <2>1. CASE u = t
    BY <2>1, <1>1, <1>3, <1>4 DEF TookNumber, HoldsSlip
  <2>2. CASE u # t
    <3>1. PICK y \in Procs, n \in Queues :
            /\ y = tlock[u] /\ n = tnew[u].queue /\ txn[y].t = u
            /\ TookNumber(y, n) /\ HoldsSlip(y, n)
      BY <1>9, <2>2, <1>3 DEF NumberInv, TookNumber, Renumbered
    <3>2. y # p /\ tlock'[u] = y /\ tnew'[u].queue = n
      BY <3>1, <2>2, <1>2, <1>3
    <3> QED BY <3>1, <3>2, <1>5 DEF TookNumber, HoldsSlip
  <2> QED BY <2>1, <2>2
<1>10. ASSUME NEW n \in Queues, qnew'[n].seq # queue'[n].seq
       PROVE  /\ qlock'[n] \in Procs
              /\ TookNumber(qlock[n], n)'
              /\ IF txn'[qlock'[n]].pc \in {"insert", "move"}
                 THEN n = NumberingQueue(qlock[n])'
                 ELSE HoldsSlip(qlock[n], n)'
  <2>1. PICK y \in Procs :
          /\ y = qlock[n] /\ TookNumber(y, n)
          /\ IF txn[y].pc \in {"insert", "move"} THEN n = NumberingQueue(y) ELSE HoldsSlip(y, n)
    BY <1>10 DEF NumberInv
  <2>2. CASE y = p
    BY <2>1, <2>2, <1>1, <1>4 DEF TookNumber, HoldsSlip
  <2>3. CASE y # p
    BY <2>1, <2>3, <1>5 DEF NumberingQueue, At, TookNumber, HoldsSlip
  <2> QED BY <2>2, <2>3
<1>11. ASSUME NEW x \in Procs
       PROVE  /\ txn'[x].pc \in {"insert", "move"} => TookNumber(x, NumberingQueue(x))'
              /\ txn'[x].pc \in NoTicketLocked => \A u \in Tickets : tlock'[u] # x
              /\ txn'[x].pc \in NoQueueLocked => \A n \in Queues : qlock'[n] # x
  <2>1. CASE x = p
    BY <2>1
  <2>2. CASE x # p
    <3>1. txn'[x] = txn[x] /\ NumberingQueue(x)' = NumberingQueue(x)
      BY <2>2 DEF NumberingQueue, At
    <3>2. txn'[x].pc \in {"insert", "move"} => TookNumber(x, NumberingQueue(x))'
      <4> SUFFICES ASSUME txn'[x].pc \in {"insert", "move"}
                   PROVE  TookNumber(x, NumberingQueue(x))'
        OBVIOUS
      <4>1. PICK n : n = NumberingQueue(x) /\ TookNumber(x, n)
        BY <3>1 DEF NumberInv
      <4>2. TookNumber(x, n)'
        BY <4>1, <1>5, <2>2
      <4> QED BY <4>1, <4>2, <3>1 DEF TookNumber
    <3>3. \A u \in Tickets : tlock'[u] = x => tlock[u] = x
      BY <2>2, <1>3
    <3>4. /\ txn'[x].pc \in NoTicketLocked => \A u \in Tickets : tlock'[u] # x
          /\ txn'[x].pc \in NoQueueLocked => \A n \in Queues : qlock'[n] # x
      BY <3>1, <3>3 DEF NumberInv
    <3> QED BY <3>2, <3>4
  <2> QED BY <2>1, <2>2
<1> QED BY <1>6, <1>7, <1>8, <1>9, <1>10, <1>11 DEF NumberInv

\* The rows a transaction had locked are released when it ends, and its locals
\* are gone.
EndOfTransaction(p) ==
  /\ tlock' = [t \in Tickets |-> IF tlock[t] = p THEN NoProc ELSE tlock[t]]
  /\ qlock' = [q \in Queues |-> IF qlock[q] = p THEN NoProc ELSE qlock[q]]
  /\ txn' = [txn EXCEPT ![p] = Idle]
  /\ \A t \in Tickets : tlock[t] # p => tnew'[t] = tnew[t] /\ ticket'[t] = ticket[t]
  /\ \A q \in Queues : qlock[q] # p => qnew'[q] = qnew[q] /\ queue'[q] = queue[q]
  /\ \A t \in Tickets : tlock[t] = p => tnew'[t] = ticket'[t]
  /\ \A q \in Queues : qlock[q] = p => qnew'[q] = queue'[q]

\* Commit and Abort leave what the other requests hold, provided the numbers
\* they leave committed are in order.
LEMMA EndPreserves ==
  ASSUME TypeOK, NumberInv, NEW p \in Procs, EndOfTransaction(p),
         \A t \in Tickets : Issued(t)' => ticket'[t].number \in 1..queue'[ticket'[t].queue].seq,
         UniqueNumbers'
  PROVE  NumberInv'
<1> USE DEF NoTicketLocked, NoQueueLocked
<1>1. txn'[p].pc = "idle" /\ \A x \in Procs \ {p} : txn'[x] = txn[x]
  BY DEF EndOfTransaction, TypeOK, Idle
<1>2. /\ \A t \in Tickets : tlock'[t] = IF tlock[t] = p THEN NoProc ELSE tlock[t]
      /\ \A q \in Queues : qlock'[q] = IF qlock[q] = p THEN NoProc ELSE qlock[q]
  BY DEF EndOfTransaction
<1>3. ASSUME NEW y \in Procs \ {p}
      PROVE  /\ \A n : TookNumber(y, n) => TookNumber(y, n)'
             /\ \A n \in Queues : HoldsSlip(y, n) /\ TookNumber(y, n) => HoldsSlip(y, n)'
  BY <1>1, <1>2, OthersKeep DEF EndOfTransaction
<1>4. \A t \in Tickets : tlock'[t] = NoProc => tnew'[t] = ticket'[t]
  BY <1>2 DEF NumberInv, EndOfTransaction
<1>5. \A q \in Queues : qlock'[q] = NoProc => qnew'[q] = queue'[q]
  BY <1>2 DEF NumberInv, EndOfTransaction
<1>6. ASSUME NEW t \in Tickets, Renumbered(t)'
      PROVE  /\ tlock'[t] \in Procs
             /\ txn'[tlock'[t]].t = t
             /\ TookNumber(tlock[t], tnew[t].queue)'
             /\ HoldsSlip(tlock[t], tnew[t].queue)'
  <2>1. tlock[t] # p /\ tlock'[t] = tlock[t] /\ tnew'[t] = tnew[t] /\ Renumbered(t)
    BY <1>6, <1>2 DEF EndOfTransaction, Renumbered
  <2>2. PICK y \in Procs \ {p}, n \in Queues :
          /\ y = tlock[t] /\ n = tnew[t].queue /\ txn[y].t = t
          /\ TookNumber(y, n) /\ HoldsSlip(y, n)
    BY <2>1 DEF NumberInv, TookNumber
  <2> QED BY <2>1, <2>2, <1>1, <1>3 DEF TookNumber, HoldsSlip
<1>7. ASSUME NEW q \in Queues, qnew'[q].seq # queue'[q].seq
      PROVE  /\ qlock'[q] \in Procs
             /\ TookNumber(qlock[q], q)'
             /\ IF txn'[qlock'[q]].pc \in {"insert", "move"}
                THEN q = NumberingQueue(qlock[q])'
                ELSE HoldsSlip(qlock[q], q)'
  <2>1. qlock[q] # p /\ qlock'[q] = qlock[q] /\ qnew[q].seq # queue[q].seq
    BY <1>7, <1>2 DEF EndOfTransaction
  <2>2. PICK y \in Procs \ {p} :
          /\ y = qlock[q] /\ TookNumber(y, q)
          /\ IF txn[y].pc \in {"insert", "move"} THEN q = NumberingQueue(y) ELSE HoldsSlip(y, q)
    BY <2>1 DEF NumberInv
  <2>3. txn'[y] = txn[y]
    BY <1>1
  <2> QED BY <2>1, <2>2, <2>3, <1>3 DEF NumberingQueue, At, TookNumber, HoldsSlip
<1>8. ASSUME NEW x \in Procs
      PROVE  /\ txn'[x].pc \in {"insert", "move"} => TookNumber(x, NumberingQueue(x))'
             /\ txn'[x].pc \in NoTicketLocked => \A t \in Tickets : tlock'[t] # x
             /\ txn'[x].pc \in NoQueueLocked => \A q \in Queues : qlock'[q] # x
  <2>1. CASE x = p
    BY <2>1, <1>1, <1>2, ConstantsOK
  <2>2. CASE x # p
    <3>1. txn'[x] = txn[x] /\ NumberingQueue(x)' = NumberingQueue(x)
      BY <2>2, <1>1 DEF NumberingQueue, At
    <3>2. txn'[x].pc \in {"insert", "move"} => TookNumber(x, NumberingQueue(x))'
      <4> SUFFICES ASSUME txn'[x].pc \in {"insert", "move"}
                   PROVE  TookNumber(x, NumberingQueue(x))'
        OBVIOUS
      <4>1. PICK n : n = NumberingQueue(x) /\ TookNumber(x, n)
        BY <3>1 DEF NumberInv
      <4>2. TookNumber(x, n)'
        BY <4>1, <1>3, <2>2
      <4> QED BY <4>1, <4>2, <3>1 DEF TookNumber
    <3>3. /\ txn'[x].pc \in NoTicketLocked => \A t \in Tickets : tlock'[t] # x
          /\ txn'[x].pc \in NoQueueLocked => \A q \in Queues : qlock'[q] # x
      BY <3>1, <1>2, ConstantsOK DEF NumberInv
    <3> QED BY <3>2, <3>3
  <2> QED BY <2>1, <2>2
<1> QED BY <1>4, <1>5, <1>6, <1>7, <1>8 DEF NumberInv

\* A step issues nothing, or the next number of q to t.
IssuesNothing ==
  /\ \A u \in Tickets : /\ ticket'[u].queue = ticket[u].queue
                        /\ ticket'[u].number = ticket[u].number
  /\ \A n \in Queues : queue'[n].seq = queue[n].seq

Issues(t, q) ==
  /\ ticket'[t].queue = q
  /\ ticket'[t].number = queue[q].seq + 1
  /\ \A u \in Tickets \ {t} : /\ ticket'[u].queue = ticket[u].queue
                              /\ ticket'[u].number = ticket[u].number
  /\ queue'[q].seq = queue[q].seq + 1
  /\ \A n \in Queues \ {q} : queue'[n].seq = queue[n].seq

\* A commit issues nothing, or exactly the number its request took to exactly
\* the ticket of that request.
LEMMA CommitIssues ==
  ASSUME TypeOK, NumberInv, NEW p \in Procs, Commit(p)
  PROVE  IssuesNothing \/ \E t \in Tickets, q \in Queues : Issues(t, q)
<1>1. /\ txn[p].pc = "commit"
      /\ \A t \in Tickets : ticket'[t] = IF tlock[t] = p THEN tnew[t] ELSE ticket[t]
      /\ \A q \in Queues : queue'[q] = IF qlock[q] = p THEN qnew[q] ELSE queue[q]
  BY DEF Commit, At
<1>2. \A q \in Queues : queue'[q].seq # queue[q].seq => TookNumber(p, q) /\ HoldsSlip(p, q)
  BY <1>1 DEF NumberInv
<1>3. CASE \E t \in Tickets : tlock[t] = p /\ Renumbered(t)
  <2>1. PICK t \in Tickets : tlock[t] = p /\ Renumbered(t)
    BY <1>3
  <2>2. PICK q \in Queues : q = tnew[t].queue /\ TookNumber(p, q) /\ HoldsSlip(p, q)
    BY <2>1 DEF NumberInv, TookNumber
  <2>3. txn[p].t = t /\ \A u \in Tickets \ {t} : tlock[u] = p => ~Renumbered(u)
    BY <2>1 DEF NumberInv
  <2>4. ticket'[t].queue = q /\ ticket'[t].number = queue[q].seq + 1
    BY <1>1, <2>1, <2>2, <2>3 DEF TookNumber, HoldsSlip
  <2>5. \A u \in Tickets \ {t} : /\ ticket'[u].queue = ticket[u].queue
                                 /\ ticket'[u].number = ticket[u].number
    BY <1>1, <2>3 DEF Renumbered
  <2>6. queue'[q].seq = queue[q].seq + 1
    BY <1>1, <2>2 DEF TookNumber
  <2>7. \A n \in Queues \ {q} : queue'[n].seq = queue[n].seq
    BY <1>2, <2>2, <2>3 DEF HoldsSlip
  <2> QED BY <2>4, <2>5, <2>6, <2>7 DEF Issues
<1>4. CASE ~\E t \in Tickets : tlock[t] = p /\ Renumbered(t)
  <2>1. \A u \in Tickets : /\ ticket'[u].queue = ticket[u].queue
                           /\ ticket'[u].number = ticket[u].number
    BY <1>1, <1>4 DEF Renumbered
  <2>2. ASSUME NEW n \in Queues, queue'[n].seq # queue[n].seq
        PROVE  FALSE
    <3>1. PICK u \in Tickets : /\ u = txn[p].t /\ tlock[u] = p
                               /\ tnew[u].queue = n /\ tnew[u].number = queue[n].seq + 1
      BY <1>2, <2>2 DEF HoldsSlip, TookNumber
    <3>2. ticket[u].queue = n /\ ticket[u].number = queue[n].seq + 1
      BY <3>1, <1>4 DEF Renumbered
    <3>3. ticket[u].number \in 1..queue[n].seq
      BY <3>2, ConstantsOK DEF NumberInv, Issued
    <3>4. queue[n].seq \in Nat
      BY DEF TypeOK, QueueRow
    <3> QED BY <3>2, <3>3, <3>4
  <2> QED BY <2>1, <2>2 DEF IssuesNothing
<1> QED BY <1>3, <1>4

\* A step that issues at most the next number of a queue keeps numbers in
\* order.
LEMMA IssueKeepsOrder ==
  ASSUME TypeOK, NumberInv,
         IssuesNothing \/ \E t \in Tickets, q \in Queues : Issues(t, q)
  PROVE  /\ \A t \in Tickets : Issued(t)' => ticket'[t].number \in 1..queue'[ticket'[t].queue].seq
         /\ UniqueNumbers'
<1>1. /\ \A t \in Tickets : Issued(t) => /\ ticket[t].queue \in Queues
                                         /\ ticket[t].number \in 1..queue[ticket[t].queue].seq
      /\ \A q \in Queues : queue[q].seq \in Nat
  BY DEF NumberInv, Issued, TypeOK, TicketRow, QueueRow
<1>2. UniqueNumbers
  BY DEF NumberInv
<1>3. CASE IssuesNothing
  BY <1>1, <1>2, <1>3 DEF IssuesNothing, Issued, UniqueNumbers
<1>4. ASSUME NEW t \in Tickets, NEW q \in Queues, Issues(t, q)
      PROVE  /\ \A u \in Tickets : Issued(u)' => ticket'[u].number \in 1..queue'[ticket'[u].queue].seq
             /\ UniqueNumbers'
  <2>1. \A u \in Tickets \ {t} : Issued(u)' => /\ Issued(u)
                                               /\ ticket'[u].queue = ticket[u].queue
                                               /\ ticket'[u].number = ticket[u].number
    BY <1>4 DEF Issues, Issued
  <2>2. ASSUME NEW u \in Tickets, Issued(u)'
        PROVE  ticket'[u].number \in 1..queue'[ticket'[u].queue].seq
    BY <1>1, <1>4, <2>1, <2>2 DEF Issues
  <2>3. ASSUME NEW u \in Tickets \ {t}, Issued(u)', ticket'[u].queue = q
        PROVE  ticket'[u].number # ticket'[t].number
    BY <1>1, <1>4, <2>1, <2>3 DEF Issues
  <2>4. UniqueNumbers'
    BY <1>2, <1>4, <2>1, <2>3 DEF UniqueNumbers, Issues
  <2> QED BY <2>2, <2>4
<1> QED BY <1>3, <1>4

\* A commit leaves every number in order and the other requests' slips alone.
LEMMA CommitPreserves ==
  ASSUME TypeOK, NumberInv, NEW p \in Procs, Commit(p)
  PROVE  NumberInv'
<1>1. EndOfTransaction(p)
  BY DEF Commit, EndOfTransaction
<1> QED BY <1>1, CommitIssues, IssueKeepsOrder, EndPreserves

\* A rolled-back request gives its number back with the queue's row.
LEMMA AbortPreserves ==
  ASSUME TypeOK, NumberInv, NEW p \in Procs, Abort(p)
  PROVE  NumberInv'
<1>1. EndOfTransaction(p)
  BY DEF Abort, EndOfTransaction
<1>2. IssuesNothing
  BY DEF Abort, IssuesNothing
<1> QED BY <1>1, <1>2, IssueKeepsOrder, EndPreserves

\* An update of a queue's status or kiosk mode waits for the row's lock.
LEMMA UpdateRowPreserves ==
  ASSUME TypeOK, NumberInv, NEW q \in Queues, NEW row, row.seq = queue[q].seq,
         UpdateRow(q, row)
  PROVE  NumberInv'
<1>1. /\ queue' = [queue EXCEPT ![q] = row] /\ qnew' = [qnew EXCEPT ![q] = row]
      /\ qlock[q] = NoProc /\ qnew[q] = queue[q]
      /\ UNCHANGED <<ticket, tlock, tnew, qlock, txn>>
  BY DEF UpdateRow, NumberInv
<1>2. \A n \in Queues : /\ queue'[n].seq = queue[n].seq /\ qnew'[n].seq = qnew[n].seq
                        /\ qlock[n] = NoProc => qnew'[n] = queue'[n]
  BY <1>1 DEF TypeOK, NumberInv
<1>3. \A x, n : TookNumber(x, n)' <=> TookNumber(x, n)
  BY <1>1, <1>2 DEF TookNumber
<1>4. \A x \in Procs, n \in Queues : HoldsSlip(x, n)' <=> HoldsSlip(x, n)
  BY <1>1, <1>2 DEF HoldsSlip
<1>5. \A x : NumberingQueue(x)' = NumberingQueue(x)
  BY <1>1 DEF NumberingQueue, At
<1>6. \A t \in Tickets : Renumbered(t)' <=> Renumbered(t)
  BY <1>1 DEF Renumbered
<1>7. /\ \A t \in Tickets : Issued(t)' => ticket'[t].number \in 1..queue'[ticket'[t].queue].seq
      /\ UniqueNumbers'
  <2>1. IssuesNothing
    BY <1>1, <1>2 DEF IssuesNothing
  <2> QED BY <2>1, IssueKeepsOrder
<1>8. ASSUME NEW t \in Tickets, Renumbered(t)'
      PROVE  /\ tlock'[t] \in Procs
             /\ txn'[tlock'[t]].t = t
             /\ TookNumber(tlock[t], tnew[t].queue)'
             /\ HoldsSlip(tlock[t], tnew[t].queue)'
  <2>1. PICK x \in Procs, n \in Queues :
          /\ x = tlock[t] /\ n = tnew[t].queue /\ txn[x].t = t
          /\ TookNumber(x, n) /\ HoldsSlip(x, n)
    BY <1>6, <1>8 DEF NumberInv, TookNumber
  <2> QED BY <2>1, <1>1, <1>3, <1>4 DEF TookNumber, HoldsSlip
<1>9. ASSUME NEW n \in Queues, qnew'[n].seq # queue'[n].seq
      PROVE  /\ qlock'[n] \in Procs
             /\ TookNumber(qlock[n], n)'
             /\ IF txn'[qlock'[n]].pc \in {"insert", "move"}
                THEN n = NumberingQueue(qlock[n])'
                ELSE HoldsSlip(qlock[n], n)'
  <2>1. PICK x \in Procs :
          /\ x = qlock[n] /\ TookNumber(x, n)
          /\ IF txn[x].pc \in {"insert", "move"} THEN n = NumberingQueue(x) ELSE HoldsSlip(x, n)
    BY <1>2, <1>9 DEF NumberInv
  <2> QED BY <2>1, <1>1, <1>3, <1>4 DEF TookNumber, HoldsSlip, NumberingQueue, At
<1>10. ASSUME NEW x \in Procs, txn'[x].pc \in {"insert", "move"}
       PROVE  TookNumber(x, NumberingQueue(x))'
  <2>1. PICK n : n = NumberingQueue(x) /\ TookNumber(x, n)
    BY <1>1, <1>10 DEF NumberInv
  <2> QED BY <2>1, <1>3, <1>5 DEF TookNumber
<1>11. \A x \in Procs :
         /\ txn'[x].pc \in NoTicketLocked => \A t \in Tickets : tlock'[t] # x
         /\ txn'[x].pc \in NoQueueLocked => \A n \in Queues : qlock'[n] # x
  BY <1>1 DEF NumberInv
<1>12. \A t \in Tickets : tlock'[t] = NoProc => tnew'[t] = ticket'[t]
  BY <1>1 DEF NumberInv
<1> QED BY <1>1, <1>2, <1>7, <1>8, <1>9, <1>10, <1>11, <1>12 DEF NumberInv

-----------------------------------------------------------------------------
\* The theorems.

\* Initially nothing is numbered, locked or in flight.
LEMMA NumberInit == Init => NumberInv
<1> SUFFICES ASSUME Init PROVE NumberInv
  OBVIOUS
<1>1. \A t \in Tickets : /\ ticket[t] = NoRow /\ tnew[t] = NoRow /\ tlock[t] = NoProc
                         /\ ~Issued(t) /\ ~Renumbered(t)
  BY DEF Init, Issued, Renumbered, NoRow
<1>2. \A q \in Queues : qnew[q] = queue[q] /\ qlock[q] = NoProc
  BY DEF Init
<1>3. \A p \in Procs : txn[p].pc = "idle"
  BY DEF Init, Idle
<1> QED BY <1>1, <1>2, <1>3, ConstantsOK DEF NumberInv, UniqueNumbers

\* Every step keeps the invariant.
LEMMA NumberNext == TypeOK /\ NumberInv /\ [Next]_vars => NumberInv'
<1> SUFFICES ASSUME TypeOK, NumberInv, [Next]_vars
             PROVE  NumberInv'
  OBVIOUS
<1>1. ASSUME NEW p \in Procs, NEW u \in Users \cup {Guest}, NEW q \in Queues, JoinQueue(p, u, q)
      PROVE  NumberInv'
  <2>1. txn' = [txn EXCEPT ![p] = [Idle EXCEPT !.op = "joinQueue", !.pc = "insert",
                                               !.q = q, !.user = u]]
    BY <1>1 DEF JoinQueue, Continue
  <2>2. /\ txn'[p].pc = "insert" /\ txn'[p].q = q
        /\ \A x \in Procs \ {p} : txn'[x] = txn[x]
    BY <2>1 DEF TypeOK, Idle
  <2>3. NumberingQueue(p)' = q
    BY <2>2 DEF NumberingQueue, At
  <2>4. txn[p].pc \in NoQueueLocked
    BY <1>1 DEF JoinQueue, Begin, NoQueueLocked
  <2> QED BY <1>1, <2>2, <2>3, <2>4, TakeNumberPreserves DEF JoinQueue
<1>2. ASSUME NEW p \in Procs, LockTarget(p)
      PROVE  NumberInv'
  <2>1. PICK q \in Queues : q = txn[p].to
    BY <1>2 DEF TypeOK, LockTarget, At
  <2>2. /\ txn'[p].pc = "move" /\ txn'[p].to = q
        /\ \A x \in Procs \ {p} : txn'[x] = txn[x]
    BY <1>2, <2>1 DEF LockTarget, Continue, TypeOK, Locals
  <2>3. NumberingQueue(p)' = q
    BY <2>2 DEF NumberingQueue, At
  <2>4. txn[p].pc \in NoQueueLocked
    BY <1>2 DEF LockTarget, At, NoQueueLocked
  <2>5. /\ WriteQueue(p, q, [queue[q] EXCEPT !.seq = @ + 1])
        /\ UNCHANGED <<ticket, queue, tlock, tnew>>
    BY <1>2, <2>1 DEF LockTarget
  <2> QED BY <2>2, <2>3, <2>4, <2>5, TakeNumberPreserves
<1>3. ASSUME NEW p \in Procs, InsertTicket(p)
      PROVE  NumberInv'
  <2>1. PICK t, row, told :
          /\ t \in Tickets
          /\ WriteTicket(p, t, row)
          /\ row.queue = txn[p].q /\ row.number = qnew[txn[p].q].seq
          /\ Continue(p, [txn[p] EXCEPT !.pc = "commit", !.t = t, !.notices = told])
    BY <1>3 DEF InsertTicket
  <2>2. NumberingQueue(p) = txn[p].q
    BY <1>3 DEF NumberingQueue, InsertTicket
  <2>3. /\ txn'[p].pc = "commit" /\ txn'[p].t = t
        /\ \A x \in Procs \ {p} : txn'[x] = txn[x]
    BY <2>1 DEF Continue, TypeOK, Locals
  <2> QED BY <1>3, <2>1, <2>2, <2>3, GiveNumberPreserves DEF InsertTicket, At
<1>4. ASSUME NEW p \in Procs, MoveTicket(p)
      PROVE  NumberInv'
  <2>1. PICK t, row, told :
          /\ t \in Tickets /\ t = txn[p].t /\ row = MovedRow(tnew[t], txn[p].to)
          /\ WriteTicket(p, t, row)
          /\ Continue(p, [txn[p] EXCEPT !.pc = "clear", !.notices = told])
    BY <1>4 DEF TypeOK, MoveTicket, At
  <2>2. row.queue = txn[p].to /\ row.number = qnew[txn[p].to].seq
    BY <2>1 DEF TypeOK, TicketRow, MovedRow
  <2>3. NumberingQueue(p) = txn[p].to
    BY <1>4 DEF NumberingQueue, MoveTicket, At
  <2>4. /\ txn'[p].pc = "clear" /\ txn'[p].t = t
        /\ \A x \in Procs \ {p} : txn'[x] = txn[x]
    BY <2>1 DEF Continue, TypeOK, Locals
  <2> QED BY <1>4, <2>1, <2>2, <2>3, <2>4, GiveNumberPreserves DEF MoveTicket, At
<1>5. ASSUME NEW p \in Procs, Request(p)
      PROVE  NumberInv'
  <2>1. CASE \E u \in Users \cup {Guest}, q \in Queues : JoinQueue(p, u, q)
    BY <2>1, <1>1
  <2>2. CASE \/ \E q \in Queues : CallNext(p, q)
             \/ \E op \in Operations, t \in Tickets : ReadTicket(p, op, t)
             \/ \E t \in Tickets, to \in Queues : ReadForTransfer(p, t, to)
             \/ \E q \in Queues, s \in QueueStatus : SetQueueStatus(p, q, s)
    <3>1. At(p, "idle")
      BY <2>2 DEF CallNext, ReadTicket, ReadForTransfer, SetQueueStatus, Begin, At
    <3> QED BY <2>2, <3>1, RequestQuiet, QuietPreserves
  <2> QED BY <1>5, <2>1, <2>2 DEF Request, StartServing, CompleteService, MarkNoShow,
             CancelTicket, LeaveQueue, RecallTicket, ReadForTransition, Operations
<1>6. ASSUME NEW p \in Procs, Statement(p)
      PROVE  NumberInv'
  BY <1>2, <1>3, <1>4, <1>6, StatementQuiet, QuietPreserves DEF Statement
<1>7. ASSUME NEW q \in Queues, NEW s \in QueueStatus, UpdateQueue(q, s)
      PROVE  NumberInv'
  <2>1. [queue[q] EXCEPT !.status = s].seq = queue[q].seq
    BY DEF TypeOK, QueueRow
  <2> QED BY <1>7, <2>1, UpdateRowPreserves DEF UpdateQueue
<1>8. ASSUME NEW q \in Queues, NEW b \in BOOLEAN, SetQueueKioskMode(q, b)
      PROVE  NumberInv'
  <2>1. [queue[q] EXCEPT !.kiosk = b].seq = queue[q].seq
    BY DEF TypeOK, QueueRow
  <2> QED BY <1>8, <2>1, UpdateRowPreserves DEF SetQueueKioskMode
<1>9. CASE UNCHANGED vars
  BY <1>9 DEF vars, NumberInv, UniqueNumbers, Issued, Renumbered, TookNumber, HoldsSlip,
              NumberingQueue, At
<1> QED BY <1>5, <1>6, <1>7, <1>8, <1>9, CommitPreserves, AbortPreserves DEF Next

\* The numbering invariant holds of every behaviour.
THEOREM NumbersInOrder == Spec => []NumberInv
<1> QED BY TypeCorrect, NumberInit, NumberNext, PTL DEF Spec

\* No queue of any size ever gives two of its tickets the same number, however
\* many joins and transfers run at once and whichever of them are rolled back.
THEOREM NumbersUnique == Spec => []UniqueNumbers
<1>1. NumberInv => UniqueNumbers
  BY DEF NumberInv
<1> QED BY <1>1, NumbersInOrder, PTL

-----------------------------------------------------------------------------
\* The engine implements the dispenser.

\* The slip of each ticket, and the count of each queue.
Slips == [t \in Tickets |-> [queue |-> ticket[t].queue, number |-> ticket[t].number]]
Counts == [q \in Queues |-> queue[q].seq]

\* A step that issues nothing stutters, and a step that issues one number is
\* the dispenser's.
LEMMA IssueRefines ==
  ASSUME IssuesNothing \/ \E t \in Tickets, q \in Queues : Issues(t, q)
  PROVE  [Dispenser!Next]_<<Counts, Slips>>
<1>1. CASE IssuesNothing
  <2>1. Slips' = Slips /\ Counts' = Counts
    BY <1>1 DEF IssuesNothing, Slips, Counts
  <2> QED BY <2>1
<1>2. ASSUME NEW t \in Tickets, NEW q \in Queues, Issues(t, q)
      PROVE  Dispenser!Next
  <2>1. Counts' = [Counts EXCEPT ![q] = @ + 1]
    BY <1>2 DEF Issues, Counts
  <2>2. Slips' = [Slips EXCEPT ![t] = [queue |-> q, number |-> Counts[q] + 1]]
    BY <1>2 DEF Issues, Slips, Counts
  <2>3. Dispenser!Issue(t, q)
    BY <2>1, <2>2 DEF Dispenser!Issue, Slips, Counts
  <2> QED BY <2>3 DEF Dispenser!Next
<1> QED BY <1>1, <1>2

\* Only a commit and the update of one queue row write committed rows.
LEMMA StepIssues ==
  ASSUME TypeOK, NumberInv, [Next]_vars
  PROVE  IssuesNothing \/ \E t \in Tickets, q \in Queues : Issues(t, q)
<1>1. ASSUME UNCHANGED <<ticket, queue>>
      PROVE  IssuesNothing
  BY <1>1 DEF IssuesNothing
<1>2. ASSUME NEW p \in Procs, Request(p)
      PROVE  UNCHANGED <<ticket, queue>>
  BY <1>2 DEF Request, JoinQueue, CallNext, StartServing, CompleteService, MarkNoShow,
              CancelTicket, LeaveQueue, RecallTicket, ReadForTransition, ReadTicket,
              ReadForTransfer, SetQueueStatus, rows
<1>3. ASSUME NEW p \in Procs, Statement(p)
      PROVE  UNCHANGED <<ticket, queue>>
  BY <1>3 DEF Statement, InsertTicket, PickNext, UpdateTicket, LockTarget, MoveTicket,
              ClearCurrent, PointAt, ReadPositions, RankWaiting, WriteRank, NotifyPromoted,
              WriteStatus, rows
<1>4. ASSUME NEW p \in Procs, Abort(p)
      PROVE  UNCHANGED <<ticket, queue>>
  BY <1>4 DEF Abort
<1>5. ASSUME NEW q \in Queues, NEW row, row.seq = queue[q].seq, UpdateRow(q, row)
      PROVE  IssuesNothing
  BY <1>5 DEF UpdateRow, IssuesNothing, TypeOK
<1>6. ASSUME NEW q \in Queues, NEW s \in QueueStatus, UpdateQueue(q, s)
      PROVE  IssuesNothing
  <2>1. [queue[q] EXCEPT !.status = s].seq = queue[q].seq
    BY DEF TypeOK, QueueRow
  <2> QED BY <1>6, <2>1, <1>5 DEF UpdateQueue
<1>7. ASSUME NEW q \in Queues, NEW b \in BOOLEAN, SetQueueKioskMode(q, b)
      PROVE  IssuesNothing
  <2>1. [queue[q] EXCEPT !.kiosk = b].seq = queue[q].seq
    BY DEF TypeOK, QueueRow
  <2> QED BY <1>7, <2>1, <1>5 DEF SetQueueKioskMode
<1>8. CASE UNCHANGED vars
  BY <1>1, <1>8 DEF vars
<1> QED BY <1>1, <1>2, <1>3, <1>4, <1>6, <1>7, <1>8, CommitIssues DEF Next

\* Every behaviour of the engine, with any number of customers, queues and
\* overlapping requests, is a behaviour of the ticket dispenser.
THEOREM DispenserImplemented == Spec => ImplementsDispenser
<1>1. Init => Dispenser!Init
  <2> SUFFICES ASSUME Init PROVE Dispenser!Init
    OBVIOUS
  <2>1. \A q \in Queues : queue[q].seq = 0
    BY DEF Init
  <2>2. \A t \in Tickets : ticket[t].queue = NoQueue /\ ticket[t].number = 0
    BY DEF Init, NoRow
  <2> QED BY <2>1, <2>2 DEF Dispenser!Init
<1>2. TypeOK /\ NumberInv /\ [Next]_vars => [Dispenser!Next]_<<Counts, Slips>>
  BY StepIssues, IssueRefines
<1>3. TypeOK /\ NumberInv /\ [Next]_vars => [Dispenser!Next]_(Dispenser!vars)
  BY <1>2 DEF Slips, Counts, Dispenser!vars
<1> QED BY <1>1, <1>3, TypeCorrect, NumbersInOrder, PTL
        DEF Spec, ImplementsDispenser, Dispenser!Spec

-----------------------------------------------------------------------------
(***************************************************************************)
(* Calls: a customer has one active ticket per queue, a queue has one      *)
(* ticket CALLED, a ticket is called from WAITING, and only an OPEN queue  *)
(* admits anyone.  Three inductive invariants say what transactions in     *)
(* flight may hold for that.                                               *)
(***************************************************************************)

\* What keeps two active tickets of a customer apart while transactions overlap:
\* newest versions do not collide with each other, nor with a committed row that
\* another transaction may still put back.
ActiveInv ==
  /\ OneActivePerUserPerQueue
  /\ \A t, u \in Tickets : SameHolder(tnew[t], tnew[u]) => t = u
  /\ \A t, u \in Tickets : SameHolder(tnew[t], ticket[u]) /\ tlock[t] # tlock[u] => t = u

\* t has become CALLED in a transaction that has not committed.
BeingCalled(t) == /\ tnew[t].status = "CALLED"
                  /\ ~(ticket[t].status = "CALLED" /\ ticket[t].queue = tnew[t].queue)

\* Only a callNext that holds the queue's lock is calling a ticket, the one it
\* picked; and while it runs nobody is CALLED in that queue.
CallInv ==
  /\ OneCalled
  /\ \A t \in Tickets : BeingCalled(t) =>
       /\ tlock[t] \in Procs
       /\ txn[tlock[t]].op = "callNext"
       /\ txn[tlock[t]].t = t
       /\ txn[tlock[t]].q = tnew[t].queue
       /\ ticket[t].status = "WAITING"
       /\ ticket[t].queue = tnew[t].queue
  /\ \A p \in Procs : txn[p].op = "callNext" =>
       /\ txn[p].q \in Queues
       /\ qlock[txn[p].q] = p
       /\ \A t \in Tickets : ticket[t].queue = txn[p].q => ticket[t].status # "CALLED"
  /\ \A p \in Procs : At(p, "pick") => txn[p].op = "callNext"

\* A queue whose next number is taken and not committed is OPEN, and stays so
\* until the number is committed or given back.
OpenInv == \A q \in Queues : qnew[q].seq # queue[q].seq => queue[q].status = "OPEN"

-----------------------------------------------------------------------------
\* What the steps of a transaction in progress do.

\* Holding an active ticket with the same customer and queue is symmetric.
LEMMA SameHolderSymmetric ==
  ASSUME NEW r, NEW s, SameHolder(r, s)
  PROVE  SameHolder(s, r)
BY DEF SameHolder

\* A step that continues p leaves the locals of the others alone.
LEMMA ContinueSets ==
  ASSUME TypeOK, NEW p \in Procs, NEW locals, Continue(p, locals)
  PROVE  txn'[p] = locals /\ \A x \in Procs \ {p} : txn'[x] = txn[x]
BY DEF Continue, TypeOK

\* A new request touches no ticket row, and only callNext is at "pick" later.
QuietStart(p) == /\ At(p, "idle")
                 /\ UNCHANGED <<ticket, queue, tlock, tnew>>
                 /\ \A x \in Procs \ {p} : txn'[x] = txn[x]

\* A request that reaches the engine was idle, leaves the rows of tickets alone,
\* and starts with its own locals.
LEMMA RequestStarts ==
  ASSUME TypeOK, NEW p \in Procs, Request(p)
  PROVE  /\ QuietStart(p)
         /\ \/ txn'[p].op # "callNext" /\ txn'[p].pc # "pick"
            \/ \E q \in Queues : /\ CallNext(p, q)
                                 /\ txn'[p].op = "callNext"
                                 /\ txn'[p].q = q
<1>1. ASSUME NEW u \in Users \cup {Guest}, NEW q \in Queues, JoinQueue(p, u, q)
      PROVE  QuietStart(p) /\ txn'[p].op # "callNext" /\ txn'[p].pc # "pick"
  <2>1. txn'[p] = [Idle EXCEPT !.op = "joinQueue", !.pc = "insert", !.q = q, !.user = u]
        /\ \A x \in Procs \ {p} : txn'[x] = txn[x]
    BY <1>1, ContinueSets DEF JoinQueue
  <2>2. txn'[p].op = "joinQueue" /\ txn'[p].pc = "insert"
    BY <2>1 DEF Idle
  <2> QED BY <1>1, <2>1, <2>2 DEF JoinQueue, QuietStart, Begin, At
<1>2. ASSUME NEW q \in Queues, CallNext(p, q)
      PROVE  QuietStart(p) /\ txn'[p].op = "callNext" /\ txn'[p].q = q
  <2>1. txn'[p] = [Idle EXCEPT !.op = "callNext", !.pc = "pick", !.q = q]
        /\ \A x \in Procs \ {p} : txn'[x] = txn[x]
    BY <1>2, ContinueSets DEF CallNext
  <2>2. txn'[p].op = "callNext" /\ txn'[p].q = q
    BY <2>1 DEF Idle
  <2> QED BY <1>2, <2>1, <2>2 DEF CallNext, QuietStart, Begin, At
<1>3. ASSUME NEW op \in Operations \ {"callNext"}, NEW t \in Tickets, ReadTicket(p, op, t)
      PROVE  QuietStart(p) /\ txn'[p].op # "callNext" /\ txn'[p].pc # "pick"
  <2>1. txn'[p] = [Idle EXCEPT !.op = op, !.pc = "update", !.t = t,
                                !.q = ticket[t].queue, !.user = ticket[t].user]
        /\ \A x \in Procs \ {p} : txn'[x] = txn[x]
    BY <1>3, ContinueSets DEF ReadTicket
  <2>2. txn'[p].op = op /\ txn'[p].pc = "update"
    BY <2>1 DEF Idle
  <2> QED BY <1>3, <2>1, <2>2 DEF ReadTicket, QuietStart, Begin, At, rows
<1>4. ASSUME NEW t \in Tickets, NEW to \in Queues, ReadForTransfer(p, t, to)
      PROVE  QuietStart(p) /\ txn'[p].op # "callNext" /\ txn'[p].pc # "pick"
  <2>1. txn'[p] = [Idle EXCEPT !.op = "transferTicket", !.pc = "target", !.t = t,
                     !.q = ticket[t].queue, !.user = ticket[t].user, !.to = to]
        /\ \A x \in Procs \ {p} : txn'[x] = txn[x]
    BY <1>4, ContinueSets DEF ReadForTransfer
  <2>2. txn'[p].op = "transferTicket" /\ txn'[p].pc = "target"
    BY <2>1 DEF Idle
  <2> QED BY <1>4, <2>1, <2>2 DEF ReadForTransfer, QuietStart, Begin, At, rows
<1>5. ASSUME NEW q \in Queues, NEW s \in QueueStatus, SetQueueStatus(p, q, s)
      PROVE  QuietStart(p) /\ txn'[p].op # "callNext" /\ txn'[p].pc # "pick"
  <2>1. txn'[p] = [Idle EXCEPT !.op = "setQueueStatus", !.pc = "status", !.q = q,
                                !.seen = queue[q].status, !.want = s]
        /\ \A x \in Procs \ {p} : txn'[x] = txn[x]
    BY <1>5, ContinueSets DEF SetQueueStatus
  <2>2. txn'[p].op = "setQueueStatus" /\ txn'[p].pc = "status"
    BY <2>1 DEF Idle
  <2> QED BY <1>5, <2>1, <2>2 DEF SetQueueStatus, QuietStart, Begin, At, rows
<1> QED BY <1>1, <1>2, <1>3, <1>4, <1>5
        DEF Request, StartServing, CompleteService, MarkNoShow, CancelTicket, LeaveQueue,
            RecallTicket, ReadForTransition, Operations

\* A statement leaves committed rows, the other requests and what its own
\* request is about alone, and writes at most one ticket row.
StatementShape(p) ==
  /\ UNCHANGED <<ticket, queue>>
  /\ \A x \in Procs \ {p} : txn'[x] = txn[x]
  /\ txn'[p].op = txn[p].op
  /\ txn'[p].q = txn[p].q
  /\ txn'[p].pc # "pick"
  /\ txn'[p].t = txn[p].t \/ txn[p].pc \in {"insert", "pick"}

\* The row written to t takes no part in a call: it is not CALLED, or it stays
\* CALLED where it was.
NoCall(t, row) == \/ row.status # "CALLED"
                  \/ row.status = tnew[t].status /\ row.queue = tnew[t].queue

\* What every statement but PickNext does to tickets.
LEMMA StatementWrites ==
  ASSUME TypeOK, NEW p \in Procs, Statement(p), ~PickNext(p)
  PROVE  /\ StatementShape(p)
         /\ \/ UNCHANGED <<tlock, tnew>>
            \/ \E t \in Tickets : \E row : WriteTicket(p, t, row) /\ NoCall(t, row)
<1> DEFINE Goal == /\ StatementShape(p)
                   /\ \/ UNCHANGED <<tlock, tnew>>
                      \/ \E t \in Tickets : \E row : WriteTicket(p, t, row) /\ NoCall(t, row)
<1>0. txn[p] \in Locals /\ \A t \in Tickets : tnew[t] \in TicketRow
  BY DEF TypeOK
<1>1. ASSUME InsertTicket(p)
      PROVE  Goal
  <2>1. PICK t, row, told :
          /\ t \in Tickets
          /\ row.status = "WAITING"
          /\ WriteTicket(p, t, row)
          /\ Continue(p, [txn[p] EXCEPT !.pc = "commit", !.t = t, !.notices = told])
    BY <1>1 DEF InsertTicket
  <2>2. /\ txn'[p] = [txn[p] EXCEPT !.pc = "commit", !.t = t, !.notices = told]
        /\ \A x \in Procs \ {p} : txn'[x] = txn[x]
    BY <2>1, ContinueSets
  <2>3. StatementShape(p)
    BY <1>0, <1>1, <2>2 DEF InsertTicket, StatementShape, Locals, At
  <2> QED BY <2>1, <2>3 DEF NoCall
<1>2. ASSUME UpdateTicket(p)
      PROVE  Goal
  <2> DEFINE t == txn[p].t
             op == txn[p].op
             row == UpdatedRow(op, tnew[t])
  <2>1. op \in {"recallTicket", "startServing", "completeService", "markNoShow",
                "cancelTicket", "leaveQueue"}
    BY <1>2 DEF UpdateTicket, NoticeType
  <2>2. PICK label \in {"point", "commit", "clear"} : \E told :
          Continue(p, [txn[p] EXCEPT !.pc = label, !.notices = told])
    <3>1. PICK label : label = CASE op = "startServing" -> "point"
                                 [] op = "recallTicket" -> "commit"
                                 [] OTHER -> "clear"
      OBVIOUS
    <3>2. label \in {"point", "commit", "clear"}
      BY <2>1, <3>1
    <3>3. Continue(p, [txn[p] EXCEPT !.pc = label, !.notices = Notice(t, txn[p].user, NoticeType[op])])
      BY <1>2, <3>1 DEF UpdateTicket
    <3> QED BY <3>2, <3>3
  <2>3. PICK told : /\ txn'[p] = [txn[p] EXCEPT !.pc = label, !.notices = told]
                    /\ \A x \in Procs \ {p} : txn'[x] = txn[x]
    BY <2>2, ContinueSets
  <2>4. StatementShape(p)
    BY <1>0, <1>2, <2>2, <2>3 DEF UpdateTicket, StatementShape, Locals
  <2>5. WriteTicket(p, t, row)
    BY <1>2 DEF UpdateTicket
  <2>6. CASE t \in Tickets
    <3>1. NoCall(t, row)
      <4>1. tnew[t] \in TicketRow
        BY <1>0, <2>6
      <4>2. CASE op = "recallTicket"
        BY <4>2, <2>1 DEF UpdatedRow, NoCall
      <4>3. CASE op # "recallTicket"
        <5>1. Target[op] # "CALLED"
          BY <2>1, <4>3 DEF Target
        <5>2. row.status = Target[op]
          BY <2>1, <4>1, <4>3 DEF UpdatedRow, TicketRow
        <5> QED BY <5>1, <5>2 DEF NoCall
      <4> QED BY <4>2, <4>3
    <3> HIDE DEF t, row
    <3> QED BY <2>4, <2>5, <2>6, <3>1
  <2>7. CASE t \notin Tickets
    <3>1. UNCHANGED <<tlock, tnew>>
      BY <2>5, <2>7 DEF WriteTicket, TypeOK
    <3> QED BY <2>4, <3>1
  <2> QED BY <2>6, <2>7
<1>3. ASSUME LockTarget(p)
      PROVE  Goal
  <2>1. /\ txn'[p] = [txn[p] EXCEPT !.pc = "move"]
        /\ \A x \in Procs \ {p} : txn'[x] = txn[x]
    BY <1>3, ContinueSets DEF LockTarget
  <2> QED BY <1>0, <1>3, <2>1 DEF LockTarget, StatementShape, Locals
<1>4. ASSUME MoveTicket(p)
      PROVE  Goal
  <2> DEFINE t == txn[p].t
             row == MovedRow(tnew[t], txn[p].to)
  <2>1. PICK told : /\ txn'[p] = [txn[p] EXCEPT !.pc = "clear", !.notices = told]
                    /\ \A x \in Procs \ {p} : txn'[x] = txn[x]
    BY <1>4, ContinueSets DEF MoveTicket
  <2>2. StatementShape(p)
    BY <1>0, <1>4, <2>1 DEF MoveTicket, StatementShape, Locals
  <2>3. t \in Tickets /\ WriteTicket(p, t, row)
    BY <1>4 DEF MoveTicket, TypeOK, At
  <2>4. NoCall(t, row)
    BY <1>0, <2>3 DEF MovedRow, TicketRow, NoCall
  <2> QED BY <2>2, <2>3, <2>4
<1>5. ASSUME ClearCurrent(p)
      PROVE  Goal
  <2>1. /\ txn'[p] = [txn[p] EXCEPT !.pc = "before", !.rq = txn[p].q]
        /\ \A x \in Procs \ {p} : txn'[x] = txn[x]
    BY <1>5, ContinueSets DEF ClearCurrent
  <2> QED BY <1>0, <1>5, <2>1 DEF ClearCurrent, StatementShape, Locals
<1>6. ASSUME PointAt(p)
      PROVE  Goal
  <2>1. PICK label \in {"before", "commit"} : \E rq :
          Continue(p, [txn[p] EXCEPT !.pc = label, !.rq = rq])
    <3>1. CASE txn[p].op = "callNext"
      BY <1>6, <3>1 DEF PointAt
    <3>2. CASE txn[p].op # "callNext"
      <4>1. [txn[p] EXCEPT !.pc = "commit"] = [txn[p] EXCEPT !.pc = "commit", !.rq = txn[p].rq]
        BY <1>0 DEF Locals
      <4> QED BY <1>6, <3>2, <4>1 DEF PointAt
    <3> QED BY <3>1, <3>2
  <2>2. PICK rq : /\ txn'[p] = [txn[p] EXCEPT !.pc = label, !.rq = rq]
                  /\ \A x \in Procs \ {p} : txn'[x] = txn[x]
    BY <2>1, ContinueSets
  <2> QED BY <1>0, <1>6, <2>2 DEF PointAt, StatementShape, Locals
<1>7. ASSUME ReadPositions(p)
      PROVE  Goal
  <2>1. PICK before : /\ txn'[p] = [txn[p] EXCEPT !.pc = "rank", !.before = before]
                      /\ \A x \in Procs \ {p} : txn'[x] = txn[x]
    BY <1>7, ContinueSets DEF ReadPositions
  <2> QED BY <1>0, <1>7, <2>1 DEF ReadPositions, StatementShape, Locals, rows
<1>8. ASSUME RankWaiting(p)
      PROVE  Goal
  <2>1. PICK ranks : /\ txn'[p] = [txn[p] EXCEPT !.pc = "write", !.ranks = ranks]
                     /\ \A x \in Procs \ {p} : txn'[x] = txn[x]
    BY <1>8, ContinueSets DEF RankWaiting
  <2> QED BY <1>0, <1>8, <2>1 DEF RankWaiting, StatementShape, Locals, rows
<1>9. ASSUME WriteRank(p)
      PROVE  Goal
  <2>1. PICK t \in Tickets :
          /\ WriteTicket(p, t, [tnew[t] EXCEPT !.position = txn[p].ranks[t]])
          /\ Continue(p, [txn[p] EXCEPT !.ranks[t] = 0])
    BY <1>9 DEF WriteRank
  <2>2. /\ txn'[p] = [txn[p] EXCEPT !.ranks[t] = 0]
        /\ \A x \in Procs \ {p} : txn'[x] = txn[x]
    BY <2>1, ContinueSets
  <2>3. StatementShape(p)
    BY <1>0, <1>9, <2>2 DEF WriteRank, StatementShape, Locals, At
  <2>4. NoCall(t, [tnew[t] EXCEPT !.position = txn[p].ranks[t]])
    BY <1>0 DEF NoCall, TicketRow
  <2> QED BY <2>1, <2>3, <2>4
<1>10. ASSUME NotifyPromoted(p)
       PROVE  Goal
  <2>1. PICK label \in {"before", "commit"} : \E rq, before, told :
          Continue(p, [txn[p] EXCEPT !.pc = label, !.rq = rq, !.before = before,
                                     !.notices = told])
    BY <1>10 DEF NotifyPromoted
  <2>2. PICK rq, before, told :
          Continue(p, [txn[p] EXCEPT !.pc = label, !.rq = rq, !.before = before,
                                     !.notices = told])
    BY <2>1
  <2>3. /\ txn'[p] = [txn[p] EXCEPT !.pc = label, !.rq = rq, !.before = before,
                                    !.notices = told]
        /\ \A x \in Procs \ {p} : txn'[x] = txn[x]
    BY <2>2, ContinueSets
  <2> QED BY <1>0, <1>10, <2>3 DEF NotifyPromoted, StatementShape, Locals, rows
<1>11. ASSUME WriteStatus(p)
       PROVE  Goal
  <2>1. /\ txn'[p] = [txn[p] EXCEPT !.pc = "commit", !.notices = StatusNotices(p)]
        /\ \A x \in Procs \ {p} : txn'[x] = txn[x]
    BY <1>11, ContinueSets DEF WriteStatus
  <2> QED BY <1>0, <1>11, <2>1 DEF WriteStatus, StatementShape, Locals
<1> HIDE DEF Goal
<1>12. Goal
  BY <1>1, <1>2, <1>3, <1>4, <1>5, <1>6, <1>7, <1>8, <1>9, <1>10, <1>11 DEF Statement
<1> QED BY <1>12 DEF Goal

-----------------------------------------------------------------------------
\* One active ticket per customer and queue.

\* Writing a ticket row waits for, or refuses, an active twin of it.
LEMMA WriteKeepsActive ==
  ASSUME TypeOK, NumberInv, ActiveInv, NEW p \in Procs, UNCHANGED ticket,
         \/ UNCHANGED <<tlock, tnew>>
         \/ \E t \in Tickets : \E row : WriteTicket(p, t, row)
  PROVE  ActiveInv'
<1>1. CASE UNCHANGED <<tlock, tnew>>
  BY <1>1 DEF ActiveInv, OneActivePerUserPerQueue
<1>2. ASSUME NEW t \in Tickets, NEW row, WriteTicket(p, t, row)
      PROVE  ActiveInv'
  <2>1. /\ tlock[t] \in {NoProc, p} /\ tlock'[t] = p /\ tnew'[t] = row
        /\ \A u \in Tickets \ {t} : tlock'[u] = tlock[u] /\ tnew'[u] = tnew[u]
    BY <1>2 DEF WriteTicket, TypeOK
  <2>2. \A u \in Tickets \ {t} : ~SameHolder(tnew[u], row) /\ ~SameHolder(row, tnew[u])
    BY <1>2, SameHolderSymmetric DEF WriteTicket, ActiveTwin
  <2>3. ASSUME NEW u \in Tickets \ {t}, tlock[u] # p
        PROVE  ~SameHolder(row, ticket[u])
    <3>1. CASE tlock[u] = NoProc
      BY <3>1, <2>2 DEF NumberInv
    <3>2. CASE tlock[u] # NoProc
      BY <1>2, <2>3, <3>2, SameHolderSymmetric DEF WriteTicket, ActiveTwin
    <3> QED BY <3>1, <3>2
  <2>4. ASSUME NEW u \in Tickets \ {t}, tlock[u] # p
        PROVE  ~SameHolder(tnew[u], ticket[t])
    <3>1. CASE tlock[t] = NoProc
      BY <3>1 DEF NumberInv, ActiveInv
    <3>2. CASE tlock[t] = p
      BY <2>4, <3>2 DEF ActiveInv
    <3> QED BY <2>1, <3>1, <3>2
  <2>5. OneActivePerUserPerQueue'
    BY DEF ActiveInv, OneActivePerUserPerQueue
  <2>6. \A u, v \in Tickets : SameHolder(tnew[u], tnew[v])' => u = v
    BY <2>1, <2>2 DEF ActiveInv
  <2>7. \A u, v \in Tickets : SameHolder(tnew[u], ticket[v])' /\ tlock'[u] # tlock'[v] => u = v
    BY <2>1, <2>3, <2>4 DEF ActiveInv
  <2> QED BY <2>5, <2>6, <2>7 DEF ActiveInv
<1> QED BY <1>1, <1>2

\* The end of a transaction makes committed, or puts back, what no other row
\* collides with.
LEMMA EndKeepsActive ==
  ASSUME TypeOK, NumberInv, ActiveInv, NEW p \in Procs, Commit(p) \/ Abort(p)
  PROVE  ActiveInv'
<1>1. \A t \in Tickets : /\ tlock[t] # p => /\ ticket'[t] = ticket[t]
                                            /\ tnew'[t] = tnew[t]
                                            /\ tlock'[t] = tlock[t]
                         /\ tlock[t] = p => tnew'[t] = ticket'[t] /\ tlock'[t] = NoProc
  BY DEF Commit, Abort, NumberInv
<1>2. \/ \A t \in Tickets : tlock[t] = p => ticket'[t] = tnew[t]
      \/ \A t \in Tickets : tlock[t] = p => ticket'[t] = ticket[t]
  BY DEF Commit, Abort
<1>3. \A t \in Tickets : tlock[t] = NoProc => tnew[t] = ticket[t]
  BY DEF NumberInv
<1>4. OneActivePerUserPerQueue'
  <2> SUFFICES ASSUME NEW t \in Tickets, NEW u \in Tickets, t # u
               PROVE  ~SameHolder(ticket'[t], ticket'[u])
    BY DEF OneActivePerUserPerQueue
  <2>1. \/ ticket'[t] = ticket[t] /\ ticket'[u] = ticket[u]
        \/ ticket'[t] = tnew[t] /\ ticket'[u] = tnew[u]
        \/ tlock[t] = p /\ tlock[u] # p /\ ticket'[t] = tnew[t] /\ ticket'[u] = ticket[u]
        \/ tlock[t] # p /\ tlock[u] = p /\ ticket'[t] = ticket[t] /\ ticket'[u] = tnew[u]
    BY <1>1, <1>2
  <2> QED BY <2>1, SameHolderSymmetric DEF ActiveInv, OneActivePerUserPerQueue
<1>5. \A t, u \in Tickets : SameHolder(tnew'[t], tnew'[u]) => t = u
  <2> SUFFICES ASSUME NEW t \in Tickets, NEW u \in Tickets, t # u
               PROVE  ~SameHolder(tnew'[t], tnew'[u])
    OBVIOUS
  <2>1. CASE tlock[t] = p /\ tlock[u] = p
    BY <1>1, <1>4, <2>1 DEF OneActivePerUserPerQueue
  <2>2. CASE tlock[t] = p /\ tlock[u] # p
    <3>1. tnew'[u] = tnew[u] /\ tnew'[t] \in {tnew[t], ticket[t]}
      BY <1>1, <1>2, <2>2
    <3> QED BY <2>2, <3>1, SameHolderSymmetric DEF ActiveInv
  <2>3. CASE tlock[t] # p /\ tlock[u] = p
    <3>1. tnew'[t] = tnew[t] /\ tnew'[u] \in {tnew[u], ticket[u]}
      BY <1>1, <1>2, <2>3
    <3> QED BY <2>3, <3>1 DEF ActiveInv
  <2>4. CASE tlock[t] # p /\ tlock[u] # p
    BY <1>1, <2>4 DEF ActiveInv
  <2> QED BY <2>1, <2>2, <2>3, <2>4
<1>6. \A t, u \in Tickets : SameHolder(tnew'[t], ticket'[u]) /\ tlock'[t] # tlock'[u] => t = u
  <2> SUFFICES ASSUME NEW t \in Tickets, NEW u \in Tickets, t # u, tlock'[t] # tlock'[u]
               PROVE  ~SameHolder(tnew'[t], ticket'[u])
    OBVIOUS
  <2>1. CASE tlock'[u] = NoProc
    <3>1. ticket'[u] = tnew'[u]
      BY <1>1, <1>3, <2>1
    <3> QED BY <3>1, <1>5
  <2>2. CASE tlock'[u] # NoProc
    <3>1. tlock[u] # p /\ tlock[u] = tlock'[u] /\ ticket'[u] = ticket[u] /\ tnew'[u] = tnew[u]
      BY <1>1, <2>2
    <3>2. tnew'[t] \in {tnew[t], ticket[t]}
      BY <1>1, <1>2
    <3>3. CASE tlock[t] = tlock[u]
      BY <1>1, <3>1, <3>3
    <3>4. CASE tlock[t] # tlock[u]
      BY <3>1, <3>2, <3>4 DEF ActiveInv, OneActivePerUserPerQueue
    <3> QED BY <3>3, <3>4
  <2> QED BY <2>1, <2>2
<1> QED BY <1>4, <1>5, <1>6 DEF ActiveInv

\* An update of one queue row touches no ticket.
LEMMA UpdateRowTickets ==
  ASSUME NEW q \in Queues, \/ \E s \in QueueStatus : UpdateQueue(q, s)
                           \/ \E b \in BOOLEAN : SetQueueKioskMode(q, b)
  PROVE  UNCHANGED <<ticket, tlock, tnew, qlock, txn>> /\ qlock[q] = NoProc
BY DEF UpdateQueue, SetQueueKioskMode, UpdateRow

\* Every step keeps active tickets apart.
LEMMA ActiveNext == TypeOK /\ NumberInv /\ ActiveInv /\ [Next]_vars => ActiveInv'
<1> SUFFICES ASSUME TypeOK, NumberInv, ActiveInv, [Next]_vars
             PROVE  ActiveInv'
  OBVIOUS
<1>1. ASSUME NEW p \in Procs, Request(p)
      PROVE  ActiveInv'
  BY <1>1, RequestStarts, WriteKeepsActive DEF QuietStart
<1>2. ASSUME NEW p \in Procs, Statement(p)
      PROVE  ActiveInv'
  <2>1. CASE PickNext(p)
    BY <2>1, WriteKeepsActive DEF PickNext, NextInLine, Callable
  <2>2. CASE ~PickNext(p)
    BY <1>2, <2>2, StatementWrites, WriteKeepsActive DEF StatementShape
  <2> QED BY <2>1, <2>2
<1>3. ASSUME UNCHANGED <<ticket, tlock, tnew>>
      PROVE  ActiveInv'
  BY <1>3 DEF ActiveInv, OneActivePerUserPerQueue
<1> QED BY <1>1, <1>2, <1>3, EndKeepsActive, UpdateRowTickets DEF Next, vars

\* However joins, transfers and transitions overlap, and whichever of them are
\* rolled back, no customer holds two active tickets in one queue.
THEOREM OneActiveTicket == Spec => []OneActivePerUserPerQueue
<1>1. Init => ActiveInv
  BY DEF Init, NoRow, ActiveInv, OneActivePerUserPerQueue, SameHolder
<1>2. ActiveInv => OneActivePerUserPerQueue
  BY DEF ActiveInv
<1> QED BY <1>1, <1>2, ActiveNext, TypeCorrect, NumbersInOrder, PTL DEF Spec

-----------------------------------------------------------------------------
\* One CALLED ticket per queue.

\* A step of p that calls nobody: whatever row it writes, it leaves every call
\* in progress, its own included, as it was.
CallsNobody(p) ==
  /\ ticket' = ticket
  /\ \A x \in Procs \ {p} : txn'[x] = txn[x]
  /\ \A q \in Queues, x \in Procs : qlock[q] = x => qlock'[q] = x
  /\ txn'[p].op = "callNext" => /\ txn[p].op = "callNext"
                                /\ txn'[p].q = txn[p].q
  /\ txn[p].op = "callNext" /\ (\E t \in Tickets : tlock[t] = p) =>
       /\ txn'[p].op = "callNext"
       /\ txn'[p].t = txn[p].t
  /\ txn'[p].pc # "pick"
  /\ \/ UNCHANGED <<tlock, tnew>>
     \/ \E t \in Tickets : \E row : WriteTicket(p, t, row) /\ NoCall(t, row)

\* A step that calls nobody keeps the invariant.
LEMMA CallsNobodyKeeps ==
  ASSUME TypeOK, NumberInv, CallInv, NEW p \in Procs, CallsNobody(p)
  PROVE  CallInv'
<1>1. OneCalled'
  BY DEF CallInv, OneCalled, CallsNobody
<1>2. \A t \in Tickets : tlock[t] = NoProc => tnew[t] = ticket[t]
  BY DEF NumberInv
<1>3. ASSUME NEW t \in Tickets, BeingCalled(t)'
      PROVE  BeingCalled(t) /\ tlock'[t] = tlock[t] /\ tnew'[t].queue = tnew[t].queue
  <2>1. CASE UNCHANGED <<tlock, tnew>>
    BY <1>3, <2>1 DEF CallsNobody, BeingCalled
  <2>2. ASSUME NEW u \in Tickets, NEW row, WriteTicket(p, u, row), NoCall(u, row)
        PROVE  BeingCalled(t) /\ tlock'[t] = tlock[t] /\ tnew'[t].queue = tnew[t].queue
    <3>1. /\ tlock[u] \in {NoProc, p} /\ tlock'[u] = p /\ tnew'[u] = row
          /\ \A v \in Tickets \ {u} : tlock'[v] = tlock[v] /\ tnew'[v] = tnew[v]
      BY <2>2 DEF WriteTicket, TypeOK
    <3>2. CASE t # u
      BY <1>3, <3>1, <3>2 DEF CallsNobody, BeingCalled
    <3>3. CASE t = u
      <4>1. row.status = "CALLED" /\ tnew[t].status = "CALLED" /\ row.queue = tnew[t].queue
        BY <1>3, <2>2, <3>1, <3>3 DEF BeingCalled, NoCall
      <4>2. BeingCalled(t)
        BY <1>3, <3>1, <3>3, <4>1 DEF BeingCalled, CallsNobody
      <4>3. tlock[t] # NoProc
        BY <4>2, <1>2 DEF BeingCalled
      <4> QED BY <3>1, <3>3, <4>1, <4>2, <4>3
    <3> QED BY <3>2, <3>3
  <2> QED BY <2>1, <2>2 DEF CallsNobody
<1>4. ASSUME NEW t \in Tickets, BeingCalled(t)'
      PROVE  /\ tlock'[t] \in Procs
             /\ txn'[tlock'[t]].op = "callNext"
             /\ txn'[tlock'[t]].t = t
             /\ txn'[tlock'[t]].q = tnew'[t].queue
             /\ ticket'[t].status = "WAITING"
             /\ ticket'[t].queue = tnew'[t].queue
  <2>1. PICK x \in Procs : /\ x = tlock[t]
                           /\ txn[x].op = "callNext" /\ txn[x].t = t
                           /\ txn[x].q = tnew[t].queue
                           /\ ticket[t].status = "WAITING"
                           /\ ticket[t].queue = tnew[t].queue
    BY <1>3, <1>4 DEF CallInv
  <2>2. txn'[x].op = "callNext" /\ txn'[x].t = t /\ txn'[x].q = txn[x].q
    BY <2>1 DEF CallsNobody
  <2> QED BY <1>3, <1>4, <2>1, <2>2 DEF CallsNobody
<1>5. ASSUME NEW x \in Procs, txn'[x].op = "callNext"
      PROVE  /\ txn'[x].q \in Queues
             /\ qlock'[txn'[x].q] = x
             /\ \A t \in Tickets : ticket'[t].queue = txn'[x].q => ticket'[t].status # "CALLED"
  <2>1. txn[x].op = "callNext" /\ txn'[x].q = txn[x].q
    BY <1>5 DEF CallsNobody
  <2> QED BY <2>1 DEF CallInv, CallsNobody
<1>6. \A x \in Procs : At(x, "pick")' => txn'[x].op = "callNext"
  BY DEF CallInv, CallsNobody, At
<1> QED BY <1>1, <1>4, <1>5, <1>6 DEF CallInv

\* A statement or a lock of a queue row never takes the lock from its holder.
LEMMA QueueLocksHeld ==
  ASSUME TypeOK, NEW p \in Procs, Request(p) \/ Statement(p)
  PROVE  \A q \in Queues, x \in Procs : qlock[q] = x => qlock'[q] = x
<1>1. ASSUME NEW n, NEW row, WriteQueue(p, n, row)
      PROVE  \A q \in Queues, x \in Procs : qlock[q] = x => qlock'[q] = x
  BY <1>1, ConstantsOK DEF WriteQueue, QueueRowFree, TypeOK
<1>2. CASE Request(p)
  BY <1>1, <1>2 DEF Request, JoinQueue, CallNext, StartServing, CompleteService, MarkNoShow,
     CancelTicket, LeaveQueue, RecallTicket, ReadForTransition, ReadTicket, ReadForTransfer,
     SetQueueStatus, rows
<1>3. CASE Statement(p)
  BY <1>1, <1>3 DEF Statement, InsertTicket, PickNext, UpdateTicket, LockTarget, MoveTicket,
     ClearCurrent, PointAt, ReadPositions, RankWaiting, WriteRank, NotifyPromoted,
     WriteStatus, rows
<1> QED BY <1>2, <1>3

\* callNext locks the queue's row and then finds nobody in progress in it.
LEMMA CallNextKeeps ==
  ASSUME TypeOK, NumberInv, CallInv, NEW p \in Procs, NEW q \in Queues, CallNext(p, q)
  PROVE  CallInv'
<1>1. /\ txn'[p] = [Idle EXCEPT !.op = "callNext", !.pc = "pick", !.q = q]
      /\ \A x \in Procs \ {p} : txn'[x] = txn[x]
      /\ UNCHANGED <<ticket, tlock, tnew>>
  BY ContinueSets DEF CallNext
<1>2. txn'[p].op = "callNext" /\ txn'[p].q = q
  BY <1>1 DEF Idle
<1>3. \A t \in Tickets : tlock[t] # p
  BY DEF NumberInv, CallNext, Begin, NoTicketLocked
<1>4. \A n \in Queues, x \in Procs : qlock[n] = x => qlock'[n] = x
  BY QueueLocksHeld DEF Request
<1>5. qlock'[q] = p
  BY DEF CallNext, WriteQueue, TypeOK
<1>6. \A t \in Tickets : ticket[t].queue = q => ticket[t].status # "CALLED"
  BY DEF CallNext, CounterBusy, IN_PROGRESS_STATUSES
<1>7. OneCalled'
  BY <1>1 DEF CallInv, OneCalled
<1>8. ASSUME NEW t \in Tickets, BeingCalled(t)'
      PROVE  /\ tlock'[t] \in Procs
             /\ txn'[tlock'[t]].op = "callNext"
             /\ txn'[tlock'[t]].t = t
             /\ txn'[tlock'[t]].q = tnew'[t].queue
             /\ ticket'[t].status = "WAITING"
             /\ ticket'[t].queue = tnew'[t].queue
  <2>1. BeingCalled(t)
    BY <1>1, <1>8 DEF BeingCalled
  <2>2. tlock[t] \in Procs \ {p}
    BY <2>1, <1>3 DEF CallInv
  <2>3. txn'[tlock[t]] = txn[tlock[t]]
    BY <1>1, <2>2
  <2> QED BY <2>1, <2>2, <2>3, <1>1 DEF CallInv
<1>9. ASSUME NEW x \in Procs, txn'[x].op = "callNext"
      PROVE  /\ txn'[x].q \in Queues
             /\ qlock'[txn'[x].q] = x
             /\ \A t \in Tickets : ticket'[t].queue = txn'[x].q => ticket'[t].status # "CALLED"
  <2>1. CASE x = p
    BY <2>1, <1>1, <1>2, <1>5, <1>6
  <2>2. CASE x # p
    BY <2>2, <1>1, <1>4, <1>9 DEF CallInv
  <2> QED BY <2>1, <2>2
<1>10. \A x \in Procs : At(x, "pick")' => txn'[x].op = "callNext"
  BY <1>1, <1>2 DEF CallInv, At
<1> QED BY <1>7, <1>8, <1>9, <1>10 DEF CallInv

\* The pick turns one WAITING ticket of the locked queue into the one being
\* called.
LEMMA PickNextKeeps ==
  ASSUME TypeOK, NumberInv, CallInv, NEW p \in Procs, PickNext(p)
  PROVE  CallInv'
<1>1. PICK t \in Tickets :
        /\ t \in Callable(txn[p].q)
        /\ WriteTicket(p, t, [tnew[t] EXCEPT !.status = "CALLED", !.position = 0])
        /\ Continue(p, [txn[p] EXCEPT !.pc = "point", !.t = t,
                          !.notices = Notice(t, tnew[t].user, "CUSTOMER_CALLED")])
  BY DEF PickNext, NextInLine, Callable
<1>2. /\ txn'[p].pc = "point" /\ txn'[p].t = t
      /\ txn'[p].op = txn[p].op /\ txn'[p].q = txn[p].q
      /\ \A x \in Procs \ {p} : txn'[x] = txn[x]
  <2>1. txn[p] \in Locals
    BY DEF TypeOK
  <2>2. /\ txn'[p] = [txn[p] EXCEPT !.pc = "point", !.t = t,
                        !.notices = Notice(t, tnew[t].user, "CUSTOMER_CALLED")]
        /\ \A x \in Procs \ {p} : txn'[x] = txn[x]
    BY <1>1, ContinueSets
  <2> QED BY <2>1, <2>2 DEF Locals
<1>3. txn[p].op = "callNext"
  BY DEF CallInv, PickNext
<1>4. /\ ticket[t].status = "WAITING" /\ ticket[t].queue = txn[p].q
      /\ tnew[t] = ticket[t]
  BY <1>1 DEF Callable, NumberInv
<1>5. /\ tlock'[t] = p /\ tnew'[t].queue = txn[p].q
      /\ \A u \in Tickets \ {t} : tlock'[u] = tlock[u] /\ tnew'[u] = tnew[u]
  BY <1>1, <1>4 DEF WriteTicket, TypeOK, TicketRow
<1>6. UNCHANGED <<ticket, qlock>> /\ \A u \in Tickets : tlock[u] # p
  BY DEF PickNext, NumberInv, NoTicketLocked, At
<1>7. OneCalled'
  BY <1>6 DEF CallInv, OneCalled
<1>8. ASSUME NEW u \in Tickets, BeingCalled(u)'
      PROVE  /\ tlock'[u] \in Procs
             /\ txn'[tlock'[u]].op = "callNext"
             /\ txn'[tlock'[u]].t = u
             /\ txn'[tlock'[u]].q = tnew'[u].queue
             /\ ticket'[u].status = "WAITING"
             /\ ticket'[u].queue = tnew'[u].queue
  <2>1. CASE u = t
    BY <2>1, <1>2, <1>3, <1>4, <1>5, <1>6
  <2>2. CASE u # t
    <3>1. BeingCalled(u)
      BY <1>5, <1>6, <1>8, <2>2 DEF BeingCalled
    <3>2. tlock[u] \in Procs \ {p}
      BY <3>1, <1>6 DEF CallInv
    <3>3. txn'[tlock[u]] = txn[tlock[u]]
      BY <1>2, <3>2
    <3> QED BY <3>1, <3>2, <3>3, <1>5, <1>6, <2>2 DEF CallInv
  <2> QED BY <2>1, <2>2
<1>9. ASSUME NEW x \in Procs, txn'[x].op = "callNext"
      PROVE  /\ txn'[x].q \in Queues
             /\ qlock'[txn'[x].q] = x
             /\ \A u \in Tickets : ticket'[u].queue = txn'[x].q => ticket'[u].status # "CALLED"
  BY <1>2, <1>3, <1>6, <1>9 DEF CallInv
<1>10. \A x \in Procs : At(x, "pick")' => txn'[x].op = "callNext"
  BY <1>2, <1>3 DEF CallInv, At
<1> QED BY <1>7, <1>8, <1>9, <1>10 DEF CallInv

\* What a commit makes of tickets, when the invariant holds before it: a ticket
\* newly CALLED was WAITING where it is called, and its caller held the queue.
LEMMA CommitCalls ==
  ASSUME TypeOK, NumberInv, CallInv, NEW p \in Procs, Commit(p), NEW t \in Tickets,
         ticket'[t].status = "CALLED",
         ~(ticket[t].status = "CALLED" /\ ticket[t].queue = ticket'[t].queue)
  PROVE  /\ tlock[t] = p
         /\ txn[p].op = "callNext"
         /\ txn[p].t = t
         /\ txn[p].q = ticket'[t].queue
         /\ ticket[t].status = "WAITING"
         /\ ticket[t].queue = ticket'[t].queue
<1>1. ticket'[t] = IF tlock[t] = p THEN tnew[t] ELSE ticket[t]
  BY DEF Commit
<1>2. tlock[t] = p /\ ticket'[t] = tnew[t] /\ BeingCalled(t)
  BY <1>1 DEF BeingCalled
<1> QED BY <1>2 DEF CallInv

\* Commit and Abort keep the invariant.
LEMMA EndKeepsCalls ==
  ASSUME TypeOK, NumberInv, CallInv, NEW p \in Procs, Commit(p) \/ Abort(p)
  PROVE  CallInv'
<1>1. /\ \A t \in Tickets : /\ tlock[t] # p => /\ ticket'[t] = ticket[t]
                                               /\ tnew'[t] = tnew[t]
                                               /\ tlock'[t] = tlock[t]
                            /\ tlock[t] = p => tnew'[t] = ticket'[t]
      /\ \A q \in Queues, x \in Procs \ {p} : qlock[q] = x => qlock'[q] = x
      /\ txn'[p] = Idle
      /\ \A x \in Procs \ {p} : txn'[x] = txn[x]
  BY DEF Commit, Abort, TypeOK
<1>2. ASSUME NEW t \in Tickets, ticket'[t].status = "CALLED",
             ~(ticket[t].status = "CALLED" /\ ticket[t].queue = ticket'[t].queue)
      PROVE  /\ txn[p].op = "callNext"
             /\ txn[p].t = t
             /\ txn[p].q = ticket'[t].queue
  <2>1. CASE Commit(p)
    BY <1>2, <2>1, CommitCalls
  <2>2. CASE Abort(p)
    BY <1>2, <2>2 DEF Abort
  <2> QED BY <2>1, <2>2
<1>3. OneCalled'
  <2> SUFFICES ASSUME NEW t \in Tickets, NEW u \in Tickets,
                      ticket'[t].queue = ticket'[u].queue,
                      ticket'[t].status = "CALLED", ticket'[u].status = "CALLED"
               PROVE  t = u
    BY DEF OneCalled
  <2> DEFINE old(v) == ticket[v].status = "CALLED" /\ ticket[v].queue = ticket'[v].queue
  <2>1. CASE old(t) /\ old(u)
    BY <2>1 DEF CallInv, OneCalled
  <2>2. CASE ~old(t) /\ old(u)
    BY <2>2, <1>2 DEF CallInv
  <2>3. CASE old(t) /\ ~old(u)
    BY <2>3, <1>2 DEF CallInv
  <2>4. CASE ~old(t) /\ ~old(u)
    BY <2>4, <1>2
  <2> QED BY <2>1, <2>2, <2>3, <2>4
<1>4. ASSUME NEW t \in Tickets, BeingCalled(t)'
      PROVE  /\ tlock'[t] \in Procs
             /\ txn'[tlock'[t]].op = "callNext"
             /\ txn'[tlock'[t]].t = t
             /\ txn'[tlock'[t]].q = tnew'[t].queue
             /\ ticket'[t].status = "WAITING"
             /\ ticket'[t].queue = tnew'[t].queue
  <2>1. tlock[t] # p
    BY <1>1, <1>4 DEF BeingCalled
  <2>2. BeingCalled(t)
    BY <1>1, <1>4, <2>1 DEF BeingCalled
  <2>3. tlock[t] \in Procs \ {p} /\ txn'[tlock[t]] = txn[tlock[t]]
    BY <1>1, <2>1, <2>2 DEF CallInv
  <2> QED BY <1>1, <2>1, <2>2, <2>3 DEF CallInv
<1>5. ASSUME NEW x \in Procs, txn'[x].op = "callNext"
      PROVE  /\ txn'[x].q \in Queues
             /\ qlock'[txn'[x].q] = x
             /\ \A t \in Tickets : ticket'[t].queue = txn'[x].q => ticket'[t].status # "CALLED"
  <2>1. x # p /\ txn'[x] = txn[x]
    BY <1>1, <1>5 DEF Idle
  <2>2. txn[x].q \in Queues /\ qlock[txn[x].q] = x
    BY <1>5, <2>1 DEF CallInv
  <2>3. ASSUME NEW t \in Tickets, ticket'[t].queue = txn[x].q, ticket'[t].status = "CALLED"
        PROVE  FALSE
    <3>1. ~(ticket[t].status = "CALLED" /\ ticket[t].queue = ticket'[t].queue)
      BY <1>5, <2>1, <2>3 DEF CallInv
    <3>2. txn[p].op = "callNext" /\ txn[p].q = txn[x].q
      BY <1>2, <2>3, <3>1
    <3> QED BY <2>1, <2>2, <3>2 DEF CallInv
  <2> QED BY <1>1, <2>1, <2>2, <2>3
<1>6. \A x \in Procs : At(x, "pick")' => txn'[x].op = "callNext"
  BY <1>1 DEF CallInv, At, Idle
<1> QED BY <1>3, <1>4, <1>5, <1>6 DEF CallInv

\* Every step keeps the invariant.
LEMMA CallNext_ == TypeOK /\ NumberInv /\ CallInv /\ [Next]_vars => CallInv'
<1> SUFFICES ASSUME TypeOK, NumberInv, CallInv, [Next]_vars
             PROVE  CallInv'
  OBVIOUS
<1>1. ASSUME NEW p \in Procs, Request(p)
      PROVE  CallInv'
  <2>1. CASE \E q \in Queues : CallNext(p, q)
    BY <2>1, CallNextKeeps
  <2>2. CASE ~\E q \in Queues : CallNext(p, q)
    <3>1. /\ txn'[p].op # "callNext" /\ txn'[p].pc # "pick"
          /\ QuietStart(p)
      BY <1>1, <2>2, RequestStarts
    <3>2. \A t \in Tickets : tlock[t] # p
      BY <3>1 DEF QuietStart, NumberInv, NoTicketLocked, At
    <3>3. CallsNobody(p)
      BY <1>1, <3>1, <3>2, QueueLocksHeld DEF CallsNobody, QuietStart
    <3> QED BY <3>3, CallsNobodyKeeps
  <2> QED BY <2>1, <2>2
<1>2. ASSUME NEW p \in Procs, Statement(p)
      PROVE  CallInv'
  <2>1. CASE PickNext(p)
    BY <2>1, PickNextKeeps
  <2>2. CASE ~PickNext(p)
    <3>1. /\ StatementShape(p)
          /\ \/ UNCHANGED <<tlock, tnew>>
             \/ \E t \in Tickets : \E row : WriteTicket(p, t, row) /\ NoCall(t, row)
      BY <1>2, <2>2, StatementWrites
    <3>2. (\E t \in Tickets : tlock[t] = p) => txn'[p].t = txn[p].t
      BY <3>1 DEF StatementShape, NumberInv, NoTicketLocked
    <3>3. CallsNobody(p)
      BY <1>2, <3>1, <3>2, QueueLocksHeld DEF CallsNobody, StatementShape
    <3> QED BY <3>3, CallsNobodyKeeps
  <2> QED BY <2>1, <2>2
<1>3. ASSUME UNCHANGED <<ticket, tlock, tnew, qlock, txn>>
      PROVE  CallInv'
  BY <1>3 DEF CallInv, OneCalled, BeingCalled, At
<1> QED BY <1>1, <1>2, <1>3, EndKeepsCalls, UpdateRowTickets DEF Next, vars

\* The call invariant holds of every behaviour.
LEMMA CallsInOrder == Spec => []CallInv
<1>1. Init => CallInv
  BY DEF Init, NoRow, Idle, CallInv, OneCalled, BeingCalled, At
<1> QED BY <1>1, CallNext_, TypeCorrect, NumbersInOrder, PTL DEF Spec

\* However many calls, transfers and stale decisions overlap, a queue never has
\* two tickets CALLED.
THEOREM OneTicketCalled == Spec => []OneCalled
<1>1. CallInv => OneCalled
  BY DEF CallInv
<1> QED BY <1>1, CallsInOrder, PTL

\* Only a commit changes a committed ticket.
LEMMA OnlyCommitsChange ==
  ASSUME TypeOK, [Next]_vars, ~\E p \in Procs : Commit(p)
  PROVE  ticket' = ticket
<1>1. ASSUME NEW p \in Procs, Request(p) \/ Statement(p)
      PROVE  ticket' = ticket
  <2>1. CASE PickNext(p)
    BY <2>1 DEF PickNext
  <2> QED BY <1>1, <2>1, RequestStarts, StatementWrites DEF QuietStart, StatementShape
<1> QED BY <1>1, UpdateRowTickets DEF Next, Abort, vars

\* Nobody is called twice: a ticket is called from WAITING, in its own queue,
\* whatever other transactions do between the pick and the commit.
THEOREM CalledOnlyWhenWaiting == Spec => CalledFromWaiting
<1>1. TypeOK /\ NumberInv /\ CallInv /\ [Next]_vars =>
        [\A t \in Tickets :
           (ticket'[t].status = "CALLED" /\ ticket[t].status # "CALLED")
             => /\ ticket[t].status = "WAITING"
                /\ ticket[t].queue = ticket'[t].queue]_vars
  BY CommitCalls, OnlyCommitsChange
<1> QED BY <1>1, TypeCorrect, NumbersInOrder, CallsInOrder, PTL DEF Spec, CalledFromWaiting

-----------------------------------------------------------------------------
\* Only open queues admit.

\* Taking a number reads the queue OPEN under its lock, and nobody else writes
\* the row before the number is committed or given back.
LEMMA OpenNext == TypeOK /\ NumberInv /\ OpenInv /\ [Next]_vars => OpenInv'
<1> SUFFICES ASSUME TypeOK, NumberInv, OpenInv, [Next]_vars
             PROVE  OpenInv'
  OBVIOUS
<1>1. ASSUME NEW p \in Procs, NEW q \in Queues, queue[q].status = "OPEN", UNCHANGED queue,
             WriteQueue(p, q, [queue[q] EXCEPT !.seq = @ + 1])
      PROVE  OpenInv'
  BY <1>1 DEF OpenInv, WriteQueue, TypeOK
<1>2. ASSUME UNCHANGED queue, \A q \in Queues : qnew'[q].seq = qnew[q].seq
      PROVE  OpenInv'
  BY <1>2 DEF OpenInv
<1>3. ASSUME NEW p \in Procs, Request(p)
      PROVE  OpenInv'
  <2>1. CASE \E u \in Users \cup {Guest}, q \in Queues : JoinQueue(p, u, q)
    BY <2>1, <1>1 DEF JoinQueue
  <2>2. CASE \/ \E q \in Queues : CallNext(p, q)
             \/ \E op \in Operations, t \in Tickets : ReadTicket(p, op, t)
             \/ \E t \in Tickets, to \in Queues : ReadForTransfer(p, t, to)
             \/ \E q \in Queues, s \in QueueStatus : SetQueueStatus(p, q, s)
    <3>1. At(p, "idle")
      BY <2>2 DEF CallNext, ReadTicket, ReadForTransfer, SetQueueStatus, Begin, At
    <3>2. QuietStep(p)
      BY <2>2, <3>1, RequestQuiet
    <3> QED BY <3>2, <1>2 DEF QuietStep
  <2> QED BY <1>3, <2>1, <2>2 DEF Request, StartServing, CompleteService, MarkNoShow,
             CancelTicket, LeaveQueue, RecallTicket, ReadForTransition, Operations
<1>4. ASSUME NEW p \in Procs, Statement(p)
      PROVE  OpenInv'
  <2>1. CASE LockTarget(p)
    BY <2>1, <1>1 DEF LockTarget, TypeOK, At
  <2>2. CASE InsertTicket(p) \/ MoveTicket(p)
    BY <2>2, <1>2 DEF InsertTicket, MoveTicket
  <2>3. CASE \/ PickNext(p) \/ UpdateTicket(p) \/ ClearCurrent(p) \/ PointAt(p)
             \/ ReadPositions(p) \/ RankWaiting(p) \/ WriteRank(p) \/ NotifyPromoted(p)
             \/ WriteStatus(p)
    <3>1. QuietStep(p)
      BY <2>3, StatementQuiet
    <3> QED BY <3>1, <1>2 DEF QuietStep
  <2> QED BY <1>4, <2>1, <2>2, <2>3 DEF Statement
<1>5. ASSUME NEW p \in Procs, Commit(p) \/ Abort(p)
      PROVE  OpenInv'
  BY <1>5 DEF Commit, Abort, OpenInv
<1>6. ASSUME NEW q \in Queues, \/ \E s \in QueueStatus : UpdateQueue(q, s)
                               \/ \E b \in BOOLEAN : SetQueueKioskMode(q, b)
      PROVE  OpenInv'
  <2>1. \A n \in Queues : \/ queue'[n] = queue[n] /\ qnew'[n] = qnew[n]
                          \/ qnew'[n] = queue'[n]
    BY <1>6 DEF UpdateQueue, SetQueueKioskMode, UpdateRow, TypeOK
  <2> QED BY <2>1 DEF OpenInv
<1>7. CASE UNCHANGED vars
  BY <1>7 DEF vars, OpenInv
<1> QED BY <1>3, <1>4, <1>5, <1>6, <1>7 DEF Next

\* A ticket enters a queue, by join or by transfer, only while that queue is
\* OPEN: pausing or closing it waits for the number being given, or comes first.
THEOREM OpenQueuesAdmit == Spec => OnlyOpenQueuesAdmit
<1>1. Init => OpenInv
  BY DEF Init, OpenInv
<1>2. TypeOK /\ NumberInv /\ OpenInv /\ [Next]_vars =>
        [\A t \in Tickets :
           ticket'[t].queue # ticket[t].queue => queue[ticket'[t].queue].status = "OPEN"]_vars
  <2> SUFFICES ASSUME TypeOK, NumberInv, OpenInv, [Next]_vars, NEW t \in Tickets,
                      ticket'[t].queue # ticket[t].queue
               PROVE  queue[ticket'[t].queue].status = "OPEN"
    OBVIOUS
  <2>1. PICK p \in Procs : Commit(p)
    BY OnlyCommitsChange
  <2>2. tlock[t] = p /\ ticket'[t] = tnew[t] /\ Renumbered(t)
    BY <2>1 DEF Commit, Renumbered
  <2>3. TookNumber(p, tnew[t].queue)
    BY <2>2 DEF NumberInv
  <2>4. qnew[tnew[t].queue].seq # queue[tnew[t].queue].seq
    BY <2>3 DEF TookNumber, TypeOK, QueueRow
  <2> QED BY <2>2, <2>3, <2>4 DEF OpenInv, TookNumber
<1> QED BY <1>1, <1>2, OpenNext, TypeCorrect, NumbersInOrder, PTL DEF Spec, OnlyOpenQueuesAdmit

-----------------------------------------------------------------------------
\* Nothing but a transfer revives a finished ticket.

\* Not yet called: the statuses a ticket cannot come back to.
Young == {"NONE", "WAITING"}

\* No transfer is under way, and no transaction holds a version of a ticket that
\* is younger than the row it will replace.
RestInv ==
  /\ \A p \in Procs : txn[p].pc \notin {"target", "move"}
  /\ \A t \in Tickets : tnew[t].status \in Young => ticket[t].status \in Young

\* A write that does not make a row younger keeps every version as old as its row.
LEMMA WriteAges ==
  ASSUME TypeOK, RestInv, NEW p \in Procs, NEW t, NEW row, UNCHANGED ticket,
         WriteTicket(p, t, row),
         t \in Tickets /\ row.status \in Young => tnew[t].status \in Young
  PROVE  \A u \in Tickets : tnew'[u].status \in Young => ticket'[u].status \in Young
BY DEF WriteTicket, TypeOK, RestInv

\* No statement but MoveTicket makes a row younger.
LEMMA StatementAges ==
  ASSUME TypeOK, RestInv, NEW p \in Procs, Statement(p)
  PROVE  \A u \in Tickets : tnew'[u].status \in Young => ticket'[u].status \in Young
<1>0. ~LockTarget(p) /\ ~MoveTicket(p)
  BY DEF RestInv, LockTarget, MoveTicket, At
<1>1. CASE InsertTicket(p)
  <2>1. PICK t, row : t \in Tickets /\ tnew[t].status = "NONE" /\ WriteTicket(p, t, row)
    BY <1>1 DEF InsertTicket, Tickets
  <2> QED BY <1>1, <2>1, WriteAges DEF InsertTicket, Young
<1>2. CASE PickNext(p)
  <2>1. PICK t, row : t \in Tickets /\ row.status = "CALLED" /\ WriteTicket(p, t, row)
    <3>1. PICK t \in NextInLine(txn[p].q) :
            WriteTicket(p, t, [tnew[t] EXCEPT !.status = "CALLED", !.position = 0])
      BY <1>2 DEF PickNext
    <3>2. t \in Tickets
      BY DEF NextInLine, Callable
    <3> QED BY <3>1, <3>2 DEF TypeOK, TicketRow
  <2> QED BY <1>2, <2>1, WriteAges DEF PickNext, Young
<1>3. CASE UpdateTicket(p)
  <2> DEFINE t == txn[p].t
             row == UpdatedRow(txn[p].op, tnew[t])
  <2>1. WriteTicket(p, t, row) /\ txn[p].op \in DOMAIN NoticeType /\ UNCHANGED ticket
    BY <1>3 DEF UpdateTicket
  <2>2. ASSUME t \in Tickets, row.status \in Young
        PROVE  tnew[t].status \in Young
    <3>1. txn[p].op \in {"recallTicket", "startServing", "completeService", "markNoShow",
                         "cancelTicket", "leaveQueue"}
      BY <2>1 DEF NoticeType
    <3>2. tnew[t] \in TicketRow
      BY <2>2 DEF TypeOK
    <3>3. CASE txn[p].op = "recallTicket"
      BY <2>2, <3>3 DEF UpdatedRow
    <3>4. CASE txn[p].op # "recallTicket"
      <4>1. row.status = Target[txn[p].op]
        BY <3>1, <3>2, <3>4 DEF UpdatedRow, TicketRow
      <4>2. Target[txn[p].op] \notin Young
        BY <3>1, <3>4 DEF Target, Young
      <4> QED BY <2>2, <4>1, <4>2
    <3> QED BY <3>3, <3>4
  <2> HIDE DEF t, row
  <2> QED BY <2>1, <2>2, WriteAges
<1>4. CASE WriteRank(p)
  <2>1. PICK t, row : t \in Tickets /\ row.status = tnew[t].status /\ WriteTicket(p, t, row)
    BY <1>4 DEF WriteRank, TypeOK, TicketRow
  <2> QED BY <1>4, <2>1, WriteAges DEF WriteRank
<1>5. CASE \/ ClearCurrent(p) \/ PointAt(p) \/ ReadPositions(p) \/ RankWaiting(p)
           \/ NotifyPromoted(p) \/ WriteStatus(p)
  BY <1>5 DEF ClearCurrent, PointAt, ReadPositions, RankWaiting, NotifyPromoted, WriteStatus,
     rows, RestInv
<1> QED BY <1>0, <1>1, <1>2, <1>3, <1>4, <1>5 DEF Statement

\* Without transfers, no request is ever at a statement of one.
LEMMA NoTransferStarts ==
  ASSUME TypeOK, RestInv, NEW p \in Procs, Request(p) \/ Statement(p),
         "transferTicket" \notin Requests
  PROVE  \A x \in Procs : txn'[x].pc \notin {"target", "move"}
<1>1. ASSUME NEW locals, Continue(p, locals), locals.pc \notin {"target", "move"}
      PROVE  \A x \in Procs : txn'[x].pc \notin {"target", "move"}
  BY <1>1, ContinueSets DEF RestInv
<1>2. txn[p] \in Locals /\ Idle \in Locals
  BY IdleType DEF TypeOK
<1>3. CASE Request(p)
  <2>1. ASSUME NEW op, Begin(p, op)
        PROVE  op # "transferTicket"
    BY <2>1 DEF Begin
  <2>2. CASE \E u \in Users \cup {Guest}, q \in Queues : JoinQueue(p, u, q)
    BY <1>1, <2>2 DEF JoinQueue, Idle
  <2>3. CASE \E q \in Queues : CallNext(p, q)
    BY <1>1, <2>3 DEF CallNext, Idle
  <2>4. CASE \E op \in Operations, t \in Tickets : ReadTicket(p, op, t)
    BY <1>1, <2>4 DEF ReadTicket, Idle
  <2>5. CASE \E t \in Tickets, to \in Queues : ReadForTransfer(p, t, to)
    BY <2>1, <2>5 DEF ReadForTransfer
  <2>6. CASE \E q \in Queues, s \in QueueStatus : SetQueueStatus(p, q, s)
    BY <1>1, <2>6 DEF SetQueueStatus, Idle
  <2> QED BY <1>3, <2>2, <2>3, <2>4, <2>5, <2>6 DEF Request, StartServing, CompleteService,
             MarkNoShow, CancelTicket, LeaveQueue, RecallTicket, ReadForTransition, Operations
<1>4. CASE Statement(p)
  <2>0. ~LockTarget(p) /\ ~MoveTicket(p)
    BY DEF RestInv, LockTarget, MoveTicket, At
  <2>1. CASE UpdateTicket(p)
    <3> DEFINE label == CASE txn[p].op = "startServing" -> "point"
                          [] txn[p].op = "recallTicket" -> "commit"
                          [] OTHER -> "clear"
    <3>1. label \notin {"target", "move"}
      OBVIOUS
    <3> HIDE DEF label
    <3>2. \E told : Continue(p, [txn[p] EXCEPT !.pc = label, !.notices = told])
      BY <2>1 DEF UpdateTicket, label
    <3> QED BY <3>1, <3>2, <1>1, <1>2 DEF Locals
  <2>2. CASE InsertTicket(p)
    BY <1>1, <1>2, <2>2 DEF InsertTicket, Locals
  <2>3. CASE PickNext(p)
    BY <1>1, <1>2, <2>3 DEF PickNext, Locals
  <2>4. CASE WriteRank(p)
    BY <1>1, <1>2, <2>4 DEF WriteRank, Locals, RestInv
  <2>5. CASE ClearCurrent(p)
    BY <1>1, <1>2, <2>5 DEF ClearCurrent, Locals
  <2>6. CASE PointAt(p)
    BY <1>1, <1>2, <2>6 DEF PointAt, Locals
  <2>7. CASE ReadPositions(p)
    BY <1>1, <1>2, <2>7 DEF ReadPositions, Locals
  <2>8. CASE RankWaiting(p)
    BY <1>1, <1>2, <2>8 DEF RankWaiting, Locals
  <2>9. CASE NotifyPromoted(p)
    BY <1>1, <1>2, <2>9 DEF NotifyPromoted, Locals
  <2>10. CASE WriteStatus(p)
    BY <1>1, <1>2, <2>10 DEF WriteStatus, Locals
  <2> QED BY <1>4, <2>0, <2>1, <2>2, <2>3, <2>4, <2>5, <2>6, <2>7, <2>8, <2>9, <2>10
          DEF Statement
<1> QED BY <1>3, <1>4

\* Without transfers RestInv is inductive.
LEMMA RestNext ==
  ASSUME "transferTicket" \notin Requests
  PROVE  TypeOK /\ RestInv /\ [Next]_vars => RestInv'
<1> SUFFICES ASSUME TypeOK, RestInv, [Next]_vars
             PROVE  RestInv'
  OBVIOUS
<1>1. ASSUME NEW p \in Procs, Request(p)
      PROVE  RestInv'
  BY <1>1, RequestStarts, NoTransferStarts DEF QuietStart, RestInv
<1>2. ASSUME NEW p \in Procs, Statement(p)
      PROVE  RestInv'
  BY <1>2, StatementAges, NoTransferStarts DEF RestInv
<1>3. ASSUME NEW p \in Procs, Commit(p) \/ Abort(p)
      PROVE  RestInv'
  <2>1. \A x \in Procs : txn'[x].pc \notin {"target", "move"}
    BY <1>3 DEF Commit, Abort, RestInv, TypeOK, Idle
  <2>2. \A t \in Tickets : tnew'[t].status \in Young => ticket'[t].status \in Young
    BY <1>3 DEF Commit, Abort, RestInv
  <2> QED BY <2>1, <2>2 DEF RestInv
<1>4. ASSUME UNCHANGED <<ticket, tnew, txn>>
      PROVE  RestInv'
  BY <1>4 DEF RestInv
<1> QED BY <1>1, <1>2, <1>3, <1>4, UpdateRowTickets DEF Next, vars

\* A finished ticket waits again only because of transferTicket, which writes WAITING
\* by id over whatever the ticket became since it was read: in an instance without
\* transfers no interleaving of the other operations revives one.
THEOREM OnlyTransfersRevive ==
  "transferTicket" \notin Requests => (Spec => TerminalNeverWaits)
<1> SUFFICES ASSUME "transferTicket" \notin Requests
             PROVE  Spec => TerminalNeverWaits
  OBVIOUS
<1>1. Init => RestInv
  BY DEF Init, RestInv, Idle
<1>2. TypeOK /\ RestInv /\ [Next]_vars => RestInv'
  BY RestNext
<1>3. TypeOK /\ RestInv /\ [Next]_vars =>
        [\A t \in Tickets : ticket[t].status \in TERMINAL_TICKET_STATUSES
                              => ticket'[t].status # "WAITING"]_vars
  <2> SUFFICES ASSUME TypeOK, RestInv, [Next]_vars, NEW t \in Tickets,
                      ticket[t].status \in TERMINAL_TICKET_STATUSES
               PROVE  ticket'[t].status # "WAITING"
    OBVIOUS
  <2>1. CASE \E p \in Procs : Commit(p)
    BY <2>1 DEF Commit, RestInv, Young, TERMINAL_TICKET_STATUSES
  <2>2. CASE ~\E p \in Procs : Commit(p)
    BY <2>2, OnlyCommitsChange DEF TERMINAL_TICKET_STATUSES
  <2> QED BY <2>1, <2>2
<1> QED BY <1>1, <1>2, <1>3, TypeCorrect, PTL DEF Spec, TerminalNeverWaits
=============================================================================
