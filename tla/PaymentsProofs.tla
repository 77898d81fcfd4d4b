--------------------------- MODULE PaymentsProofs ---------------------------
(***************************************************************************)
(* Proofs about Payments, for any payments, methods, copies of events,     *)
(* years, requests, clocks and aborts.  A report of a failure, a proof and *)
(* a refusal that comes after all write a status by id that follows from   *)
(* what was read before: the theorems are about payers without these, or   *)
(* whose requests do not overlap.                                          *)
(***************************************************************************)
EXTENDS Payments, SequenceTheorems, TLAPS

\* No payment is declined or proved by a document, and no answer of the provider is lost.
Undisturbed == Operations \cap {"proof", "declined", "lost"} = {}
OneAtATime == \A g, h \in Handlers : g = h
Orderly == Undisturbed \/ OneAtATime

Status(t) == transaction[t].status

HandlerState ==
  [pc : Points, t : Transactions \cup {NoTransaction}, event : Events \cup {NoEvent},
   seen : TransactionStatus, year : Years \cup {0}, existing : SubscriptionStatus,
   date : Nat, end : Nat, number : Nat, previous : Transactions \cup {NoTransaction}]
TransactionRow ==
  [status : TransactionStatus, event : Events \cup {NoEvent}, year : Years \cup {0},
   number : Nat, previous : Transactions \cup {NoTransaction}, receiptSent : BOOLEAN]
SubscriptionRow == [status : SubscriptionStatus, end : Nat]

\* What a request is doing: starting a payment, serving an event, applying a payment and
\* seeing to its receipt, making a document.
Calls(r) == r.pc \in {"calling", "opened", "refused"}
Serves(r) ==
  r.pc \in {"fail", "claim", "period", "extend", "number", "chain", "commit",
            "receipt", "send", "sent", "answer"}
Applies(r) == r.pc \in {"period", "extend", "number", "chain", "commit"}
Receipts(r) == r.pc \in {"receipt", "send"}
Invoices(r) == surface = "organization" /\ r.pc \in {"chain", "commit"}
Rewrites(r) == r.pc \in {"calling", "refused", "fail", "proof"}

\* The document before the n-th of a series.
Before(y, n) == IF n = 1 THEN {NoTransaction} ELSE Documents(y, n - 1)

\* A request knows its payment, and one that will write a status by id still knows that the
\* payment is not paid.
Fine(r) ==
  /\ r.pc # "idle" => r.t \in Transactions
  /\ Calls(r) => Status(r.t) # "NONE"
  /\ Serves(r) => r.event \in reported /\ r.event.t = r.t
  /\ Rewrites(r) => Status(r.t) # "SUCCEEDED"
  /\ r.pc = "proof" => "proof" \in Operations /\ r.seen \in {"PENDING", "UNDER_REVIEW"}
  /\ r.pc = "fail" => r.event.outcome = "failed"
  /\ Applies(r) => Claimable(r.t)
  /\ Receipts(r) => Status(r.t) = "SUCCEEDED" /\ receipts[r.t] = 0
  /\ r.pc = "sent" => Status(r.t) = "SUCCEEDED"
  /\ r.pc \in {"number", "chain"} => surface = "organization"
  /\ Serves(r) /\ surface = "organization" => r.year \in Years
  /\ Invoices(r) => r.number = nextNumber[r.year] + 1
  /\ Invoices(r) /\ r.pc = "commit" => r.previous \in Before(r.year, r.number)

\* No two requests start the same payment, apply it and send its receipt, or number
\* documents of one series.
Apart(q, r) ==
  /\ ~(Calls(q) /\ Calls(r) /\ q.t = r.t)
  /\ ~((Applies(q) \/ Receipts(q)) /\ (Applies(r) \/ Receipts(r)) /\ q.t = r.t)
  /\ ~(Invoices(q) /\ Invoices(r) /\ q.year = r.year)

RowOK(t) ==
  LET row == transaction[t] IN
  /\ t \in sessions => row.status # "NONE"
  /\ receipts[t] <= 1
  /\ receipts[t] > 0 => row.status = "SUCCEEDED"
  /\ row.number # 0 => /\ row.status = "SUCCEEDED" /\ row.year \in Years
                       /\ row.number <= nextNumber[row.year]
                       /\ row.previous \in Before(row.year, row.number)

\* Every number of a series that was given out and committed has its one document.
SeriesOK(y) == \A n \in 1..nextNumber[y] : \E t \in Transactions : Documents(y, n) = {t}

\* Without failures, proofs and lost answers a payment the provider can collect is open or
\* paid, and what was acknowledged is paid.
Settling(r) ==
  /\ r.pc \in {"calling", "refused"} => r.t \notin sessions /\ Status(r.t) = "PENDING"
  /\ r.pc = "answer" => Status(r.t) = "SUCCEEDED"
UndisturbedOK ==
  /\ \A e \in reported : e.outcome = "succeeded"
  /\ \A h \in Handlers : Settling(handler[h])
  /\ \A t \in sessions : Status(t) \in {"PENDING", "SUCCEEDED"}
  /\ \A t \in Transactions : transaction[t].event # NoEvent => Status(t) = "SUCCEEDED"
  /\ \A e \in acked : Status(e.t) = "SUCCEEDED"

\* None of the properties is inductive by itself: that a payment is applied, invoiced and
\* receipted once needs the claim of its row to last until the commit, and that nobody writes
\* its status by id afterwards.
PaymentsInv ==
  /\ TypeOK
  /\ \A e \in reported : e.t \in sessions
  /\ \A h \in Handlers : Fine(handler[h])
  /\ \A g, h \in Handlers : g # h => Apart(handler[g], handler[h])
  /\ \A t \in Transactions : RowOK(t)
  /\ \A y \in Years : SeriesOK(y)
  /\ Undisturbed => UndisturbedOK

\* What a step may not do to what is paid.
PaidKept == \A t \in Paid : transaction'[t].status = "SUCCEEDED"

\* The documents are as they were.
SameDocuments ==
  /\ \A y, n : Documents(y, n)' = Documents(y, n)
  /\ nextNumber' = nextNumber

StepOK == PaymentsInv' /\ PaidKept /\ SameDocuments

-----------------------------------------------------------------------------
LEMMA Bounds ==
  Interval \in Nat /\ TrialDays \in Nat /\ MaxTime \in Nat /\ MaxAborts \in Nat
<1> DEFINE S == {Interval, TrialDays, MaxTime, MaxAborts, Copies}
<1>1. S \subseteq Nat
  BY PaymentConstants
<1>2. Interval \in S /\ TrialDays \in S /\ MaxTime \in S /\ MaxAborts \in S
  OBVIOUS
<1> QED BY <1>1, <1>2

LEMMA Rows ==
  ASSUME TypeOK
  PROVE  /\ transaction \in [Transactions -> TransactionRow]
         /\ handler \in [Handlers -> HandlerState]
         /\ subscription \in SubscriptionRow
BY DEF TypeOK, TransactionRow, HandlerState, SubscriptionRow

LEMMA IdleFine ==
  /\ Idle \in HandlerState /\ Idle.pc = "idle" /\ Fine(Idle) /\ Settling(Idle)
  /\ \A r : Apart(r, Idle) /\ Apart(Idle, r)
<1>1. Idle \in HandlerState /\ Idle.pc = "idle"
  BY DEF SubscriptionStatus, Idle, HandlerState, Points, TransactionStatus
<1> QED BY <1>1 DEF Fine, Settling, Apart, Calls, Serves, Applies, Receipts, Invoices, Rewrites

LEMMA PaymentsStart == Init => PaymentsInv
<1> SUFFICES ASSUME Init PROVE PaymentsInv
  OBVIOUS
<1>1. NoRow \in TransactionRow /\ NoRow.event = NoEvent /\ NoRow.number = 0
  BY DEF NoRow, TransactionRow, TransactionStatus
<1>2. TypeOK
  <2>1. transaction \in [Transactions -> TransactionRow]
    BY <1>1 DEF Init
  <2>2. handler \in [Handlers -> HandlerState]
    BY IdleFine DEF Init
  <2>3. /\ surface \in Surfaces /\ now \in 0..MaxTime /\ aborts \in 0..MaxAborts
        /\ nextNumber \in [Years -> Nat] /\ receipts \in [Transactions -> Nat]
        /\ sessions = {} /\ reported = {} /\ acked = {}
    BY Bounds DEF Init
  <2>4. subscription \in SubscriptionRow
    BY DEF SubscriptionStatus, Init, SubscriptionRow
  <2> QED BY <2>1, <2>2, <2>3, <2>4 DEF TypeOK, TransactionRow, HandlerState, SubscriptionRow
<1>3. \A h \in Handlers : handler[h] = Idle
  BY DEF Init
<1>4. \A t \in Transactions : RowOK(t)
  BY <1>1 DEF Init, RowOK
<1>5. \A y \in Years : SeriesOK(y)
  BY DEF Init, SeriesOK
<1>6. UndisturbedOK
  BY <1>1, <1>3, IdleFine DEF Init, UndisturbedOK
<1>7. reported = {}
  BY DEF Init
<1> QED BY <1>2, <1>3, <1>4, <1>5, <1>6, <1>7, IdleFine DEF PaymentsInv

\* To judge the next state by the record a request then is.
LEMMA FineThen ==
  ASSUME NEW g, NEW q, q = handler'[g], Fine(q)' PROVE Fine(handler[g])'
BY DEF Fine, Calls, Serves, Applies, Receipts, Invoices, Rewrites, Status, Claimable, Before, Documents

LEMMA ApartThen ==
  ASSUME NEW g, NEW j, NEW q, NEW x, q = handler'[g], x = handler'[j], Apart(q, x)'
  PROVE  Apart(handler[g], handler[j])'
BY DEF Apart, Calls, Applies, Receipts, Invoices

\* One request goes on: it may open a payment at the provider that nobody has begun
\* otherwise, and send the one receipt of a payment.
LEMMA OutsideMoves ==
  ASSUME PaymentsInv, NEW h \in Handlers, NEW r \in HandlerState,
         handler' = [handler EXCEPT ![h] = r],
         UNCHANGED <<surface, transaction, nextNumber, reported>>,
         now' \in 0..MaxTime, subscription' \in SubscriptionRow, aborts' \in 0..MaxAborts,
         acked' \subseteq reported,
         Undisturbed => \A e \in acked' : Status(e.t) = "SUCCEEDED",
         sessions \subseteq sessions', sessions' \subseteq Transactions,
         \A t \in sessions' \ sessions :
           /\ Status(t) # "NONE"
           /\ Undisturbed => /\ Status(t) = "PENDING"
                             /\ \A g \in Handlers \ {h} : ~(Calls(handler[g]) /\ handler[g].t = t),
         receipts' \in [Transactions -> Nat],
         \A t \in Transactions : receipts'[t] # receipts[t] =>
           /\ receipts'[t] = 1 /\ Status(t) = "SUCCEEDED"
           /\ \A g \in Handlers \ {h} : ~(Receipts(handler[g]) /\ handler[g].t = t),
         Fine(r)', Undisturbed => Settling(r)',
         \A g \in Handlers \ {h} : Apart(handler[g], r)
  PROVE  StepOK
<1>1. /\ handler' \in [Handlers -> HandlerState] /\ handler'[h] = r
      /\ \A g \in Handlers : g # h => handler'[g] = handler[g]
  BY Rows DEF PaymentsInv
<1>2. TypeOK'
  BY <1>1 DEF PaymentsInv, TypeOK, HandlerState, SubscriptionRow
<1>3. /\ surface' = surface /\ transaction' = transaction /\ nextNumber' = nextNumber
      /\ reported' = reported
  OBVIOUS
<1>4. ASSUME NEW g \in Handlers, g # h, NEW q, q = handler[g] PROVE Fine(q)'
  <2>1. Fine(q)
    BY <1>4 DEF PaymentsInv
  <2>2. Receipts(q) => receipts'[q.t] = 0
    BY <1>4, <2>1 DEF Fine, Receipts
  <2>3. Status(q.t)' = Status(q.t) /\ (Claimable(q.t)' <=> Claimable(q.t))
    BY <1>3 DEF Status, Claimable
  <2>4. \A y, n : Before(y, n)' = Before(y, n)
    BY <1>3 DEF Before, Documents
  <2> QED BY <1>3, <2>1, <2>2, <2>3, <2>4
             DEF Fine, Calls, Serves, Applies, Receipts, Invoices, Rewrites
<1>5. \A q, x : Apart(q, x)' <=> Apart(q, x)
  BY <1>3 DEF Apart, Calls, Applies, Receipts, Invoices
<1>7. \A g \in Handlers : Fine(handler[g])'
  <2> SUFFICES ASSUME NEW g \in Handlers PROVE Fine(handler[g])'
    OBVIOUS
  <2>1. PICK q : q = handler'[g]
    OBVIOUS
  <2>2. Fine(q)'
    <3>1. CASE g = h
      BY <1>1, <2>1, <3>1
    <3>2. CASE g # h
      BY <1>1, <1>4, <2>1, <3>2
    <3> QED BY <3>1, <3>2
  <2> QED BY <2>1, <2>2, FineThen
<1>8. \A g, j \in Handlers : g # j => Apart(handler[g], handler[j])'
  <2> SUFFICES ASSUME NEW g \in Handlers, NEW j \in Handlers, g # j
               PROVE  Apart(handler[g], handler[j])'
    OBVIOUS
  <2>1. PICK q, x : q = handler'[g] /\ x = handler'[j]
    OBVIOUS
  <2>2. \A p, o : Apart(p, o) <=> Apart(o, p)
    BY DEF Apart
  <2>3. Apart(q, x)'
    BY <1>1, <1>5, <2>1, <2>2 DEF PaymentsInv
  <2> QED BY <2>1, <2>3, ApartThen
<1>9. ASSUME NEW t \in Transactions PROVE RowOK(t)'
  <2>1. RowOK(t) /\ receipts[t] \in Nat
    BY DEF PaymentsInv, TypeOK
  <2>2. \A y, n : Before(y, n)' = Before(y, n)
    BY <1>3 DEF Before, Documents
  <2>3. t \in sessions' => transaction[t].status # "NONE"
    BY <2>1 DEF RowOK, Status
  <2>4. receipts'[t] <= 1 /\ (receipts'[t] > 0 => transaction[t].status = "SUCCEEDED")
    BY <2>1 DEF RowOK, Status
  <2> QED BY <1>3, <2>1, <2>2, <2>3, <2>4 DEF RowOK
<1>10. \A y \in Years : SeriesOK(y)'
  BY <1>3 DEF PaymentsInv, SeriesOK, Documents
<1>11. ASSUME Undisturbed PROVE UndisturbedOK'
  <2>1. UndisturbedOK
    BY <1>11 DEF PaymentsInv
  <2>2. ASSUME NEW g \in Handlers PROVE Settling(handler[g])'
    <3>1. PICK q : q = handler'[g]
      OBVIOUS
    <3>2. Settling(q)'
      <4>1. CASE g = h
        BY <1>1, <1>11, <3>1, <4>1
      <4>2. CASE g # h
        <5>1. q = handler[g] /\ Settling(q)
          BY <1>1, <2>1, <3>1, <4>2 DEF UndisturbedOK
        <5>2. q.pc \in {"calling", "refused"} => q.t \notin sessions'
          BY <1>11, <4>2, <5>1 DEF Settling, Calls
        <5> QED BY <1>3, <5>1, <5>2 DEF Settling, Status
      <4> QED BY <4>1, <4>2
    <3> QED BY <3>1, <3>2 DEF Settling, Status
  <2>3. \A e \in acked' : Status(e.t)' = "SUCCEEDED"
    BY <1>3, <1>11 DEF Status
  <2>4. \A t \in sessions' : Status(t)' \in {"PENDING", "SUCCEEDED"}
    BY <1>3, <1>11, <2>1 DEF UndisturbedOK, Status
  <2> QED BY <1>3, <2>1, <2>2, <2>3, <2>4 DEF UndisturbedOK, Status
<1>12. \A e \in reported' : e.t \in sessions'
  BY <1>3 DEF PaymentsInv
<1>13. PaidKept /\ SameDocuments
  BY <1>3 DEF PaidKept, Paid, SameDocuments, Documents
<1> QED BY <1>2, <1>7, <1>8, <1>9, <1>10, <1>11, <1>12, <1>13 DEF PaymentsInv, StepOK

\* One request goes on and nothing changes that it or another depends on.
LEMMA HandlerMoves ==
  ASSUME PaymentsInv, NEW h \in Handlers, NEW r \in HandlerState,
         handler' = [handler EXCEPT ![h] = r],
         UNCHANGED <<surface, transaction, nextNumber, sessions, reported, receipts>>,
         now' \in 0..MaxTime, subscription' \in SubscriptionRow, aborts' \in 0..MaxAborts,
         acked' \subseteq reported,
         Undisturbed => \A e \in acked' : Status(e.t) = "SUCCEEDED",
         Fine(r), Undisturbed => Settling(r),
         \A g \in Handlers \ {h} : Apart(handler[g], r)
  PROVE  StepOK
<1>1. /\ surface' = surface /\ transaction' = transaction /\ nextNumber' = nextNumber
      /\ sessions' = sessions /\ reported' = reported /\ receipts' = receipts
  OBVIOUS
<1>2. Fine(r)'
  BY <1>1 DEF Fine, Status, Claimable, Before, Documents, Calls, Serves, Applies, Receipts,
              Invoices, Rewrites
<1>3. Settling(r)' <=> Settling(r)
  BY <1>1 DEF Settling, Status
<1>4. sessions \subseteq Transactions /\ receipts \in [Transactions -> Nat]
  BY DEF PaymentsInv, TypeOK
<1> QED BY <1>1, <1>2, <1>3, <1>4, OutsideMoves

\* A request that ends, with or without having done anything.
LEMMA HandlerEnds ==
  ASSUME PaymentsInv, NEW h \in Handlers, Finish(h),
         UNCHANGED <<surface, transaction, nextNumber, sessions, reported, receipts>>,
         now' \in 0..MaxTime, subscription' \in SubscriptionRow, aborts' \in 0..MaxAborts,
         acked' \subseteq reported,
         Undisturbed => \A e \in acked' : Status(e.t) = "SUCCEEDED"
  PROVE  StepOK
BY HandlerMoves, IdleFine DEF Finish

-----------------------------------------------------------------------------
\* One request writes the row of one payment and makes no document: it does not write over
\* a payment that is paid, another request applies or another has yet to hear about.
LEMMA RowWritten ==
  ASSUME PaymentsInv, NEW h \in Handlers, NEW r \in HandlerState,
         handler' = [handler EXCEPT ![h] = r],
         NEW t \in Transactions, NEW row \in TransactionRow,
         transaction' = [transaction EXCEPT ![t] = row],
         row.year = transaction[t].year, row.number = transaction[t].number,
         row.previous = transaction[t].previous,
         row.status # "NONE",
         Status(t) = "SUCCEEDED" => row.status = "SUCCEEDED",
         row.status # Status(t) => \A g \in Handlers \ {h} :
           ~(Applies(handler[g]) /\ handler[g].t = t),
         row.status = "SUCCEEDED" => Status(t) = "SUCCEEDED" \/ \A g \in Handlers \ {h} :
           ~(Rewrites(handler[g]) /\ handler[g].t = t),
         Undisturbed =>
           /\ t \in sessions => row.status \in {"PENDING", "SUCCEEDED"}
           /\ row.event # NoEvent => row.status = "SUCCEEDED"
           /\ \A g \in Handlers \ {h} :
                handler[g].pc \in {"calling", "refused"} /\ handler[g].t = t
                  => row.status = "PENDING",
         UNCHANGED <<surface, now, nextNumber, sessions, reported, acked, receipts, aborts>>,
         subscription' \in SubscriptionRow,
         Fine(r)', Undisturbed => Settling(r)',
         \A g \in Handlers \ {h} : Apart(handler[g], r)
  PROVE  StepOK
<1>1. /\ handler' \in [Handlers -> HandlerState] /\ handler'[h] = r
      /\ \A g \in Handlers : g # h => handler'[g] = handler[g]
  BY Rows DEF PaymentsInv
<1>2. /\ transaction' \in [Transactions -> TransactionRow] /\ transaction'[t] = row
      /\ \A u \in Transactions : u # t => transaction'[u] = transaction[u]
  BY Rows DEF PaymentsInv
<1>3. /\ surface' = surface /\ now' = now /\ nextNumber' = nextNumber /\ sessions' = sessions
      /\ reported' = reported /\ acked' = acked /\ receipts' = receipts /\ aborts' = aborts
  OBVIOUS
<1>4. TypeOK'
  BY <1>1, <1>2, <1>3 DEF PaymentsInv, TypeOK, HandlerState, SubscriptionRow, TransactionRow
<1>5. ASSUME NEW u \in Transactions
      PROVE  /\ transaction'[u].year = transaction[u].year
             /\ transaction'[u].number = transaction[u].number
             /\ transaction'[u].previous = transaction[u].previous
             /\ Status(u) = "SUCCEEDED" => transaction'[u].status = "SUCCEEDED"
  BY <1>2 DEF Status
<1>6. SameDocuments
  BY <1>3, <1>5 DEF SameDocuments, Documents
<1>7. PaidKept
  BY <1>5 DEF PaidKept, Paid, Status
<1>8. \A y, n : Before(y, n)' = Before(y, n)
  BY <1>6 DEF SameDocuments, Before
<1>9. ASSUME NEW g \in Handlers, g # h, NEW q, q = handler[g] PROVE Fine(q)'
  <2>1. Fine(q) /\ q \in HandlerState
    BY <1>9, Rows DEF PaymentsInv
  <2>2. q.t \in Transactions /\ q.t # t => transaction'[q.t] = transaction[q.t]
    BY <1>2
  <2>3. Calls(q) => Status(q.t)' # "NONE"
    BY <1>2, <2>1, <2>2 DEF Fine, Calls, Status
  <2>4. Rewrites(q) => Status(q.t)' # "SUCCEEDED"
    BY <1>2, <1>9, <2>1, <2>2 DEF Fine, Rewrites, Status
  <2>5. Applies(q) => Claimable(q.t)'
    BY <1>2, <1>9, <2>1, <2>2 DEF Fine, Applies, Claimable, Status
  <2>6. Status(q.t) = "SUCCEEDED" /\ q.t \in Transactions => Status(q.t)' = "SUCCEEDED"
    BY <1>5 DEF Status
  <2>7. Fine(q)'
    BY <1>3, <1>8, <2>1, <2>3, <2>4, <2>5, <2>6
       DEF Fine, Calls, Serves, Applies, Receipts, Invoices, Rewrites
  <2> QED BY <2>7
<1>10. \A g \in Handlers : Fine(handler[g])'
  <2> SUFFICES ASSUME NEW g \in Handlers PROVE Fine(handler[g])'
    OBVIOUS
  <2>1. PICK q : q = handler'[g]
    OBVIOUS
  <2>2. Fine(q)'
    <3>1. CASE g = h
      BY <1>1, <2>1, <3>1
    <3>2. CASE g # h
      BY <1>1, <1>9, <2>1, <3>2
    <3> QED BY <3>1, <3>2
  <2> QED BY <2>1, <2>2, FineThen
<1>11. \A g, j \in Handlers : g # j => Apart(handler[g], handler[j])'
  <2> SUFFICES ASSUME NEW g \in Handlers, NEW j \in Handlers, g # j
               PROVE  Apart(handler[g], handler[j])'
    OBVIOUS
  <2>1. PICK q, x : q = handler'[g] /\ x = handler'[j]
    OBVIOUS
  <2>2. \A p, o : Apart(p, o) <=> Apart(o, p)
    BY DEF Apart
  <2>3. \A p, o : Apart(p, o)' <=> Apart(p, o)
    BY <1>3 DEF Apart, Calls, Applies, Receipts, Invoices
  <2>4. Apart(q, x)
    BY <1>1, <2>1, <2>2 DEF PaymentsInv
  <2> QED BY <2>1, <2>3, <2>4, ApartThen
<1>12. ASSUME NEW u \in Transactions PROVE RowOK(u)'
  <2>1. RowOK(u)
    BY DEF PaymentsInv
  <2>2. u \in sessions => transaction'[u].status # "NONE"
    BY <1>2, <2>1 DEF RowOK
  <2> QED BY <1>3, <1>5, <1>8, <2>1, <2>2 DEF RowOK, Status
<1>13. \A y \in Years : SeriesOK(y)'
  BY <1>6 DEF PaymentsInv, SeriesOK, SameDocuments
<1>14. ASSUME Undisturbed PROVE UndisturbedOK'
  <2>1. UndisturbedOK
    BY <1>14 DEF PaymentsInv
  <2>2. ASSUME NEW g \in Handlers PROVE Settling(handler[g])'
    <3>1. PICK q : q = handler'[g]
      OBVIOUS
    <3>2. Settling(q)'
      <4>1. CASE g = h
        BY <1>1, <1>14, <3>1, <4>1
      <4>2. CASE g # h
        <5>1. q = handler[g] /\ Settling(q) /\ Fine(q)
          BY <1>1, <2>1, <3>1, <4>2 DEF UndisturbedOK, PaymentsInv
        <5>2. q.pc \in {"calling", "refused"} \/ q.pc = "answer" => q.t \in Transactions
          BY <5>1 DEF Fine
        <5>3. q.pc \in {"calling", "refused"} => q.t \notin sessions /\ Status(q.t)' = "PENDING"
          BY <1>2, <1>14, <4>2, <5>1, <5>2 DEF Settling, Status
        <5>4. q.pc = "answer" => Status(q.t)' = "SUCCEEDED"
          BY <1>5, <5>1, <5>2 DEF Settling, Status
        <5> QED BY <1>3, <5>3, <5>4 DEF Settling
      <4> QED BY <4>1, <4>2
    <3> QED BY <3>1, <3>2 DEF Settling, Status
  <2>3. sessions \subseteq Transactions /\ \A e \in acked : e.t \in Transactions
    BY DEF PaymentsInv, TypeOK
  <2>4. \A u \in sessions : Status(u)' \in {"PENDING", "SUCCEEDED"}
    BY <1>2, <1>14, <2>1, <2>3 DEF UndisturbedOK, Status
  <2>5. \A u \in Transactions : transaction'[u].event # NoEvent => Status(u)' = "SUCCEEDED"
    BY <1>2, <1>14, <2>1 DEF UndisturbedOK, Status
  <2>6. \A e \in acked : Status(e.t)' = "SUCCEEDED"
    BY <1>5, <2>1, <2>3 DEF UndisturbedOK, Status
  <2> QED BY <1>3, <2>1, <2>2, <2>4, <2>5, <2>6 DEF UndisturbedOK
<1>15. \A e \in reported' : e.t \in sessions'
  BY <1>3 DEF PaymentsInv
<1> QED BY <1>4, <1>6, <1>7, <1>10, <1>11, <1>12, <1>13, <1>14, <1>15 DEF PaymentsInv, StepOK

\* The requests wait while the provider, the administrator or the clock goes on.
LEMMA RequestsWait ==
  ASSUME PaymentsInv, now' \in 0..MaxTime, subscription' \in SubscriptionRow,
         UNCHANGED <<surface, transaction, nextNumber, handler, sessions, acked, receipts, aborts>>,
         reported \subseteq reported', reported' \subseteq Events,
         \A e \in reported' \ reported :
           e.t \in sessions /\ (Undisturbed => e.outcome = "succeeded")
  PROVE  StepOK
<1>1. /\ surface' = surface /\ transaction' = transaction /\ nextNumber' = nextNumber
      /\ sessions' = sessions /\ handler' = handler /\ acked' = acked /\ receipts' = receipts
      /\ aborts' = aborts
  OBVIOUS
<1>2. TypeOK'
  BY <1>1 DEF PaymentsInv, TypeOK, SubscriptionRow
<1>3. \A h \in Handlers : Fine(handler[h])'
  <2> SUFFICES ASSUME NEW h \in Handlers PROVE Fine(handler[h])'
    OBVIOUS
  <2>1. PICK q : q = handler[h]
    OBVIOUS
  <2>2. Fine(q)
    BY <2>1 DEF PaymentsInv
  <2>3. Status(q.t)' = Status(q.t) /\ (Claimable(q.t)' <=> Claimable(q.t))
    BY <1>1 DEF Status, Claimable
  <2>4. \A y, n : Before(y, n)' = Before(y, n)
    BY <1>1 DEF Before, Documents
  <2>5. Fine(q)'
    BY <1>1, <2>2, <2>3, <2>4
       DEF Fine, Calls, Serves, Applies, Receipts, Invoices, Rewrites
  <2> QED BY <1>1, <2>1, <2>5, FineThen
<1>4. \A g, h \in Handlers : g # h => Apart(handler[g], handler[h])'
  BY <1>1 DEF PaymentsInv, Apart, Calls, Applies, Receipts, Invoices
<1>5. \A t \in Transactions : RowOK(t)'
  BY <1>1 DEF PaymentsInv, RowOK, Before, Documents
<1>6. \A y \in Years : SeriesOK(y)'
  BY <1>1 DEF PaymentsInv, SeriesOK, Documents
<1>7. ASSUME Undisturbed PROVE UndisturbedOK'
  <2>1. UndisturbedOK
    BY <1>7 DEF PaymentsInv
  <2>2. \A h \in Handlers : Settling(handler[h])'
    BY <1>1, <2>1 DEF UndisturbedOK, Settling, Status
  <2> QED BY <1>1, <1>7, <2>1, <2>2 DEF UndisturbedOK, Status
<1>8. \A e \in reported' : e.t \in sessions'
  BY <1>1 DEF PaymentsInv
<1>9. PaidKept /\ SameDocuments
  BY <1>1 DEF PaidKept, Paid, SameDocuments, Documents
<1> QED BY <1>2, <1>3, <1>4, <1>5, <1>6, <1>7, <1>8, <1>9 DEF PaymentsInv, StepOK

-----------------------------------------------------------------------------
\* What a request that goes to another statement takes with it.
LEMMA GotoSets ==
  ASSUME PaymentsInv, NEW h \in Handlers, NEW point \in Points, Goto(h, point)
  PROVE  \E r \in HandlerState :
           /\ handler' = [handler EXCEPT ![h] = r] /\ r.pc = point
           /\ r.t = handler[h].t /\ r.event = handler[h].event /\ r.seen = handler[h].seen
           /\ r.year = handler[h].year /\ r.existing = handler[h].existing
           /\ r.date = handler[h].date /\ r.end = handler[h].end
           /\ r.number = handler[h].number /\ r.previous = handler[h].previous
<1> DEFINE r == [handler[h] EXCEPT !.pc = point]
<1>1. handler[h] \in HandlerState
  BY Rows DEF PaymentsInv
<1>2. r \in HandlerState /\ r.pc = point
  BY <1>1 DEF HandlerState
<1>3. /\ r.t = handler[h].t /\ r.event = handler[h].event /\ r.seen = handler[h].seen
      /\ r.year = handler[h].year /\ r.existing = handler[h].existing
      /\ r.date = handler[h].date /\ r.end = handler[h].end
      /\ r.number = handler[h].number /\ r.previous = handler[h].previous
  BY <1>1 DEF HandlerState
<1>4. handler' = [handler EXCEPT ![h] = r]
  BY DEF Goto
<1> HIDE DEF r
<1> QED BY <1>2, <1>3, <1>4

LEMMA Typed ==
  ASSUME PaymentsInv
  PROVE  /\ now \in 0..MaxTime /\ subscription \in SubscriptionRow /\ aborts \in 0..MaxAborts
         /\ acked \subseteq reported
         /\ Undisturbed => \A e \in acked : Status(e.t) = "SUCCEEDED"
BY Rows DEF PaymentsInv, TypeOK, UndisturbedOK

\* A request stays as far from the others as it was, if it does not begin to start, apply or
\* number anything.
LEMMA ApartStill ==
  ASSUME PaymentsInv, NEW h \in Handlers, NEW r,
         r.t = handler[h].t, r.year = handler[h].year,
         Calls(r) => Calls(handler[h]),
         Applies(r) \/ Receipts(r) => Applies(handler[h]) \/ Receipts(handler[h]),
         Invoices(r) => Invoices(handler[h])
  PROVE  \A g \in Handlers \ {h} : Apart(handler[g], r)
BY DEF PaymentsInv, Apart

\* A request goes to its next statement and to no new part of its work.
LEMMA GoesOn ==
  ASSUME PaymentsInv, NEW h \in Handlers, NEW point \in Points, Goto(h, point),
         UNCHANGED <<surface, transaction, nextNumber, sessions, reported, receipts>>,
         UNCHANGED <<now, subscription, aborts, acked>>,
         NEW q, q = handler[h],
         \A r : /\ r.pc = point /\ r.t = q.t /\ r.event = q.event /\ r.seen = q.seen
                /\ r.year = q.year /\ r.number = q.number /\ r.previous = q.previous
                => /\ Fine(r) /\ (Undisturbed => Settling(r))
                   /\ Calls(r) => Calls(q)
                   /\ Applies(r) \/ Receipts(r) => Applies(q) \/ Receipts(q)
                   /\ Invoices(r) => Invoices(q)
  PROVE  StepOK
<1>1. PICK r \in HandlerState :
        /\ handler' = [handler EXCEPT ![h] = r] /\ r.pc = point
        /\ r.t = q.t /\ r.event = q.event /\ r.seen = q.seen
        /\ r.year = q.year /\ r.end = q.end
        /\ r.number = q.number /\ r.previous = q.previous
  BY GotoSets
<1>2. \A g \in Handlers \ {h} : Apart(handler[g], r)
  BY <1>1, ApartStill
<1> QED BY <1>1, <1>2, Typed, HandlerMoves

\* The steps between the claim of a payment and its commit, and those after it.
LEMMA ApplyingKeeps ==
  ASSUME PaymentsInv, NEW h \in Handlers, surface' = surface,
         ExtendSubscription(h) \/ CheckReceipt(h) \/ RecordSession(h)
  PROVE  StepOK
<1>1. /\ UNCHANGED <<transaction, nextNumber, sessions, reported, receipts>>
      /\ UNCHANGED <<now, subscription, aborts, acked>>
  BY DEF ExtendSubscription, CheckReceipt, RecordSession, Stored, Outside
<1>2. PICK q : q = handler[h]
  OBVIOUS
<1>3. Fine(q) /\ q \in HandlerState
  BY <1>2, Rows DEF PaymentsInv
<1>4. CASE ExtendSubscription(h)
  <2> DEFINE p == IF surface = "organization" THEN "number" ELSE "commit"
  <2>1. Goto(h, p) /\ q.pc = "extend" /\ p \in Points
    BY <1>2, <1>4 DEF ExtendSubscription, At, Points
  <2> QED BY <1>1, <1>2, <1>3, <2>1, GoesOn
             DEF Fine, Settling, Calls, Serves, Applies, Receipts, Invoices, Rewrites
<1>5. CASE CheckReceipt(h)
  <2> DEFINE p == IF transaction[q.t].status = "SUCCEEDED" /\ ~transaction[q.t].receiptSent
                  THEN "send" ELSE "answer"
  <2>1. Goto(h, p) /\ q.pc = "receipt" /\ p \in Points /\ p \in {"send", "answer"}
    BY <1>2, <1>5 DEF CheckReceipt, At, Points
  <2> HIDE DEF p
  <2> QED BY <1>1, <1>2, <1>3, <2>1, GoesOn
             DEF Fine, Settling, Calls, Serves, Applies, Receipts, Invoices, Rewrites
<1>6. CASE RecordSession(h)
  BY <1>1, <1>6, Typed, HandlerEnds DEF RecordSession
<1> QED BY <1>4, <1>5, <1>6

\* The claim of the row makes a request the only one that applies its payment: the claim
\* finds the row free, and what has been paid before cannot be claimed.
LEMMA ClaimKeeps ==
  ASSUME PaymentsInv, NEW h \in Handlers, surface' = surface, Claim(h)
  PROVE  StepOK
<1> DEFINE p == IF Claimable(handler[h].t) THEN "period" ELSE "answer"
<1>1. /\ UNCHANGED <<transaction, nextNumber, sessions, reported, receipts>>
      /\ UNCHANGED <<now, subscription, aborts, acked>>
  BY DEF Claim, Stored, Outside
<1>2. PICK q : q = handler[h]
  OBVIOUS
<1>3. Fine(q) /\ q \in HandlerState /\ q.pc = "claim"
  BY <1>2, Rows DEF PaymentsInv, Claim, At
<1>4. Goto(h, p) /\ p \in Points /\ TransactionFree(q.t)
  BY <1>2 DEF Claim, Points
<1>5. PICK r \in HandlerState :
        /\ handler' = [handler EXCEPT ![h] = r] /\ r.pc = p
        /\ r.t = q.t /\ r.event = q.event /\ r.seen = q.seen /\ r.year = q.year
  BY <1>2, <1>4, GotoSets
<1>6. p = IF Claimable(q.t) THEN "period" ELSE "answer"
  BY <1>2
<1> HIDE DEF p
<1>7. q.t \in Transactions /\ q.event \in reported /\ q.event.t = q.t
      /\ (surface = "organization" => q.year \in Years)
  BY <1>3 DEF Fine, Serves
<1>8. Fine(r)
  BY <1>5, <1>6, <1>7 DEF Fine, Calls, Serves, Applies, Receipts, Invoices, Rewrites
<1>9. Undisturbed => Settling(r)
  <2> SUFFICES ASSUME Undisturbed, p = "answer" PROVE Status(q.t) = "SUCCEEDED"
    BY <1>5, <1>6 DEF Settling
  <2>1. q.t \in sessions
    BY <1>7 DEF PaymentsInv
  <2> QED BY <1>6, <2>1 DEF PaymentsInv, UndisturbedOK, Claimable, Status
<1>10. ASSUME NEW g \in Handlers \ {h} PROVE Apart(handler[g], r)
  <2>1. PICK x : x = handler[g]
    OBVIOUS
  <2>2. Fine(x)
    BY <2>1 DEF PaymentsInv
  <2>3. ~(Applies(x) /\ x.t = q.t)
    BY <1>4, <2>1 DEF TransactionFree, HoldsTransaction, Applies
  <2>4. ~(Receipts(x) /\ x.t = q.t /\ Claimable(q.t))
    BY <2>2 DEF Fine, Claimable, Status
  <2>5. Apart(x, r)
    BY <1>5, <1>6, <2>3, <2>4 DEF Apart, Calls, Applies, Receipts, Invoices
  <2> QED BY <2>1, <2>5
<1> QED BY <1>1, <1>5, <1>8, <1>9, <1>10, Typed, HandlerMoves

\* The period and the number of the document are computed from what is read at that moment;
\* the lock of the series keeps the number for this request.
LEMMA PeriodKeeps ==
  ASSUME PaymentsInv, NEW h \in Handlers, surface' = surface, ReadPeriod(h)
  PROVE  StepOK
<1> DEFINE r == [handler[h] EXCEPT !.pc = "extend", !.existing = subscription.status,
                                 !.date = now, !.end = PeriodEnd]
<1>1. /\ UNCHANGED <<transaction, nextNumber, sessions, reported, receipts>>
      /\ UNCHANGED <<now, subscription, aborts, acked>>
  BY DEF ReadPeriod, Stored, Outside
<1>2. Fine(handler[h]) /\ handler[h] \in HandlerState /\ handler[h].pc = "period"
  BY Rows DEF PaymentsInv, ReadPeriod, At
<1>3. PeriodEnd \in Nat /\ now \in Nat /\ subscription.status \in SubscriptionStatus
  BY Bounds DEF PaymentsInv, TypeOK, PeriodEnd, addInterval
<1>4. r \in HandlerState /\ handler' = [handler EXCEPT ![h] = r]
  <2>1. r \in HandlerState
    BY <1>2, <1>3 DEF HandlerState, Points
  <2>2. handler' = [handler EXCEPT ![h] = r]
    BY DEF ReadPeriod
  <2> QED BY <2>1, <2>2
<1>5. /\ r.pc = "extend" /\ r.t = handler[h].t /\ r.event = handler[h].event
      /\ r.year = handler[h].year
  BY <1>2 DEF HandlerState
<1> HIDE DEF r
<1>6. PICK q : q = handler[h]
  OBVIOUS
<1>7. Fine(r) /\ Settling(r)
  BY <1>2, <1>5, <1>6
     DEF Fine, Settling, Calls, Serves, Applies, Receipts, Invoices, Rewrites
<1>8. \A g \in Handlers \ {h} : Apart(handler[g], r)
  BY <1>2, <1>5, ApartStill DEF Calls, Applies, Receipts, Invoices
<1> QED BY <1>1, <1>4, <1>7, <1>8, Typed, HandlerMoves

LEMMA NumberKeeps ==
  ASSUME PaymentsInv, NEW h \in Handlers, surface' = surface, AllocateInvoiceNumber(h)
  PROVE  StepOK
<1> DEFINE r == [handler[h] EXCEPT !.pc = "chain", !.number = nextNumber[handler[h].year] + 1]
<1>1. /\ UNCHANGED <<transaction, nextNumber, sessions, reported, receipts>>
      /\ UNCHANGED <<now, subscription, aborts, acked>>
  BY DEF AllocateInvoiceNumber, Stored, Outside
<1>2. Fine(handler[h]) /\ handler[h] \in HandlerState /\ handler[h].pc = "number"
  BY Rows DEF PaymentsInv, AllocateInvoiceNumber, At
<1>3. PICK q : q = handler[h]
  OBVIOUS
<1>4. surface = "organization" /\ q.year \in Years /\ SeriesFree(q.year)
  BY <1>2, <1>3 DEF Fine, Serves, AllocateInvoiceNumber
<1>5. nextNumber[q.year] \in Nat
  BY <1>4 DEF PaymentsInv, TypeOK
<1>6. r \in HandlerState /\ handler' = [handler EXCEPT ![h] = r]
  <2>1. PICK n \in Nat : n = nextNumber[handler[h].year] + 1
    BY <1>3, <1>5
  <2>3. [handler[h] EXCEPT !.pc = "chain", !.number = n] \in HandlerState
    BY <1>2 DEF HandlerState, Points
  <2>4. r \in HandlerState
    BY <2>1, <2>3
  <2>2. handler' = [handler EXCEPT ![h] = r]
    BY DEF AllocateInvoiceNumber
  <2> QED BY <2>2, <2>4
<1>7. /\ r.pc = "chain" /\ r.t = q.t /\ r.event = q.event
      /\ r.year = q.year /\ r.number = nextNumber[q.year] + 1
  BY <1>2, <1>3 DEF HandlerState
<1> HIDE DEF r
<1>8. Fine(r) /\ Settling(r)
  BY <1>2, <1>3, <1>4, <1>7
     DEF Fine, Settling, Calls, Serves, Applies, Receipts, Invoices, Rewrites
<1>9. ASSUME NEW g \in Handlers \ {h} PROVE Apart(handler[g], r)
  <2>1. PICK x : x = handler[g]
    OBVIOUS
  <2>2. Apart(x, q)
    BY <1>3, <2>1 DEF PaymentsInv
  <2>3. ~(Invoices(x) /\ x.year = q.year)
    BY <1>4, <2>1 DEF SeriesFree, HoldsSeries, Invoices
  <2>4. Apart(x, r)
    BY <1>2, <1>3, <1>7, <2>2, <2>3 DEF Apart, Calls, Applies, Receipts, Invoices
  <2> QED BY <2>1, <2>4
<1> QED BY <1>1, <1>6, <1>8, <1>9, Typed, HandlerMoves

\* The document just before is there, because every committed number has one.
LEMMA ChainKeeps ==
  ASSUME PaymentsInv, NEW h \in Handlers, surface' = surface, PreviousInvoiceHash(h)
  PROVE  StepOK
<1>1. /\ UNCHANGED <<transaction, nextNumber, sessions, reported, receipts>>
      /\ UNCHANGED <<now, subscription, aborts, acked>>
  BY DEF PreviousInvoiceHash, Stored, Outside
<1>2. PICK q : q = handler[h]
  OBVIOUS
<1>3. Fine(q) /\ q \in HandlerState /\ q.pc = "chain"
  BY <1>2, Rows DEF PaymentsInv, PreviousInvoiceHash, At
<1>4. PICK d \in PreviousDocument(q.year, q.number) :
        handler' = [handler EXCEPT ![h].pc = "commit", ![h].previous = d]
  BY <1>2 DEF PreviousInvoiceHash
<1>5. surface = "organization" /\ q.year \in Years /\ q.number = nextNumber[q.year] + 1
  BY <1>3 DEF Fine, Serves, Invoices
<1>6. nextNumber[q.year] \in Nat
  BY <1>5 DEF PaymentsInv, TypeOK
<1>7. d \in Before(q.year, q.number)
  <2>1. CASE q.number <= 1
    BY <1>4, <1>5, <1>6, <2>1 DEF PreviousDocument, Before
  <2>2. CASE q.number > 1
    <3>1. q.number - 1 \in 1..nextNumber[q.year]
      BY <1>5, <1>6, <2>2
    <3>2. Documents(q.year, q.number - 1) # {}
      BY <1>5, <3>1 DEF PaymentsInv, SeriesOK
    <3> QED BY <1>4, <1>5, <1>6, <2>2, <3>2 DEF PreviousDocument, Before
  <2> QED BY <1>5, <1>6, <2>1, <2>2
<1>8. d \in Transactions \cup {NoTransaction}
  BY <1>7 DEF Before, Documents
<1> DEFINE r == [q EXCEPT !.pc = "commit", !.previous = d]
<1>9. r \in HandlerState
  BY <1>3, <1>8 DEF HandlerState, Points
<1>10. handler' = [handler EXCEPT ![h] = r]
  BY <1>2, <1>4
<1>11. /\ r.pc = "commit" /\ r.t = q.t /\ r.event = q.event /\ r.year = q.year
       /\ r.number = q.number /\ r.previous = d
  BY <1>3 DEF HandlerState
<1> HIDE DEF r
<1>12. Fine(r) /\ Settling(r)
  BY <1>3, <1>5, <1>7, <1>11
     DEF Fine, Settling, Calls, Serves, Applies, Receipts, Invoices, Rewrites
<1>13. \A g \in Handlers \ {h} : Apart(handler[g], r)
  BY <1>2, <1>3, <1>11, ApartStill DEF Calls, Applies, Receipts, Invoices
<1> QED BY <1>1, <1>9, <1>10, <1>12, <1>13, Typed, HandlerMoves

-----------------------------------------------------------------------------
\* The columns a request writes, and the row that leaves.
SetsStatus(t, s) == transaction' = [transaction EXCEPT ![t].status = s]
SetsEvent(t, s, e) == transaction' = [transaction EXCEPT ![t].status = s, ![t].event = e]
SetsReceipt(t) == transaction' = [transaction EXCEPT ![t].receiptSent = TRUE]

LEMMA StatusWrites ==
  ASSUME PaymentsInv, NEW t \in Transactions, NEW s \in TransactionStatus,
         SetsStatus(t, s)
  PROVE  \E row \in TransactionRow :
           /\ transaction' = [transaction EXCEPT ![t] = row] /\ transaction'[t] = row
           /\ row.status = s /\ row.event = transaction[t].event
           /\ row.year = transaction[t].year /\ row.number = transaction[t].number
           /\ row.previous = transaction[t].previous
<1>1. transaction[t] \in TransactionRow /\ transaction \in [Transactions -> TransactionRow]
  BY Rows DEF PaymentsInv
<1> DEFINE row == [transaction[t] EXCEPT !.status = s]
<1>2. row \in TransactionRow
  BY <1>1 DEF TransactionRow
<1>3. /\ row.status = s /\ row.event = transaction[t].event
      /\ row.year = transaction[t].year /\ row.number = transaction[t].number
      /\ row.previous = transaction[t].previous
  BY <1>1 DEF TransactionRow
<1>4. transaction' = [transaction EXCEPT ![t] = row]
  BY DEF SetsStatus
<1> HIDE DEF row
<1> QED BY <1>1, <1>2, <1>3, <1>4

LEMMA EventWrites ==
  ASSUME PaymentsInv, NEW t \in Transactions, NEW s \in TransactionStatus, NEW e \in Events,
         SetsEvent(t, s, e)
  PROVE  \E row \in TransactionRow :
           /\ transaction' = [transaction EXCEPT ![t] = row] /\ transaction'[t] = row
           /\ row.status = s /\ row.event = e
           /\ row.year = transaction[t].year /\ row.number = transaction[t].number
           /\ row.previous = transaction[t].previous
<1>1. transaction[t] \in TransactionRow /\ transaction \in [Transactions -> TransactionRow]
  BY Rows DEF PaymentsInv
<1> DEFINE row == [transaction[t] EXCEPT !.status = s, !.event = e]
<1>2. row \in TransactionRow
  BY <1>1 DEF TransactionRow
<1>3. /\ row.status = s /\ row.event = e
      /\ row.year = transaction[t].year /\ row.number = transaction[t].number
      /\ row.previous = transaction[t].previous
  BY <1>1 DEF TransactionRow
<1>4. transaction' = [transaction EXCEPT ![t] = row]
  <2>1. [transaction EXCEPT ![t].status = s]
          = [transaction EXCEPT ![t] = [transaction[t] EXCEPT !.status = s]]
    OBVIOUS
  <2>2. [transaction EXCEPT ![t].status = s][t] = [transaction[t] EXCEPT !.status = s]
    BY <1>1, <2>1
  <2> QED BY <1>1, <2>1, <2>2 DEF SetsEvent
<1> HIDE DEF row
<1> QED BY <1>1, <1>2, <1>3, <1>4

LEMMA ReceiptWrites ==
  ASSUME PaymentsInv, NEW t \in Transactions,
         SetsReceipt(t)
  PROVE  \E row \in TransactionRow :
           /\ transaction' = [transaction EXCEPT ![t] = row] /\ transaction'[t] = row
           /\ row.status = transaction[t].status /\ row.event = transaction[t].event
           /\ row.year = transaction[t].year /\ row.number = transaction[t].number
           /\ row.previous = transaction[t].previous
<1>1. transaction[t] \in TransactionRow /\ transaction \in [Transactions -> TransactionRow]
  BY Rows DEF PaymentsInv
<1> DEFINE row == [transaction[t] EXCEPT !.receiptSent = TRUE]
<1>2. row \in TransactionRow
  BY <1>1 DEF TransactionRow
<1>3. /\ row.status = transaction[t].status /\ row.event = transaction[t].event
      /\ row.year = transaction[t].year /\ row.number = transaction[t].number
      /\ row.previous = transaction[t].previous
  BY <1>1 DEF TransactionRow
<1>4. transaction' = [transaction EXCEPT ![t] = row]
  BY DEF SetsReceipt
<1> HIDE DEF row
<1> QED BY <1>1, <1>2, <1>3, <1>4

\* A payment is started only once: no request and no session knows it yet.
LEMMA StartKeeps ==
  ASSUME PaymentsInv, NEW h \in Handlers, NEW t \in Transactions, surface' = surface,
         StartPayment(h, t)
  PROVE  StepOK
<1> DEFINE r == [Idle EXCEPT !.pc = "calling", !.t = t]
<1>1. UNCHANGED <<surface, now, nextNumber, sessions, reported, acked, receipts, aborts>>
  BY DEF StartPayment, Outside
<1>2. Status(t) = "NONE" /\ subscription' \in SubscriptionRow
  BY Rows DEF StartPayment, PaymentsInv, Status
<1>3. r \in HandlerState /\ r.pc = "calling" /\ r.t = t
  BY DEF SubscriptionStatus, Idle, HandlerState, Points, TransactionStatus
<1>4. handler' = [handler EXCEPT ![h] = r]
  BY DEF StartPayment
<1> HIDE DEF r
<1>5. SetsStatus(t, "PENDING")
  BY DEF StartPayment, SetsStatus
<1>6. "PENDING" \in TransactionStatus
  BY DEF TransactionStatus
<1>7. PICK row \in TransactionRow :
        /\ transaction' = [transaction EXCEPT ![t] = row] /\ transaction'[t] = row
        /\ row.status = "PENDING" /\ row.event = transaction[t].event
        /\ row.year = transaction[t].year /\ row.number = transaction[t].number
        /\ row.previous = transaction[t].previous
  BY <1>5, <1>6, StatusWrites
<1>8. \A g \in Handlers : ~((Applies(handler[g]) \/ Calls(handler[g])) /\ handler[g].t = t)
  BY <1>2 DEF PaymentsInv, Fine, Claimable, Status
<1>9. t \notin sessions
  BY <1>2 DEF PaymentsInv, RowOK, Status
<1>10. Undisturbed => transaction[t].event = NoEvent
  BY <1>2 DEF PaymentsInv, UndisturbedOK
<1>11. Fine(r)' /\ Settling(r)'
  BY <1>1, <1>3, <1>7, <1>9
     DEF Fine, Settling, Calls, Serves, Applies, Receipts, Invoices, Rewrites, Status
<1>12. \A g \in Handlers \ {h} : Apart(handler[g], r)
  BY <1>3, <1>8 DEF Apart, Calls, Applies, Receipts, Invoices
<1>13. ~(row.status = "SUCCEEDED") /\ Status(t) # "SUCCEEDED" /\ row.status # "NONE"
  BY <1>2, <1>7
<1>14. Undisturbed =>
         /\ t \in sessions => row.status \in {"PENDING", "SUCCEEDED"}
         /\ row.event # NoEvent => row.status = "SUCCEEDED"
         /\ \A g \in Handlers \ {h} :
              handler[g].pc \in {"calling", "refused"} /\ handler[g].t = t
                => row.status = "PENDING"
  BY <1>7, <1>10
<1> QED BY <1>1, <1>2, <1>3, <1>4, <1>7, <1>8, <1>11, <1>12, <1>13, <1>14, RowWritten

\* A request writes a status by id that is not paid, over one that is not paid.
LEMMA StatusKeeps ==
  ASSUME PaymentsInv, NEW h \in Handlers, surface' = surface,
         RecordRefusal(h) \/ WriteFailed(h) \/ WriteProofStatus(h)
  PROVE  StepOK
<1>1. UNCHANGED <<surface, now, nextNumber, sessions, reported, acked, receipts, aborts>>
  BY DEF RecordRefusal, WriteFailed, WriteProofStatus, Outside
<1>2. PICK q : q = handler[h]
  OBVIOUS
<1>3. Fine(q) /\ q \in HandlerState /\ q.pc \in {"refused", "fail", "proof"}
  BY <1>2, Rows DEF PaymentsInv, RecordRefusal, WriteFailed, WriteProofStatus, At
<1>4. q.t \in Transactions /\ Status(q.t) # "SUCCEEDED"
  BY <1>3 DEF Fine, Rewrites
<1>5. TransactionFree(q.t) /\ subscription' \in SubscriptionRow
  BY <1>2, Rows DEF RecordRefusal, WriteFailed, WriteProofStatus, PaymentsInv
<1>6. \A g \in Handlers : ~(Applies(handler[g]) /\ handler[g].t = q.t)
  BY <1>5 DEF TransactionFree, HoldsTransaction, Applies
<1>7. \E s \in {"FAILED", "UNDER_REVIEW"} :
        \/ SetsStatus(q.t, s)
        \/ SetsEvent(q.t, s, q.event) /\ q.pc = "fail" /\ q.event \in Events
  <2>1. CASE RecordRefusal(h)
    BY <1>2, <2>1 DEF RecordRefusal, SetsStatus
  <2>2. CASE WriteFailed(h)
    <3>1. q.pc = "fail" /\ q.event \in Events
      BY <1>2, <1>3, <2>2 DEF WriteFailed, At, Fine, Serves, PaymentsInv, TypeOK
    <3> QED BY <1>2, <2>2, <3>1 DEF WriteFailed, SetsEvent
  <2>3. CASE WriteProofStatus(h)
    <3>1. q.seen \in {"PENDING", "UNDER_REVIEW"}
      BY <1>2, <1>3, <2>3 DEF WriteProofStatus, At, Fine
    <3> QED BY <1>2, <2>3, <3>1 DEF WriteProofStatus, SetsStatus
  <2> QED BY <2>1, <2>2, <2>3
<1>8. PICK s \in {"FAILED", "UNDER_REVIEW"} :
        \/ SetsStatus(q.t, s)
        \/ SetsEvent(q.t, s, q.event) /\ q.pc = "fail" /\ q.event \in Events
  BY <1>7
<1>9. PICK row \in TransactionRow :
        /\ transaction' = [transaction EXCEPT ![q.t] = row] /\ transaction'[q.t] = row
        /\ row.status = s /\ (row.event = transaction[q.t].event \/ q.pc = "fail")
        /\ row.year = transaction[q.t].year /\ row.number = transaction[q.t].number
        /\ row.previous = transaction[q.t].previous
  <2>1. s \in TransactionStatus
    BY DEF TransactionStatus
  <2>2. CASE SetsStatus(q.t, s)
    BY <1>4, <2>1, <2>2, StatusWrites
  <2>3. CASE SetsEvent(q.t, s, q.event) /\ q.pc = "fail" /\ q.event \in Events
    BY <1>4, <2>1, <2>3, EventWrites
  <2> QED BY <1>8, <2>2, <2>3
<1>10. row.status # "NONE" /\ row.status # "SUCCEEDED"
  BY <1>9
<1>11. ASSUME Undisturbed
       PROVE  q.pc = "refused" /\ q.t \notin sessions /\ row.event = NoEvent
  <2>1. ~(q.pc = "fail") /\ ~(q.pc = "proof")
    BY <1>3, <1>11 DEF Fine, Serves, Undisturbed, PaymentsInv, UndisturbedOK
  <2>2. q.t \notin sessions
    BY <1>2, <1>3, <1>11, <2>1 DEF PaymentsInv, UndisturbedOK, Settling
  <2>3. transaction[q.t].event = NoEvent
    BY <1>4, <1>11 DEF PaymentsInv, UndisturbedOK, Status
  <2> QED BY <1>3, <1>8, <1>9, <2>1, <2>2, <2>3
<1>12. ASSUME Undisturbed, NEW g \in Handlers \ {h}
       PROVE  ~(handler[g].pc \in {"calling", "refused"} /\ handler[g].t = q.t)
  <2>1. Calls(q)
    BY <1>11, <1>12 DEF Calls
  <2>2. Apart(handler[g], q)
    BY <1>2 DEF PaymentsInv
  <2> QED BY <2>1, <2>2 DEF Apart, Calls
<1>13. PICK r \in HandlerState :
         /\ handler' = [handler EXCEPT ![h] = r]
         /\ Fine(r)' /\ (Undisturbed => Settling(r)')
         /\ \A g \in Handlers \ {h} : Apart(handler[g], r)
  <2>1. CASE WriteFailed(h)
    <3>1. Goto(h, "answer") /\ "answer" \in Points /\ q.pc = "fail"
      BY <1>2, <2>1 DEF WriteFailed, Points, At
    <3>2. PICK r \in HandlerState :
            /\ handler' = [handler EXCEPT ![h] = r] /\ r.pc = "answer"
            /\ r.t = q.t /\ r.event = q.event /\ r.year = q.year
      BY <1>2, <3>1, GotoSets
    <3>3. q.event \in reported /\ q.event.t = q.t /\ (surface = "organization" => q.year \in Years)
      BY <1>3, <3>1 DEF Fine, Serves
    <3>4. Fine(r)'
      BY <1>1, <1>4, <3>2, <3>3
         DEF Fine, Calls, Serves, Applies, Receipts, Invoices, Rewrites
    <3>5. ~Undisturbed
      BY <1>11, <3>1
    <3>6. \A g \in Handlers \ {h} : Apart(handler[g], r)
      BY <3>2 DEF Apart, Calls, Applies, Receipts, Invoices
    <3> QED BY <3>2, <3>4, <3>5, <3>6
  <2>2. CASE Finish(h)
    <3>1. Fine(Idle)' /\ Settling(Idle)'
      BY IdleFine DEF Fine, Settling, Calls, Serves, Applies, Receipts, Invoices, Rewrites
    <3> QED BY <2>2, <3>1, IdleFine DEF Finish
  <2> QED BY <2>1, <2>2 DEF RecordRefusal, WriteProofStatus
<1>14. Undisturbed =>
         /\ q.t \in sessions => row.status \in {"PENDING", "SUCCEEDED"}
         /\ row.event # NoEvent => row.status = "SUCCEEDED"
         /\ \A g \in Handlers \ {h} :
              handler[g].pc \in {"calling", "refused"} /\ handler[g].t = q.t
                => row.status = "PENDING"
  BY <1>11, <1>12
<1> QED BY <1>1, <1>4, <1>5, <1>6, <1>9, <1>10, <1>13, <1>14, RowWritten

-----------------------------------------------------------------------------
\* A request that begins with an event of the provider: it works from what it read of the row
\* before the claim, and an event of a payment already applied is only acknowledged.
LEMMA ReceiveKeeps ==
  ASSUME PaymentsInv, NEW h \in Handlers, NEW e \in Events, NEW y \in Years \cup {0},
         surface' = surface, Receive(h, e, y), surface = "organization" => y \in Years
  PROVE  StepOK
<1> DEFINE p == CASE AlreadyApplied(e) -> "answer"
                  [] ~AlreadyApplied(e) /\ e.outcome = "failed" -> "fail"
                  [] OTHER -> "claim"
           r == [Idle EXCEPT !.t = e.t, !.event = e, !.year = y, !.pc = p]
<1>1. /\ UNCHANGED <<transaction, nextNumber, sessions, reported, receipts>>
      /\ UNCHANGED <<now, subscription, aborts, acked>>
  BY DEF Receive, Stored, Outside
<1>2. p \in {"answer", "fail", "claim"} /\ p \in Points
  BY DEF Points
<1>3. /\ p = "answer" => AlreadyApplied(e)
      /\ p = "fail" => ~AlreadyApplied(e) /\ e.outcome = "failed"
  OBVIOUS
<1>4. handler' = [handler EXCEPT ![h] = r]
  BY DEF Receive
<1> HIDE DEF p
<1>5. e.t \in Transactions /\ e \in reported
  BY DEF Receive, Events
<1>6. r \in HandlerState
  BY <1>2, <1>5 DEF SubscriptionStatus, Idle, HandlerState, TransactionStatus
<1>7. r.pc = p /\ r.t = e.t /\ r.event = e /\ r.year = y
  BY DEF Idle
<1> HIDE DEF r
<1>8. Fine(r)
  BY <1>2, <1>3, <1>5, <1>7
     DEF Fine, Calls, Serves, Applies, Receipts, Invoices, Rewrites, AlreadyApplied, Status
<1>9. Undisturbed => Settling(r)
  BY <1>2, <1>3, <1>5, <1>7, NoEventIsNone
     DEF Settling, PaymentsInv, UndisturbedOK, AlreadyApplied, Status
<1>10. \A g \in Handlers \ {h} : Apart(handler[g], r)
  BY <1>2, <1>7 DEF Apart, Calls, Applies, Receipts, Invoices
<1> QED BY <1>1, <1>4, <1>6, <1>8, <1>9, <1>10, Typed, HandlerMoves

LEMMA ProofKeeps ==
  ASSUME PaymentsInv, NEW h \in Handlers, NEW t \in Transactions, surface' = surface,
         ReadForProof(h, t)
  PROVE  StepOK
<1> DEFINE r == [Idle EXCEPT !.pc = "proof", !.t = t, !.seen = transaction[t].status]
<1>1. /\ UNCHANGED <<transaction, nextNumber, sessions, reported, receipts>>
      /\ UNCHANGED <<now, subscription, aborts, acked>>
  BY DEF ReadForProof, Stored, Outside
<1>2. handler' = [handler EXCEPT ![h] = r]
  BY DEF ReadForProof
<1>3. transaction[t].status \in {"PENDING", "UNDER_REVIEW"} /\ "proof" \in Operations
  BY DEF ReadForProof
<1>4. r \in HandlerState
  BY <1>3 DEF SubscriptionStatus, Idle, HandlerState, TransactionStatus, Points
<1>5. r.pc = "proof" /\ r.t = t /\ r.seen = transaction[t].status
  BY DEF Idle
<1> HIDE DEF r
<1>6. Fine(r) /\ Settling(r)
  BY <1>3, <1>5
     DEF Fine, Settling, Calls, Serves, Applies, Receipts, Invoices, Rewrites, Status
<1>7. \A g \in Handlers \ {h} : Apart(handler[g], r)
  BY <1>5 DEF Apart, Calls, Applies, Receipts, Invoices
<1> QED BY <1>1, <1>2, <1>4, <1>6, <1>7, Typed, HandlerMoves

\* The provider is asked for one payment, which nobody else is asking for.
LEMMA CallKeeps ==
  ASSUME PaymentsInv, NEW h \in Handlers, surface' = surface, CallProvider(h)
  PROVE  StepOK
<1>1. /\ UNCHANGED <<surface, transaction, nextNumber, reported>>
      /\ now' = now /\ subscription' = subscription /\ aborts' = aborts /\ acked' = acked
      /\ receipts' = receipts
  BY DEF CallProvider, Stored
<1>2. PICK q : q = handler[h]
  OBVIOUS
<1>3. Fine(q) /\ q \in HandlerState /\ q.pc = "calling"
  BY <1>2, Rows DEF PaymentsInv, CallProvider, At
<1>4. q.t \in Transactions /\ Status(q.t) # "NONE" /\ Status(q.t) # "SUCCEEDED"
  BY <1>3 DEF Fine, Calls, Rewrites
<1>5. PICK p \in {"opened", "refused"} :
        /\ Goto(h, p)
        /\ sessions' = sessions \cup {q.t} \/ sessions' = sessions
        /\ p = "refused" => sessions' = sessions \/ "lost" \in Operations
  BY <1>2 DEF CallProvider
<1>6. p \in Points
  BY DEF Points
<1>7. PICK r \in HandlerState :
        /\ handler' = [handler EXCEPT ![h] = r] /\ r.pc = p
        /\ r.t = q.t /\ r.event = q.event /\ r.seen = q.seen /\ r.year = q.year
  BY <1>2, <1>5, <1>6, GotoSets
<1>8. Fine(r)'
  BY <1>1, <1>4, <1>7
     DEF Fine, Calls, Serves, Applies, Receipts, Invoices, Rewrites, Status
<1>9. ASSUME Undisturbed PROVE Status(q.t) = "PENDING" /\ q.t \notin sessions /\ Settling(r)'
  <2>1. Status(q.t) = "PENDING" /\ q.t \notin sessions
    BY <1>2, <1>3, <1>9 DEF PaymentsInv, UndisturbedOK, Settling
  <2>2. p = "refused" => sessions' = sessions
    BY <1>5, <1>9 DEF Undisturbed
  <2> QED BY <1>1, <1>7, <2>1, <2>2 DEF Settling, Status
<1>10. \A g \in Handlers \ {h} : ~(Calls(handler[g]) /\ handler[g].t = q.t)
  BY <1>2, <1>3 DEF PaymentsInv, Apart, Calls
<1>11. \A g \in Handlers \ {h} : Apart(handler[g], r)
  BY <1>2, <1>3, <1>7, ApartStill DEF Calls, Applies, Receipts, Invoices
<1>12. /\ sessions \subseteq sessions' /\ sessions' \subseteq Transactions
       /\ \A t \in sessions' \ sessions : t = q.t
       /\ receipts \in [Transactions -> Nat]
  BY <1>4, <1>5 DEF PaymentsInv, TypeOK
<1> QED BY <1>1, <1>4, <1>7, <1>8, <1>9, <1>10, <1>11, <1>12, Typed, OutsideMoves

\* The receipt of a payment is in one request's hands, and has not been sent.
LEMMA SendKeeps ==
  ASSUME PaymentsInv, NEW h \in Handlers, surface' = surface, SendReceipt(h)
  PROVE  StepOK
<1>1. /\ UNCHANGED <<surface, transaction, nextNumber, reported>>
      /\ now' = now /\ subscription' = subscription /\ aborts' = aborts /\ acked' = acked
      /\ sessions' = sessions
  BY DEF SendReceipt, Stored
<1>2. PICK q : q = handler[h]
  OBVIOUS
<1>3. Fine(q) /\ q \in HandlerState /\ q.pc = "send"
  BY <1>2, Rows DEF PaymentsInv, SendReceipt, At
<1>4. /\ q.t \in Transactions /\ Status(q.t) = "SUCCEEDED" /\ receipts[q.t] = 0
      /\ q.event \in reported /\ q.event.t = q.t
      /\ surface = "organization" => q.year \in Years
  BY <1>3 DEF Fine, Receipts, Serves
<1>5. PICK p \in {"sent", "answer"} :
        /\ Goto(h, p)
        /\ receipts' = [receipts EXCEPT ![q.t] = @ + 1] \/ receipts' = receipts
  BY <1>2 DEF SendReceipt
<1>6. p \in Points
  BY DEF Points
<1>7. PICK r \in HandlerState :
        /\ handler' = [handler EXCEPT ![h] = r] /\ r.pc = p
        /\ r.t = q.t /\ r.event = q.event /\ r.seen = q.seen /\ r.year = q.year
  BY <1>2, <1>5, <1>6, GotoSets
<1>8. Fine(r)' /\ Settling(r)'
  BY <1>1, <1>4, <1>7
     DEF Fine, Settling, Calls, Serves, Applies, Receipts, Invoices, Rewrites, Status
<1>9. receipts \in [Transactions -> Nat] /\ sessions \subseteq Transactions
  BY DEF PaymentsInv, TypeOK
<1>10. /\ receipts' \in [Transactions -> Nat]
       /\ \A t \in Transactions : receipts'[t] # receipts[t] => t = q.t /\ receipts'[t] = 1
  BY <1>4, <1>5, <1>9
<1>11. \A g \in Handlers \ {h} : ~(Receipts(handler[g]) /\ handler[g].t = q.t)
  BY <1>2, <1>3 DEF PaymentsInv, Apart, Receipts
<1>12. \A g \in Handlers \ {h} : Apart(handler[g], r)
  BY <1>2, <1>3, <1>7, ApartStill DEF Calls, Applies, Receipts, Invoices
<1> QED BY <1>1, <1>4, <1>7, <1>8, <1>9, <1>10, <1>11, <1>12, Typed, OutsideMoves

\* What the provider is told we know of is paid.
LEMMA AnswerKeeps ==
  ASSUME PaymentsInv, NEW h \in Handlers, surface' = surface, Answer(h)
  PROVE  StepOK
<1>1. /\ UNCHANGED <<transaction, nextNumber, sessions, reported, receipts>>
      /\ now' = now /\ subscription' = subscription /\ aborts' = aborts /\ Finish(h)
  BY DEF Answer, Stored, Outside
<1>2. PICK q : q = handler[h]
  OBVIOUS
<1>3. Fine(q) /\ q.pc = "answer"
  BY <1>2 DEF PaymentsInv, Answer, At
<1>4. q.event \in reported /\ q.event.t = q.t
  BY <1>3 DEF Fine, Serves
<1>5. Undisturbed => Status(q.t) = "SUCCEEDED"
  BY <1>2, <1>3 DEF PaymentsInv, UndisturbedOK, Settling
<1>6. acked' = acked \cup {q.event}
  BY <1>2 DEF Answer
<1>7. acked' \subseteq reported /\ (Undisturbed => \A e \in acked' : Status(e.t) = "SUCCEEDED")
  BY <1>4, <1>5, <1>6, Typed
<1> QED BY <1>1, <1>7, Typed, HandlerEnds

LEMMA RecordReceiptKeeps ==
  ASSUME PaymentsInv, NEW h \in Handlers, surface' = surface, RecordReceipt(h)
  PROVE  StepOK
<1>1. /\ UNCHANGED <<surface, now, nextNumber, sessions, reported, acked, receipts, aborts>>
      /\ subscription' \in SubscriptionRow
  BY Typed DEF RecordReceipt, Outside
<1>2. PICK q : q = handler[h]
  OBVIOUS
<1>3. Fine(q) /\ q \in HandlerState /\ q.pc = "sent"
  BY <1>2, Rows DEF PaymentsInv, RecordReceipt, At
<1>4. /\ q.t \in Transactions /\ Status(q.t) = "SUCCEEDED"
      /\ q.event \in reported /\ q.event.t = q.t
      /\ surface = "organization" => q.year \in Years
  BY <1>3 DEF Fine, Serves
<1>5. Goto(h, "answer") /\ "answer" \in Points
  BY DEF RecordReceipt, Points
<1>6. PICK r \in HandlerState :
        /\ handler' = [handler EXCEPT ![h] = r] /\ r.pc = "answer"
        /\ r.t = q.t /\ r.event = q.event /\ r.seen = q.seen /\ r.year = q.year
  BY <1>2, <1>5, GotoSets
<1>7. SetsReceipt(q.t)
  BY <1>2 DEF RecordReceipt, SetsReceipt
<1>8. PICK row \in TransactionRow :
        /\ transaction' = [transaction EXCEPT ![q.t] = row] /\ transaction'[q.t] = row
        /\ row.status = transaction[q.t].status /\ row.event = transaction[q.t].event
        /\ row.year = transaction[q.t].year /\ row.number = transaction[q.t].number
        /\ row.previous = transaction[q.t].previous
  BY <1>4, <1>7, ReceiptWrites
<1>9. Fine(r)' /\ Settling(r)'
  BY <1>1, <1>4, <1>6, <1>8
     DEF Fine, Settling, Calls, Serves, Applies, Receipts, Invoices, Rewrites, Status
<1>10. \A g \in Handlers \ {h} : Apart(handler[g], r)
  BY <1>6 DEF Apart, Calls, Applies, Receipts, Invoices
<1>11. row.status = "SUCCEEDED" /\ row.status = Status(q.t)
  BY <1>4, <1>8 DEF Status
<1>12. Undisturbed => \A g \in Handlers \ {h} :
         ~(handler[g].pc \in {"calling", "refused"} /\ handler[g].t = q.t)
  BY <1>4 DEF PaymentsInv, UndisturbedOK, Settling
<1> QED BY <1>1, <1>4, <1>6, <1>8, <1>9, <1>10, <1>11, <1>12, RowWritten

-----------------------------------------------------------------------------
\* While a payment is applied nobody else is about to write its status by id.
LEMMA NobodyRewrites ==
  ASSUME PaymentsInv, Orderly, NEW h \in Handlers, Applies(handler[h]),
         NEW g \in Handlers \ {h}
  PROVE  ~(Rewrites(handler[g]) /\ handler[g].t = handler[h].t)
<1>1. CASE OneAtATime
  BY <1>1 DEF OneAtATime
<1>2. CASE Undisturbed
  <2>1. PICK q, x : q = handler[h] /\ x = handler[g]
    OBVIOUS
  <2>2. Fine(q) /\ Fine(x) /\ Settling(x) /\ \A e \in reported : e.outcome = "succeeded"
    BY <1>2, <2>1 DEF PaymentsInv, UndisturbedOK
  <2>3. q.t \in sessions
    BY <2>1, <2>2 DEF Fine, Serves, Applies, PaymentsInv
  <2>4. x.pc # "fail" /\ x.pc # "proof"
    BY <1>2, <2>2 DEF Fine, Serves, Undisturbed
  <2>5. ~(x.pc \in {"calling", "refused"} /\ x.t = q.t)
    BY <2>2, <2>3 DEF Settling
  <2> QED BY <2>1, <2>4, <2>5 DEF Rewrites
<1> QED BY <1>1, <1>2 DEF Orderly

LEMMA CustomerKeeps ==
  ASSUME PaymentsInv, Orderly, NEW h \in Handlers, surface' = surface, CommitCustomerPayment(h)
  PROVE  StepOK
<1>1. UNCHANGED <<surface, now, nextNumber, sessions, reported, acked, receipts, aborts>>
  BY DEF CommitCustomerPayment, Outside
<1>2. PICK q : q = handler[h]
  OBVIOUS
<1>3. /\ Fine(q) /\ q \in HandlerState /\ q.pc = "commit" /\ surface = "customer"
      /\ Applies(handler[h])
  BY <1>2, Rows DEF PaymentsInv, CommitCustomerPayment, At, Applies
<1>4. /\ q.t \in Transactions /\ Claimable(q.t)
      /\ q.event \in reported /\ q.event.t = q.t /\ q.event \in Events
  BY <1>3 DEF Fine, Applies, Serves, PaymentsInv, TypeOK
<1>5. subscription' \in SubscriptionRow
  BY <1>2, <1>3 DEF SubscriptionStatus, CommitCustomerPayment, HandlerState, SubscriptionRow
<1>6. Goto(h, "answer") /\ "answer" \in Points
  BY DEF CommitCustomerPayment, Points
<1>7. PICK r \in HandlerState :
        /\ handler' = [handler EXCEPT ![h] = r] /\ r.pc = "answer"
        /\ r.t = q.t /\ r.event = q.event /\ r.seen = q.seen /\ r.year = q.year
  BY <1>2, <1>6, GotoSets
<1>8. SetsEvent(q.t, "SUCCEEDED", q.event) /\ "SUCCEEDED" \in TransactionStatus
  BY <1>2 DEF CommitCustomerPayment, SetsEvent, TransactionStatus
<1>9. PICK row \in TransactionRow :
        /\ transaction' = [transaction EXCEPT ![q.t] = row] /\ transaction'[q.t] = row
        /\ row.status = "SUCCEEDED" /\ row.event = q.event
        /\ row.year = transaction[q.t].year /\ row.number = transaction[q.t].number
        /\ row.previous = transaction[q.t].previous
  BY <1>4, <1>8, EventWrites
<1>10. Fine(r)' /\ Settling(r)'
  BY <1>1, <1>3, <1>4, <1>7, <1>9
     DEF Fine, Settling, Calls, Serves, Applies, Receipts, Invoices, Rewrites, Status
<1>11. \A g \in Handlers \ {h} : Apart(handler[g], r)
  BY <1>7 DEF Apart, Calls, Applies, Receipts, Invoices
<1>12. \A g \in Handlers \ {h} : ~(Applies(handler[g]) /\ handler[g].t = q.t)
  BY <1>2, <1>3 DEF PaymentsInv, Apart
<1>13. \A g \in Handlers \ {h} : ~(Rewrites(handler[g]) /\ handler[g].t = q.t)
  BY <1>2, <1>3, NobodyRewrites
<1>14. \A g \in Handlers \ {h} :
         ~(handler[g].pc \in {"calling", "refused"} /\ handler[g].t = q.t)
  BY <1>13 DEF Rewrites
<1>15. row.status # "NONE" /\ row.status \in {"PENDING", "SUCCEEDED"}
  BY <1>9
<1> QED BY <1>1, <1>4, <1>5, <1>7, <1>9, <1>10, <1>11, <1>12, <1>13, <1>14, <1>15, RowWritten

-----------------------------------------------------------------------------
\* The commit of a request gives the next document of a series to a payment that has none,
\* and leaves the other documents alone.
Issued(t, y, n) ==
  /\ t \in Transactions /\ y \in Years /\ n = nextNumber[y] + 1
  /\ transaction[t].number = 0
  /\ nextNumber' = [nextNumber EXCEPT ![y] = n]
  /\ Documents(y, n)' = {t}
  /\ \A z, m : m # 0 /\ (z # y \/ m # n) => Documents(z, m)' = Documents(z, m)

\* What the commit finds and leaves, of the request q and the row it writes.
LEMMA CommitWrites ==
  ASSUME PaymentsInv, NEW h \in Handlers, surface' = surface, CommitPayment(h),
         NEW q, q = handler[h]
  PROVE  /\ q \in HandlerState /\ q.pc = "commit" /\ surface = "organization" /\ Fine(q)
         /\ q.t \in Transactions /\ Claimable(q.t) /\ q.year \in Years
         /\ q.event \in reported /\ q.event.t = q.t /\ q.event \in Events
         /\ q.number = nextNumber[q.year] + 1 /\ nextNumber[q.year] \in Nat
         /\ q.previous \in Before(q.year, q.number)
         /\ \E row \in TransactionRow :
              /\ transaction' = [transaction EXCEPT ![q.t] = row] /\ transaction'[q.t] = row
              /\ row.status = "SUCCEEDED" /\ row.event = q.event
              /\ row.year = q.year /\ row.number = q.number /\ row.previous = q.previous
<1>1. /\ Fine(q) /\ q \in HandlerState /\ q.pc = "commit" /\ surface = "organization"
  BY Rows DEF PaymentsInv, CommitPayment, At
<1>2. /\ q.t \in Transactions /\ Claimable(q.t) /\ q.year \in Years
      /\ q.event \in reported /\ q.event.t = q.t
  BY <1>1 DEF Fine, Applies, Serves
<1>3. q.event \in Events /\ nextNumber[q.year] \in Nat
  BY <1>2 DEF PaymentsInv, TypeOK
<1>4. q.number = nextNumber[q.year] + 1 /\ q.previous \in Before(q.year, q.number)
  BY <1>1 DEF Fine, Invoices
<1>5. transaction[q.t] \in TransactionRow /\ transaction \in [Transactions -> TransactionRow]
  BY <1>2, Rows DEF PaymentsInv
<1>6. /\ q.year \in Years \cup {0} /\ q.number \in Nat
      /\ q.previous \in Transactions \cup {NoTransaction}
  BY <1>1 DEF HandlerState
<1> DEFINE row == [transaction[q.t] EXCEPT !.status = "SUCCEEDED", !.event = q.event,
                     !.year = q.year, !.number = q.number, !.previous = q.previous]
<1>7. row \in TransactionRow
  BY <1>3, <1>5, <1>6 DEF TransactionRow, TransactionStatus
<1>8. /\ row.status = "SUCCEEDED" /\ row.event = q.event
      /\ row.year = q.year /\ row.number = q.number /\ row.previous = q.previous
  BY <1>5 DEF TransactionRow
<1>9. transaction' = [transaction EXCEPT ![q.t] = row]
  BY DEF CommitPayment
<1> HIDE DEF row
<1>10. transaction'[q.t] = row
  BY <1>2, <1>5, <1>9
<1> QED BY <1>1, <1>2, <1>3, <1>4, <1>7, <1>8, <1>9, <1>10

LEMMA CommitIssues ==
  ASSUME PaymentsInv, NEW h \in Handlers, surface' = surface, CommitPayment(h),
         NEW q, q = handler[h]
  PROVE  Issued(q.t, q.year, q.number)
<1>1. /\ q.t \in Transactions /\ Claimable(q.t) /\ q.year \in Years
      /\ q.number = nextNumber[q.year] + 1 /\ nextNumber[q.year] \in Nat
  BY CommitWrites
<1>2. /\ transaction'[q.t].year = q.year /\ transaction'[q.t].number = q.number
      /\ \A u \in Transactions : u # q.t => transaction'[u] = transaction[u]
  BY <1>1, CommitWrites, Rows DEF PaymentsInv
<1>3. transaction[q.t].number = 0
  BY <1>1 DEF PaymentsInv, RowOK, Claimable
<1>4. Documents(q.year, q.number) = {}
  <2> SUFFICES ASSUME NEW u \in Transactions, transaction[u].year = q.year,
                      transaction[u].number = q.number
               PROVE  FALSE
    BY DEF Documents
  <2>1. RowOK(u) /\ transaction[u].number # 0
    BY <1>1 DEF PaymentsInv
  <2> QED BY <1>1, <2>1 DEF RowOK
<1>5. Documents(q.year, q.number)' = {q.t}
  BY <1>1, <1>2, <1>4 DEF Documents
<1>6. \A z, m : m # 0 /\ (z # q.year \/ m # q.number) => Documents(z, m)' = Documents(z, m)
  BY <1>1, <1>2, <1>3 DEF Documents
<1>7. nextNumber' = [nextNumber EXCEPT ![q.year] = q.number]
  BY DEF CommitPayment
<1> QED BY <1>1, <1>3, <1>5, <1>6, <1>7 DEF Issued

LEMMA CommitKeeps ==
  ASSUME PaymentsInv, Orderly, NEW h \in Handlers, surface' = surface, CommitPayment(h)
  PROVE  PaymentsInv' /\ PaidKept
<1>1. /\ surface' = surface /\ now' = now /\ sessions' = sessions
      /\ reported' = reported /\ acked' = acked /\ receipts' = receipts /\ aborts' = aborts
  BY DEF CommitPayment, Outside
<1>2. PICK q : q = handler[h]
  OBVIOUS
<1>3. /\ q \in HandlerState /\ q.pc = "commit" /\ surface = "organization" /\ Fine(q)
      /\ q.t \in Transactions /\ Claimable(q.t) /\ q.year \in Years
      /\ q.event \in reported /\ q.event.t = q.t /\ q.event \in Events
      /\ q.number = nextNumber[q.year] + 1 /\ nextNumber[q.year] \in Nat
      /\ q.previous \in Before(q.year, q.number)
  BY <1>2, CommitWrites
<1>4. PICK row \in TransactionRow :
        /\ transaction' = [transaction EXCEPT ![q.t] = row] /\ transaction'[q.t] = row
        /\ row.status = "SUCCEEDED" /\ row.event = q.event
        /\ row.year = q.year /\ row.number = q.number /\ row.previous = q.previous
  BY <1>2, CommitWrites
<1>5. /\ transaction' \in [Transactions -> TransactionRow]
      /\ \A u \in Transactions : u # q.t => transaction'[u] = transaction[u]
  BY <1>3, <1>4, Rows DEF PaymentsInv
<1>6. Goto(h, "receipt") /\ "receipt" \in Points
  BY DEF CommitPayment, Points
<1>7. PICK r \in HandlerState :
        /\ handler' = [handler EXCEPT ![h] = r] /\ r.pc = "receipt"
        /\ r.t = q.t /\ r.event = q.event /\ r.seen = q.seen /\ r.year = q.year
  BY <1>2, <1>6, GotoSets
<1>8. /\ handler' \in [Handlers -> HandlerState] /\ handler'[h] = r
      /\ \A g \in Handlers : g # h => handler'[g] = handler[g]
  BY <1>7, Rows DEF PaymentsInv
<1>9. subscription' \in SubscriptionRow
  BY <1>2, <1>3 DEF SubscriptionStatus, CommitPayment, HandlerState, SubscriptionRow
<1>10. /\ nextNumber' \in [Years -> Nat] /\ nextNumber'[q.year] = q.number
       /\ \A y \in Years : y # q.year => nextNumber'[y] = nextNumber[y]
       /\ \A y \in Years : nextNumber[y] <= nextNumber'[y]
       /\ nextNumber \in [Years -> Nat]
  BY <1>2, <1>3 DEF CommitPayment, PaymentsInv, TypeOK
<1>11. /\ Documents(q.year, q.number)' = {q.t}
       /\ \A z, m : m # 0 /\ (z # q.year \/ m # q.number) => Documents(z, m)' = Documents(z, m)
  BY <1>2, CommitIssues DEF Issued
<1>12. ASSUME NEW y \in Years, NEW n \in Nat, n # 0, y # q.year \/ n # q.number + 1
       PROVE  Before(y, n)' = Before(y, n)
  BY <1>3, <1>11, <1>12 DEF Before
<1>13. TypeOK'
  BY <1>1, <1>5, <1>8, <1>9, <1>10
     DEF PaymentsInv, TypeOK, HandlerState, SubscriptionRow, TransactionRow
<1>14. receipts[q.t] = 0
  BY <1>3 DEF PaymentsInv, TypeOK, RowOK, Claimable
<1>15. Fine(r)' /\ Settling(r)'
  BY <1>1, <1>3, <1>4, <1>7, <1>14
     DEF Fine, Settling, Calls, Serves, Applies, Receipts, Invoices, Rewrites, Status
<1>16. ASSUME NEW g \in Handlers, g # h, NEW x, x = handler[g] PROVE Fine(x)'
  <2>1. Fine(x) /\ x \in HandlerState /\ Apart(x, q)
    BY <1>2, <1>16, Rows DEF PaymentsInv
  <2>2. x.t \in Transactions /\ x.t # q.t => transaction'[x.t] = transaction[x.t]
    BY <1>5
  <2>3. Calls(x) => Status(x.t)' # "NONE"
    BY <1>4, <2>1, <2>2 DEF Fine, Calls, Status
  <2>4. Rewrites(x) => Status(x.t)' # "SUCCEEDED"
    <3>1. Rewrites(x) => x.t # q.t
      BY <1>2, <1>3, <1>16, NobodyRewrites DEF Applies
    <3> QED BY <2>1, <2>2, <3>1 DEF Fine, Rewrites, Status
  <2>5. Applies(x) => Claimable(x.t)'
    <3>1. Applies(x) => x.t # q.t
      BY <1>3, <2>1 DEF Apart, Applies
    <3> QED BY <2>1, <2>2, <3>1 DEF Fine, Applies, Claimable
  <2>6. Status(x.t) = "SUCCEEDED" /\ x.t \in Transactions => Status(x.t)' = "SUCCEEDED"
    BY <1>4, <2>2 DEF Status
  <2>7. Invoices(x) => /\ x.year \in Years /\ x.year # q.year
                       /\ nextNumber'[x.year] = nextNumber[x.year]
                       /\ x.number \in Nat /\ x.number # 0
    <3> SUFFICES ASSUME Invoices(x)
                 PROVE  /\ x.year \in Years /\ x.year # q.year
                        /\ nextNumber'[x.year] = nextNumber[x.year]
                        /\ x.number \in Nat /\ x.number # 0
      OBVIOUS
    <3>1. x.year \in Years /\ x.year # q.year
      BY <1>3, <2>1 DEF Invoices, Fine, Serves, Apart
    <3>2. x.number = nextNumber[x.year] + 1 /\ nextNumber[x.year] \in Nat
      BY <1>10, <2>1, <3>1 DEF Fine
    <3> QED BY <1>10, <3>1, <3>2
  <2>8. Invoices(x) => Before(x.year, x.number)' = Before(x.year, x.number)
    BY <1>12, <2>7
  <2>9. Invoices(x)' <=> Invoices(x)
    BY <1>1 DEF Invoices
  <2> QED BY <1>1, <2>1, <2>3, <2>4, <2>5, <2>6, <2>7, <2>8, <2>9
             DEF Fine, Calls, Serves, Applies, Receipts, Rewrites
<1>17. \A g \in Handlers : Fine(handler[g])'
  <2> SUFFICES ASSUME NEW g \in Handlers PROVE Fine(handler[g])'
    OBVIOUS
  <2>1. PICK x : x = handler'[g]
    OBVIOUS
  <2>2. Fine(x)'
    <3>1. CASE g = h
      BY <1>8, <1>15, <2>1, <3>1
    <3>2. CASE g # h
      BY <1>8, <1>16, <2>1, <3>2
    <3> QED BY <3>1, <3>2
  <2> QED BY <2>1, <2>2, FineThen
<1>18. \A g, j \in Handlers : g # j => Apart(handler[g], handler[j])'
  <2> SUFFICES ASSUME NEW g \in Handlers, NEW j \in Handlers, g # j
               PROVE  Apart(handler[g], handler[j])'
    OBVIOUS
  <2>1. PICK x, z : x = handler'[g] /\ z = handler'[j]
    OBVIOUS
  <2>2. \A p, o : Apart(p, o) <=> Apart(o, p)
    BY DEF Apart
  <2>3. \A p, o : Apart(p, o)' <=> Apart(p, o)
    BY <1>1 DEF Apart, Calls, Applies, Receipts, Invoices
  <2>4. \A p \in Handlers \ {h} : Apart(handler[p], r)
    BY <1>2, <1>3, <1>7, ApartStill DEF Calls, Applies, Receipts, Invoices
  <2>5. Apart(x, z)
    BY <1>8, <2>1, <2>2, <2>4 DEF PaymentsInv
  <2> QED BY <2>1, <2>3, <2>5, ApartThen
<1>19. ASSUME NEW u \in Transactions PROVE RowOK(u)'
  <2>1. RowOK(u) /\ receipts[u] \in Nat
    BY DEF PaymentsInv, TypeOK
  <2>2. CASE u = q.t
    <3>1. Before(q.year, q.number)' = Before(q.year, q.number)
      BY <1>3, <1>12
    <3> QED BY <1>1, <1>3, <1>4, <1>10, <2>1, <2>2, <3>1 DEF RowOK
  <2>3. CASE u # q.t
    <3>1. transaction'[u] = transaction[u] /\ transaction[u].number \in Nat
      BY <1>5, <2>3, Rows DEF PaymentsInv, TransactionRow
    <3>2. transaction[u].number # 0 =>
            Before(transaction[u].year, transaction[u].number)'
              = Before(transaction[u].year, transaction[u].number)
      <4>1. PICK y, n : y = transaction[u].year /\ n = transaction[u].number
        OBVIOUS
      <4>2. n # 0 => y \in Years /\ n \in Nat /\ (y # q.year \/ n # q.number + 1)
        BY <1>3, <2>1, <3>1, <4>1 DEF RowOK
      <4>3. n # 0 => Before(y, n)' = Before(y, n)
        BY <1>12, <4>2
      <4> QED BY <3>1, <4>1, <4>3 DEF Before, Documents
    <3>3. transaction[u].number # 0 =>
            transaction[u].number <= nextNumber'[transaction[u].year]
      BY <1>10, <2>1, <3>1 DEF RowOK
    <3> QED BY <1>1, <2>1, <3>1, <3>2, <3>3 DEF RowOK, Before, Documents
  <2> QED BY <2>2, <2>3
<1>20. ASSUME NEW y \in Years PROVE SeriesOK(y)'
  <2> SUFFICES ASSUME NEW n \in 1..nextNumber'[y]
               PROVE  \E t \in Transactions : Documents(y, n)' = {t}
    BY DEF SeriesOK, Documents
  <2>1. CASE y = q.year /\ n = q.number
    BY <1>3, <1>11, <2>1
  <2>2. CASE ~(y = q.year /\ n = q.number)
    <3>1. n \in 1..nextNumber[y] /\ n # 0
      BY <1>3, <1>10, <2>2
    <3> QED BY <1>11, <2>2, <3>1 DEF PaymentsInv, SeriesOK
  <2> QED BY <2>1, <2>2
<1>21. ASSUME NEW u \in Transactions, Status(u) = "SUCCEEDED" PROVE Status(u)' = "SUCCEEDED"
  BY <1>4, <1>5, <1>21 DEF Status
<1>22. ASSUME Undisturbed PROVE UndisturbedOK'
  <2>1. UndisturbedOK
    BY <1>22 DEF PaymentsInv
  <2>2. ASSUME NEW g \in Handlers PROVE Settling(handler[g])'
    <3>1. PICK x : x = handler'[g]
      OBVIOUS
    <3>2. Settling(x)'
      <4>1. CASE g = h
        BY <1>8, <1>15, <3>1, <4>1
      <4>2. CASE g # h
        <5>1. x = handler[g] /\ Settling(x) /\ Fine(x)
          BY <1>8, <2>1, <3>1, <4>2 DEF UndisturbedOK, PaymentsInv
        <5>2. x.pc \in {"calling", "refused"} \/ x.pc = "answer" => x.t \in Transactions
          BY <5>1 DEF Fine
        <5>3. x.pc \in {"calling", "refused"} => x.t # q.t
          BY <1>2, <1>3, <4>2, <5>1, NobodyRewrites DEF Rewrites, Applies
        <5>4. x.pc \in {"calling", "refused"} => x.t \notin sessions /\ Status(x.t)' = "PENDING"
          BY <1>5, <5>1, <5>2, <5>3 DEF Settling, Status
        <5>5. x.pc = "answer" => Status(x.t)' = "SUCCEEDED"
          BY <1>21, <5>1, <5>2 DEF Settling
        <5> QED BY <1>1, <5>4, <5>5 DEF Settling
      <4> QED BY <4>1, <4>2
    <3> QED BY <3>1, <3>2 DEF Settling, Status
  <2>3. sessions \subseteq Transactions /\ \A e \in acked : e.t \in Transactions
    BY DEF PaymentsInv, TypeOK
  <2>4. \A u \in sessions : Status(u)' \in {"PENDING", "SUCCEEDED"}
    BY <1>4, <1>5, <2>1, <2>3 DEF UndisturbedOK, Status
  <2>5. \A u \in Transactions : transaction'[u].event # NoEvent => Status(u)' = "SUCCEEDED"
    BY <1>4, <1>5, <2>1 DEF UndisturbedOK, Status
  <2>6. \A e \in acked : Status(e.t)' = "SUCCEEDED"
    BY <1>21, <2>1, <2>3 DEF UndisturbedOK
  <2> QED BY <1>1, <2>1, <2>2, <2>4, <2>5, <2>6 DEF UndisturbedOK
<1>23. \A e \in reported' : e.t \in sessions'
  BY <1>1 DEF PaymentsInv
<1>24. PaidKept
  BY <1>21 DEF PaidKept, Paid, Status
<1> QED BY <1>13, <1>17, <1>18, <1>19, <1>20, <1>22, <1>23, <1>24 DEF PaymentsInv

-----------------------------------------------------------------------------
Kept == PaymentsInv' /\ PaidKept /\ (SameDocuments \/ \E t, y, n : Issued(t, y, n))

LEMMA HandlerKeeps ==
  ASSUME PaymentsInv, Orderly, NEW h \in Handlers, HandlerStep(h)
  PROVE  Kept
<1>1. surface' = surface
  BY DEF HandlerStep
<1>2. CASE CallProvider(h)
  BY <1>1, <1>2, CallKeeps DEF StepOK, Kept
<1>3. CASE ExtendSubscription(h) \/ CheckReceipt(h) \/ RecordSession(h)
  BY <1>1, <1>3, ApplyingKeeps DEF StepOK, Kept
<1>4. CASE RecordRefusal(h) \/ WriteFailed(h) \/ WriteProof(h) \/ WriteCustomerProof(h)
  BY <1>1, <1>4, StatusKeeps DEF StepOK, Kept, WriteProof, WriteCustomerProof
<1>5. CASE Claim(h)
  BY <1>1, <1>5, ClaimKeeps DEF StepOK, Kept
<1>6. CASE ReadPeriod(h)
  BY <1>1, <1>6, PeriodKeeps DEF StepOK, Kept
<1>7. CASE AllocateInvoiceNumber(h)
  BY <1>1, <1>7, NumberKeeps DEF StepOK, Kept
<1>8. CASE PreviousInvoiceHash(h)
  BY <1>1, <1>8, ChainKeeps DEF StepOK, Kept
<1>9. CASE CommitPayment(h)
  <2>1. \E t, y, n : Issued(t, y, n)
    BY <1>1, <1>9, CommitIssues
  <2> QED BY <1>1, <1>9, <2>1, CommitKeeps DEF Kept
<1>10. CASE CommitCustomerPayment(h)
  BY <1>1, <1>10, CustomerKeeps DEF StepOK, Kept
<1>11. CASE SendReceipt(h)
  BY <1>1, <1>11, SendKeeps DEF StepOK, Kept
<1>12. CASE RecordReceipt(h)
  BY <1>1, <1>12, RecordReceiptKeeps DEF StepOK, Kept
<1>13. CASE Answer(h)
  BY <1>1, <1>13, AnswerKeeps DEF StepOK, Kept
<1> QED BY <1>2, <1>3, <1>4, <1>5, <1>6, <1>7, <1>8, <1>9, <1>10, <1>11, <1>12, <1>13
           DEF HandlerStep

\* A request that starts, and one that ends half way.
LEMMA RequestKeeps ==
  ASSUME PaymentsInv, NEW h \in Handlers, surface' = surface,
         \/ Abort(h)
         \/ \E t \in Transactions :
              \/ startCheckout(h, t) \/ startCardIntent(h, t)
              \/ startCustomerCheckout(h, t) \/ startCustomerCardIntent(h, t)
              \/ submitPaymentProof(h, t) \/ submitCustomerProof(h, t)
         \/ \E e \in Events : DeliverCustomer(h, e) \/ \E y \in Years : Deliver(h, e, y)
  PROVE  Kept
<1>1. CASE Abort(h)
  <2>1. /\ UNCHANGED <<surface, transaction, nextNumber, sessions, reported, receipts>>
        /\ now' = now /\ subscription' = subscription /\ acked' = acked /\ Finish(h)
    BY <1>1 DEF Abort, Stored, Outside
  <2>2. aborts' \in 0..MaxAborts
    BY <1>1, Bounds DEF Abort, PaymentsInv, TypeOK
  <2> QED BY <2>1, <2>2, Typed, HandlerEnds DEF StepOK, Kept
<1>2. CASE \E t \in Transactions :
             \/ startCheckout(h, t) \/ startCardIntent(h, t)
             \/ startCustomerCheckout(h, t) \/ startCustomerCardIntent(h, t)
             \/ submitPaymentProof(h, t) \/ submitCustomerProof(h, t)
  <2>1. PICK t \in Transactions : StartPayment(h, t) \/ ReadForProof(h, t)
    BY <1>2 DEF startCheckout, startCardIntent, startCustomerCheckout,
                startCustomerCardIntent, submitPaymentProof, submitCustomerProof
  <2> QED BY <2>1, StartKeeps, ProofKeeps DEF StepOK, Kept
<1>3. CASE \E e \in Events : DeliverCustomer(h, e) \/ \E y \in Years : Deliver(h, e, y)
  <2>1. PICK e \in Events, y \in Years \cup {0} :
          Receive(h, e, y) /\ (surface = "organization" => y \in Years)
    BY <1>3 DEF DeliverCustomer, Deliver
  <2> QED BY <2>1, ReceiveKeeps DEF StepOK, Kept
<1> QED BY <1>1, <1>2, <1>3

\* The provider, the administrator, a trial and the clock.
LEMMA OthersKeep ==
  ASSUME PaymentsInv, surface' = surface,
         \/ \E e \in Events : ProviderReports(e)
         \/ AssignPlan \/ attachTrialSubscription \/ attachCustomerTrial \/ Tick
  PROVE  Kept
<1>1. UNCHANGED <<transaction, nextNumber, handler, sessions, acked, receipts, aborts>>
  BY DEF ProviderReports, AssignPlan, attachTrialSubscription, attachCustomerTrial, AttachTrial,
         Tick, Stored, Outside
<1>2. now' \in 0..MaxTime
  <2>1. CASE now' = now
    BY <2>1, Typed
  <2>2. CASE Tick
    <3>1. now < MaxTime /\ now' = now + 1
      BY <2>2 DEF Tick
    <3> QED BY <3>1, Bounds, Typed
  <2> QED BY <2>1, <2>2 DEF ProviderReports, AssignPlan, attachTrialSubscription,
                            attachCustomerTrial, AttachTrial, Outside
<1>3. subscription' \in SubscriptionRow
  <2>1. addInterval(now) \in Nat /\ now + TrialDays \in Nat
    BY Bounds, Typed DEF addInterval
  <2>2. \/ subscription' = subscription
        \/ subscription' = [status |-> "ACTIVE", end |-> addInterval(now)]
        \/ subscription' = [status |-> "TRIALING", end |-> now + TrialDays]
    BY DEF ProviderReports, AssignPlan, attachTrialSubscription, attachCustomerTrial,
           AttachTrial, Tick, Stored
  <2> QED BY <2>1, <2>2, Typed DEF SubscriptionStatus, SubscriptionRow
<1>4. /\ reported \subseteq reported' /\ reported' \subseteq Events
      /\ \A e \in reported' \ reported :
           e.t \in sessions /\ (Undisturbed => e.outcome = "succeeded")
  <2>1. CASE reported' = reported
    BY <2>1 DEF PaymentsInv, TypeOK
  <2>2. CASE \E e \in Events : ProviderReports(e)
    <3>1. PICK e \in Events : ProviderReports(e)
      BY <2>2
    <3>2. /\ reported' = reported \cup {e} /\ e.t \in sessions
          /\ e.outcome = "succeeded" \/ "declined" \in Operations
      BY <3>1 DEF ProviderReports
    <3> QED BY <3>2 DEF PaymentsInv, TypeOK, Undisturbed
  <2> QED BY <2>1, <2>2 DEF AssignPlan, attachTrialSubscription, attachCustomerTrial,
                            AttachTrial, Tick, Outside
<1> QED BY <1>1, <1>2, <1>3, <1>4, RequestsWait DEF StepOK, Kept

LEMMA PaymentsStep ==
  ASSUME PaymentsInv, Orderly, [Next]_vars
  PROVE  Kept
<1>1. CASE UNCHANGED vars
  <2>1. /\ UNCHANGED <<surface, transaction, nextNumber, handler, sessions, acked, receipts,
                       aborts>>
        /\ now' = now /\ subscription' = subscription /\ reported' = reported
    BY <1>1 DEF vars
  <2>2. reported \subseteq Events
    BY DEF PaymentsInv, TypeOK
  <2> QED BY <2>1, <2>2, Typed, RequestsWait DEF StepOK, Kept
<1>2. CASE Next
  <2>1. surface' = surface
    BY <1>2 DEF Next
  <2>2. CASE \E h \in Handlers : HandlerStep(h)
    BY <2>2, HandlerKeeps
  <2>3. CASE \E h \in Handlers :
               \/ Abort(h)
               \/ \E t \in Transactions :
                    \/ startCheckout(h, t) \/ startCardIntent(h, t)
                    \/ startCustomerCheckout(h, t) \/ startCustomerCardIntent(h, t)
                    \/ submitPaymentProof(h, t) \/ submitCustomerProof(h, t)
               \/ \E e \in Events : DeliverCustomer(h, e) \/ \E y \in Years : Deliver(h, e, y)
    BY <2>1, <2>3, RequestKeeps
  <2>4. CASE \/ \E e \in Events : ProviderReports(e)
             \/ AssignPlan \/ attachTrialSubscription \/ attachCustomerTrial \/ Tick
    BY <2>1, <2>4, OthersKeep
  <2> QED BY <1>2, <2>2, <2>3, <2>4 DEF Next
<1> QED BY <1>1, <1>2

-----------------------------------------------------------------------------
LEMMA PaymentsInvariant == Orderly => (Spec => []PaymentsInv)
<1> SUFFICES ASSUME Orderly PROVE Spec => []PaymentsInv
  OBVIOUS
<1>1. Init => PaymentsInv
  BY PaymentsStart
<1>2. PaymentsInv /\ [Next]_vars => PaymentsInv'
  BY PaymentsStep DEF Kept
<1> QED BY <1>1, <1>2, PTL DEF Spec

\* Payments are of their types (all of Payments).
THEOREM PaymentsTyped == Orderly => (Spec => []TypeOK)
<1>1. PaymentsInv => TypeOK
  BY DEF PaymentsInv
<1> QED BY <1>1, PaymentsInvariant, PTL

\* A paid transaction stays paid, whatever is delivered again, aborted or tried at the same
\* time, for a payer without failures and proofs or whose requests do not overlap
\* (billing.service.ts:436-437).
THEOREM PaidIsFinal == Orderly => (Spec => PaidStaysPaid)
<1> SUFFICES ASSUME Orderly PROVE Spec => PaidStaysPaid
  OBVIOUS
<1>1. PaymentsInv /\ [Next]_vars => PaidKept
  BY PaymentsStep DEF Kept
<1>2. PaidKept => [\A t \in Paid : transaction'[t].status = "SUCCEEDED"]_vars
  BY DEF PaidKept
<1> QED BY <1>1, <1>2, PaymentsInvariant, PTL DEF Spec, PaidStaysPaid

\* Of any number of deliveries of the events of a payment one at most sends its receipt
\* (receipt.service.ts:4-8).
THEOREM OneReceipt == Orderly => (Spec => []ReceiptAtMostOnce)
<1>1. PaymentsInv => ReceiptAtMostOnce
  BY DEF PaymentsInv, RowOK, ReceiptAtMostOnce
<1> QED BY <1>1, PaymentsInvariant, PTL

\* Each document chains to the one before it in its series (invoice-series.service.ts:52-67).
THEOREM ChainHolds == Orderly => (Spec => []ChainUnbroken)
<1>1. PaymentsInv => ChainUnbroken
  BY DEF PaymentsInv, RowOK, Before, ChainUnbroken
<1> QED BY <1>1, PaymentsInvariant, PTL

\* What the provider was told we know of is paid: an event is acknowledged only after the
\* commit of the request that applied it (billing.service.ts:476-478, 660-673).
THEOREM AcknowledgedIsPaid == Undisturbed => (Spec => []AckedMeansApplied)
<1> SUFFICES ASSUME Undisturbed PROVE Spec => []AckedMeansApplied
  OBVIOUS
<1>1. PaymentsInv => AckedMeansApplied
  BY DEF PaymentsInv, UndisturbedOK, AckedMeansApplied, Status
<1>2. Spec => []PaymentsInv
  BY PaymentsInvariant DEF Orderly
<1> QED BY <1>1, <1>2, PTL

-----------------------------------------------------------------------------
\* The series of a year, as the abstract ledger sees it.
Series(y) == [n \in 1..nextNumber[y] |-> Documents(y, n)]
LedgerNow == [y \in Years |-> Series(y)]

LEMMA SeriesSequence ==
  ASSUME PaymentsInv, NEW y \in Years
  PROVE  Series(y) \in Seq(SUBSET Transactions) /\ Len(Series(y)) = nextNumber[y]
<1>1. nextNumber[y] \in Nat /\ \A n : Documents(y, n) \in SUBSET Transactions
  BY DEF PaymentsInv, TypeOK, Documents
<1> QED BY <1>1 DEF Series

\* The commit of a payment issues the next document of its series.
LEMMA IssuedIsIssue ==
  ASSUME PaymentsInv, NEW t, NEW y, NEW n, Issued(t, y, n)
  PROVE  Ledger!Issue(t, y)
<1>1. /\ t \in Transactions /\ y \in Years /\ n = nextNumber[y] + 1 /\ nextNumber[y] \in Nat
      /\ transaction[t].number = 0
  BY DEF Issued, PaymentsInv, TypeOK
<1>2. /\ nextNumber'[y] = n
      /\ \A z \in Years : z # y => nextNumber'[z] = nextNumber[z]
  BY <1>1 DEF Issued, PaymentsInv, TypeOK
<1>3. \A z \in Years : \A m \in 1..nextNumber[z] : t \notin Documents(z, m)
  BY <1>1 DEF Documents, PaymentsInv, TypeOK
<1>4. ~\E z \in Years : \E m \in DOMAIN LedgerNow[z] : t \in LedgerNow[z][m]
  BY <1>3 DEF LedgerNow, Series
<1>5. ASSUME NEW z \in Years, z # y PROVE Series(z)' = Series(z)
  <2>1. \A m \in 1..nextNumber[z] : m # 0 /\ Documents(z, m)' = Documents(z, m)
    BY <1>5 DEF Issued, PaymentsInv, TypeOK
  <2> QED BY <1>2, <1>5, <2>1 DEF Series
<1>6. Series(y)' = Append(Series(y), {t})
  <2>1. Series(y) \in Seq(SUBSET Transactions) /\ Len(Series(y)) = nextNumber[y]
    BY <1>1, SeriesSequence
  <2>2. \A m \in 1..nextNumber[y] : Series(y)[m] = Documents(y, m)
    BY DEF Series
  <2>3. /\ Documents(y, n)' = {t}
        /\ \A m \in 1..nextNumber[y] : Documents(y, m)' = Documents(y, m)
    BY <1>1 DEF Issued
  <2>4. Series(y)' = [m \in 1..n |-> Documents(y, m)']
    BY <1>2 DEF Series
  <2>5. Append(Series(y), {t}) = [m \in 1..n |-> IF m <= nextNumber[y] THEN Series(y)[m] ELSE {t}]
    BY <1>1, <2>1
  <2>6. \A m \in 1..n : Documents(y, m)' = IF m <= nextNumber[y] THEN Series(y)[m] ELSE {t}
    BY <1>1, <2>2, <2>3
  <2> HIDE DEF Series
  <2> QED BY <2>4, <2>5, <2>6
<1>7. LedgerNow' = [LedgerNow EXCEPT ![y] = Append(@, {t})]
  <2>1. LedgerNow' = [z \in Years |-> Series(z)']
    BY DEF LedgerNow
  <2>2. [LedgerNow EXCEPT ![y] = Append(@, {t})]
          = [z \in Years |-> IF z = y THEN Append(Series(y), {t}) ELSE Series(z)]
    BY <1>1 DEF LedgerNow
  <2> QED BY <1>5, <1>6, <2>1, <2>2
<1> QED BY <1>4, <1>7 DEF Ledger!Issue, Ledger!Invoiced, LedgerNow, Series

\* Invoicing implements the ledger of docs/BILLING.md, 8.3 and 9.1: whatever requests do at
\* the same time, the documents of a series are issued one after the other, each for a payment
\* that has none, and never change (invoice-series.service.ts:4-7).
THEOREM LedgerImplemented == Orderly => (Spec => ImplementsLedger)
<1> SUFFICES ASSUME Orderly PROVE Spec => ImplementsLedger
  OBVIOUS
<1>1. Init => Ledger!Init
  <2> SUFFICES ASSUME Init PROVE Ledger!Init
    OBVIOUS
  <2>1. \A y \in Years : Series(y) = <<>>
    BY DEF Init, Series
  <2> QED BY <2>1 DEF Ledger!Init, Series
<1>2. PaymentsInv /\ [Next]_vars => [Ledger!Next]_LedgerNow
  <2> SUFFICES ASSUME PaymentsInv, [Next]_vars PROVE [Ledger!Next]_LedgerNow
    OBVIOUS
  <2>1. CASE SameDocuments
    <3>1. LedgerNow' = LedgerNow
      BY <2>1 DEF SameDocuments, LedgerNow, Series
    <3> QED BY <3>1
  <2>2. CASE \E t, y, n : Issued(t, y, n)
    <3>1. PICK t, y, n : Issued(t, y, n)
      BY <2>2
    <3>2. t \in Transactions /\ y \in Years
      BY <3>1 DEF Issued
    <3> QED BY <3>1, <3>2, IssuedIsIssue DEF Ledger!Next
  <2> QED BY <2>1, <2>2, PaymentsStep DEF Kept
<1>3. [Ledger!Next]_LedgerNow
        => [Ledger!Next]_([y \in Years |-> [n \in 1..nextNumber[y] |-> Documents(y, n)]])
  BY DEF LedgerNow, Series
<1> QED BY <1>1, <1>2, <1>3, PaymentsInvariant, PTL DEF Spec, ImplementsLedger, Ledger!Spec

-----------------------------------------------------------------------------
\* A request that has read the period is about to write one that ends an interval after the
\* date it read, and after the end of the period that is there, if it found one.
Buys(r) == r.pc \in {"extend", "number", "chain", "commit"}
Extends(r) ==
  /\ r.end >= r.date + Interval
  /\ \/ r.existing = "NONE"
     \/ subscription.status # "NONE" /\ r.end >= subscription.end + Interval
Granted == \A h \in Handlers : Buys(handler[h]) => Extends(handler[h])

\* What a step that makes a payment paid does.
BuysPeriod ==
  \A t \in Transactions :
    transaction[t].status # "SUCCEEDED" /\ transaction'[t].status = "SUCCEEDED" =>
      /\ subscription'.status = "ACTIVE"
      /\ \E h \in Handlers :
           /\ handler[h].t = t /\ At(h, "commit")
           /\ subscription'.end >= handler[h].date + Interval
           /\ \/ handler[h].existing = "NONE"
              \/ subscription'.end >= subscription.end + Interval
NothingPaid ==
  \A t \in Transactions : transaction'[t].status = "SUCCEEDED"
    => transaction[t].status = "SUCCEEDED"

\* A request that has read the period after a step had read the same before it.
SamePeriod ==
  \A g \in Handlers : Buys(handler[g])' =>
    /\ Buys(handler[g])
    /\ handler'[g].existing = handler[g].existing
    /\ handler'[g].date = handler[g].date
    /\ handler'[g].end = handler[g].end

\* Nothing is bought, and nothing is paid.
LEMMA GrantsStay ==
  ASSUME Granted, NothingPaid, subscription' = subscription, SamePeriod
  PROVE  Granted' /\ BuysPeriod
BY DEF Granted, NothingPaid, SamePeriod, BuysPeriod, Buys, Extends

LEMMA GrantGoesOn ==
  ASSUME PaymentsInv, NEW h \in Handlers, NEW p \in Points, Goto(h, p),
         p \in {"extend", "number", "chain", "commit"} => Buys(handler[h])
  PROVE  SamePeriod
<1>1. PICK r \in HandlerState :
        /\ handler' = [handler EXCEPT ![h] = r] /\ r.pc = p
        /\ r.existing = handler[h].existing /\ r.date = handler[h].date
        /\ r.end = handler[h].end
  BY GotoSets
<1>2. \A g \in Handlers : handler'[g] = IF g = h THEN r ELSE handler[g]
  BY <1>1, Rows DEF PaymentsInv
<1> QED BY <1>1, <1>2 DEF Buys, SamePeriod

Becomes(h, r) == handler' = [handler EXCEPT ![h] = r]

LEMMA GrantEnds ==
  ASSUME PaymentsInv, NEW h \in Handlers, NEW r, Becomes(h, r), ~Buys(r)
  PROVE  SamePeriod
<1>1. \A g \in Handlers : handler'[g] = IF g = h THEN r ELSE handler[g]
  BY Rows DEF PaymentsInv, Becomes
<1> QED BY <1>1 DEF Buys, SamePeriod

LEMMA PeriodGrants ==
  ASSUME PaymentsInv, Granted, NEW h \in Handlers, ReadPeriod(h)
  PROVE  Granted' /\ BuysPeriod
<1> DEFINE r == [handler[h] EXCEPT !.pc = "extend", !.existing = subscription.status,
                                 !.date = now, !.end = PeriodEnd]
<1>1. transaction' = transaction /\ subscription' = subscription
  BY DEF ReadPeriod, Stored
<1>2. handler[h] \in HandlerState /\ handler' = [handler EXCEPT ![h] = r]
  BY Rows DEF PaymentsInv, ReadPeriod
<1>3. r.end = PeriodEnd /\ r.date = now /\ r.existing = subscription.status
  BY <1>2 DEF HandlerState
<1> HIDE DEF r
<1>4. \A g \in Handlers : handler'[g] = IF g = h THEN r ELSE handler[g]
  BY <1>2, Rows DEF PaymentsInv
<1>5. now \in Nat /\ subscription.end \in Nat /\ Interval \in Nat
  BY Bounds DEF PaymentsInv, TypeOK
<1>6. /\ PeriodEnd >= now + Interval
      /\ subscription.status # "NONE" => PeriodEnd >= subscription.end + Interval
  BY <1>5 DEF PeriodEnd, addInterval
<1>7. Extends(r)
  BY <1>3, <1>6 DEF Extends
<1>8. Granted'
  BY <1>1, <1>4, <1>7 DEF Granted, Buys, Extends
<1> QED BY <1>1, <1>8 DEF BuysPeriod

\* The commit makes one payment paid and writes the end of the period its request has bought.
LEMMA CommitGrants ==
  ASSUME PaymentsInv, OneAtATime, Granted, NEW h \in Handlers, surface' = surface,
         CommitPayment(h) \/ CommitCustomerPayment(h)
  PROVE  Granted' /\ BuysPeriod
<1>1. PICK q : q = handler[h]
  OBVIOUS
<1>2. Fine(q) /\ q \in HandlerState /\ q.pc = "commit"
  BY <1>1, Rows DEF PaymentsInv, CommitPayment, CommitCustomerPayment, At
<1>3. q.t \in Transactions
  BY <1>2 DEF Fine
<1>4. \A t \in Transactions : t # q.t => transaction'[t] = transaction[t]
  <2>1. CASE CommitPayment(h)
    BY <1>1, <1>3, <2>1, CommitWrites, Rows DEF PaymentsInv
  <2>2. CASE CommitCustomerPayment(h)
    <3>1. SetsEvent(q.t, "SUCCEEDED", q.event) /\ "SUCCEEDED" \in TransactionStatus
      BY <1>1, <2>2 DEF CommitCustomerPayment, SetsEvent, TransactionStatus
    <3>2. q.event \in Events
      BY <1>2 DEF Fine, Serves, PaymentsInv, TypeOK
    <3> QED BY <1>3, <3>1, <3>2, EventWrites, Rows DEF PaymentsInv
  <2> QED BY <2>1, <2>2
<1>5. subscription' = [status |-> "ACTIVE", end |-> q.end]
  BY <1>1 DEF CommitPayment, CommitCustomerPayment
<1>6. Extends(q)
  BY <1>1, <1>2 DEF Granted, Buys
<1>7. BuysPeriod
  BY <1>1, <1>2, <1>4, <1>5, <1>6 DEF BuysPeriod, Extends, At
<1>8. \A g \in Handlers : ~Buys(handler[g])'
  <2>1. CASE CommitPayment(h)
    <3>1. Goto(h, "receipt") /\ "receipt" \in Points
      BY <2>1 DEF CommitPayment, Points
    <3>2. handler'[h].pc = "receipt"
      BY <3>1, GotoSets, Rows DEF PaymentsInv
    <3> QED BY <3>2 DEF OneAtATime, Buys
  <2>2. CASE CommitCustomerPayment(h)
    <3>1. Goto(h, "answer") /\ "answer" \in Points
      BY <2>2 DEF CommitCustomerPayment, Points
    <3>2. handler'[h].pc = "answer"
      BY <3>1, GotoSets, Rows DEF PaymentsInv
    <3> QED BY <3>2 DEF OneAtATime, Buys
  <2> QED BY <2>1, <2>2
<1> QED BY <1>7, <1>8 DEF Granted

LEMMA HandlerGrants ==
  ASSUME PaymentsInv, OneAtATime, Granted, NEW h \in Handlers, HandlerStep(h)
  PROVE  Granted' /\ BuysPeriod
<1>1. surface' = surface
  BY DEF HandlerStep
<1>2. PICK q : q = handler[h]
  OBVIOUS
<1>3. Fine(q) /\ (q.pc # "idle" => q.t \in Transactions)
  BY <1>2 DEF PaymentsInv, Fine
<1>4. CASE ReadPeriod(h)
  BY <1>4, PeriodGrants
<1>5. CASE CommitPayment(h) \/ CommitCustomerPayment(h)
  BY <1>1, <1>5, CommitGrants
<1>6. CASE \/ CallProvider(h) \/ Claim(h) \/ ExtendSubscription(h) \/ AllocateInvoiceNumber(h)
           \/ PreviousInvoiceHash(h) \/ CheckReceipt(h) \/ SendReceipt(h)
  <2>1. transaction' = transaction /\ subscription' = subscription
    BY <1>6 DEF CallProvider, Claim, ExtendSubscription, AllocateInvoiceNumber,
                PreviousInvoiceHash, CheckReceipt, SendReceipt, Stored
  <2>2. NothingPaid
    BY <2>1 DEF NothingPaid
  <2>3. SamePeriod
    <3>1. CASE CallProvider(h) \/ Claim(h) \/ CheckReceipt(h) \/ SendReceipt(h)
      <4>1. \E p \in Points \ {"extend", "number", "chain", "commit"} : Goto(h, p)
        BY <3>1 DEF CallProvider, Claim, CheckReceipt, SendReceipt, Points
      <4> QED BY <4>1, GrantGoesOn
    <3>2. CASE ExtendSubscription(h)
      <4>1. (\E p \in Points : Goto(h, p)) /\ Buys(handler[h])
        BY <3>2 DEF ExtendSubscription, Points, At, Buys
      <4> QED BY <4>1, GrantGoesOn
    <3>3. CASE AllocateInvoiceNumber(h) \/ PreviousInvoiceHash(h)
      <4>1. handler[h].pc \in {"number", "chain"} /\ handler[h] \in HandlerState
        BY <3>3, Rows DEF AllocateInvoiceNumber, PreviousInvoiceHash, At, PaymentsInv
      <4>2. /\ handler'[h].existing = handler[h].existing
            /\ handler'[h].date = handler[h].date
            /\ handler'[h].end = handler[h].end
        <5>1. handler \in [Handlers -> HandlerState]
          BY Rows DEF PaymentsInv
        <5>2. CASE AllocateInvoiceNumber(h)
          BY <4>1, <5>1, <5>2 DEF AllocateInvoiceNumber, HandlerState
        <5>3. CASE PreviousInvoiceHash(h)
          BY <4>1, <5>1, <5>3 DEF PreviousInvoiceHash, HandlerState
        <5> QED BY <3>3, <5>2, <5>3
      <4> QED BY <4>1, <4>2 DEF Buys, OneAtATime, SamePeriod
    <3> QED BY <1>6, <3>1, <3>2, <3>3
  <2> QED BY <2>1, <2>2, <2>3, GrantsStay
<1>7. CASE RecordSession(h) \/ Answer(h)
  <2>1. transaction' = transaction /\ subscription' = subscription /\ Finish(h)
    BY <1>7 DEF RecordSession, Answer, Stored
  <2>2. NothingPaid
    BY <2>1 DEF NothingPaid
  <2> QED BY <2>1, <2>2, GrantsStay, GrantEnds DEF Finish, Idle, Buys, Becomes
<1>8. CASE RecordRefusal(h) \/ WriteFailed(h) \/ WriteProofStatus(h) \/ RecordReceipt(h)
  <2>1. q.t \in Transactions /\ subscription' = subscription
    BY <1>2, <1>3, <1>8 DEF RecordRefusal, WriteFailed, WriteProofStatus, RecordReceipt, At
  <2>2. NothingPaid
    <3>1. CASE RecordReceipt(h)
      <4>1. SetsReceipt(q.t)
        BY <1>2, <3>1 DEF RecordReceipt, SetsReceipt
      <4> QED BY <2>1, <4>1, ReceiptWrites, Rows DEF PaymentsInv, NothingPaid
    <3>2. CASE WriteFailed(h)
      <4>1. SetsEvent(q.t, "FAILED", q.event) /\ "FAILED" \in TransactionStatus
        BY <1>2, <3>2 DEF WriteFailed, SetsEvent, TransactionStatus
      <4>2. q.event \in Events
        BY <1>2, <1>3, <3>2 DEF WriteFailed, At, Fine, Serves, PaymentsInv, TypeOK
      <4> QED BY <2>1, <4>1, <4>2, EventWrites, Rows DEF PaymentsInv, NothingPaid
    <3>3. CASE RecordRefusal(h) \/ WriteProofStatus(h)
      <4>1. PICK s \in TransactionStatus : SetsStatus(q.t, s) /\ s # "SUCCEEDED"
        <5>1. CASE RecordRefusal(h)
          BY <1>2, <5>1 DEF RecordRefusal, SetsStatus, TransactionStatus
        <5>2. CASE WriteProofStatus(h)
          <6>1. q.seen \in {"PENDING", "UNDER_REVIEW"}
            BY <1>2, <1>3, <5>2 DEF WriteProofStatus, At, Fine
          <6> QED BY <1>2, <5>2, <6>1 DEF WriteProofStatus, SetsStatus, TransactionStatus
        <5> QED BY <3>3, <5>1, <5>2
      <4> QED BY <2>1, <4>1, StatusWrites, Rows DEF PaymentsInv, NothingPaid
    <3> QED BY <1>8, <3>1, <3>2, <3>3
  <2>3. SamePeriod
    <3>1. CASE Goto(h, "answer")
      <4>1. "answer" \in Points
        BY DEF Points
      <4> QED BY <3>1, <4>1, GrantGoesOn
    <3>2. CASE Finish(h)
      BY <3>2, GrantEnds DEF Finish, Idle, Buys, Becomes
    <3> QED BY <1>8, <3>1, <3>2 DEF RecordRefusal, WriteFailed, WriteProofStatus, RecordReceipt
  <2> QED BY <2>1, <2>2, <2>3, GrantsStay
<1> QED BY <1>4, <1>5, <1>6, <1>7, <1>8 DEF HandlerStep, WriteProof, WriteCustomerProof

LEMMA RequestGrants ==
  ASSUME PaymentsInv, Granted, NEW h \in Handlers,
         \/ Abort(h)
         \/ \E t \in Transactions : StartPayment(h, t) \/ ReadForProof(h, t)
         \/ \E e \in Events, y \in Years \cup {0} : Receive(h, e, y)
  PROVE  Granted' /\ BuysPeriod
<1>1. subscription' = subscription
  BY DEF Abort, StartPayment, ReadForProof, Receive, Stored
<1>2. NothingPaid
  <2>1. CASE transaction' = transaction
    BY <2>1 DEF NothingPaid
  <2>2. CASE \E t \in Transactions : StartPayment(h, t)
    <3>1. PICK t \in Transactions : StartPayment(h, t)
      BY <2>2
    <3>2. SetsStatus(t, "PENDING") /\ "PENDING" \in TransactionStatus
      BY <3>1 DEF StartPayment, SetsStatus, TransactionStatus
    <3> QED BY <3>2, StatusWrites, Rows DEF PaymentsInv, NothingPaid
  <2> QED BY <2>1, <2>2 DEF Abort, ReadForProof, Receive, Stored
<1>3. \E r : Becomes(h, r) /\ ~Buys(r)
  <2>1. CASE Abort(h)
    <3>1. Becomes(h, Idle) /\ ~Buys(Idle)
      BY <2>1 DEF Abort, Finish, Idle, Buys, Becomes
    <3> QED BY <3>1
  <2>2. CASE \E t \in Transactions : StartPayment(h, t)
    <3>1. PICK t \in Transactions : StartPayment(h, t)
      BY <2>2
    <3> DEFINE r == [Idle EXCEPT !.pc = "calling", !.t = t]
    <3>2. Becomes(h, r)
      BY <3>1 DEF StartPayment, Becomes
    <3>3. ~Buys(r)
      BY DEF Idle, Buys
    <3> QED BY <3>2, <3>3
  <2>3. CASE \E t \in Transactions : ReadForProof(h, t)
    <3>1. PICK t \in Transactions : ReadForProof(h, t)
      BY <2>3
    <3> DEFINE r == [Idle EXCEPT !.pc = "proof", !.t = t, !.seen = transaction[t].status]
    <3>2. Becomes(h, r)
      BY <3>1 DEF ReadForProof, Becomes
    <3>3. ~Buys(r)
      BY DEF Idle, Buys
    <3> QED BY <3>2, <3>3
  <2>4. CASE \E e \in Events, y \in Years \cup {0} : Receive(h, e, y)
    <3>1. PICK e \in Events, y \in Years \cup {0} : Receive(h, e, y)
      BY <2>4
    <3> DEFINE p == CASE AlreadyApplied(e) -> "answer"
                      [] ~AlreadyApplied(e) /\ e.outcome = "failed" -> "fail"
                      [] OTHER -> "claim"
               r == [Idle EXCEPT !.t = e.t, !.event = e, !.year = y, !.pc = p]
    <3>2. Becomes(h, r)
      BY <3>1 DEF Receive, Becomes
    <3>3. p \in {"answer", "fail", "claim"}
      OBVIOUS
    <3> HIDE DEF p
    <3>4. ~Buys(r)
      BY <3>3 DEF Idle, Buys
    <3> QED BY <3>2, <3>4
  <2> QED BY <2>1, <2>2, <2>3, <2>4
<1> QED BY <1>1, <1>2, <1>3, GrantEnds, GrantsStay

\* Each payment buys its interval, from the date it is applied at and after the period that was
\* there, through any history of trials, expiries, declined cards, proofs and aborted requests,
\* when requests do not overlap and no plan is assigned meanwhile (billing.service.ts:484-510).
THEOREM PaymentsBuyPeriods ==
  OneAtATime /\ "assignPlan" \notin Operations => (Spec => PaymentBuysPeriod)
<1> SUFFICES ASSUME OneAtATime, "assignPlan" \notin Operations
             PROVE  Spec => PaymentBuysPeriod
  OBVIOUS
<1>1. Init => Granted
  BY DEF Init, Idle, Buys, Granted
<1>2. PaymentsInv /\ Granted /\ [Next]_vars => Granted' /\ BuysPeriod
  <2> SUFFICES ASSUME PaymentsInv, Granted, [Next]_vars PROVE Granted' /\ BuysPeriod
    OBVIOUS
  <2>1. CASE UNCHANGED vars
    BY <2>1 DEF vars, Granted, Buys, Extends, BuysPeriod
  <2>2. CASE \E h \in Handlers : HandlerStep(h)
    BY <2>2, HandlerGrants
  <2>3. CASE \E h \in Handlers :
               \/ Abort(h)
               \/ \E t \in Transactions : StartPayment(h, t) \/ ReadForProof(h, t)
               \/ \E e \in Events, y \in Years \cup {0} : Receive(h, e, y)
    BY <2>3, RequestGrants
  <2>4. CASE (\E e \in Events : ProviderReports(e)) \/ Tick
    <3>1. transaction' = transaction /\ subscription' = subscription /\ handler' = handler
      BY <2>4 DEF ProviderReports, Tick, Stored
    <3> QED BY <3>1 DEF Granted, Buys, Extends, BuysPeriod
  <2>5. CASE AttachTrial
    <3>1. transaction' = transaction /\ handler' = handler /\ subscription.status = "NONE"
      BY <2>5 DEF AttachTrial
    <3>2. \A h \in Handlers : Buys(handler[h]) =>
            /\ handler[h].end >= handler[h].date + Interval
            /\ handler[h].existing = "NONE"
      BY <3>1 DEF Granted, Extends
    <3> QED BY <3>1, <3>2 DEF Granted, Extends, Buys, BuysPeriod
  <2>6. ~AssignPlan
    BY DEF AssignPlan
  <2>7. CASE Next
    <3>1. \A h \in Handlers, t \in Transactions :
            \/ startCheckout(h, t) \/ startCardIntent(h, t)
            \/ startCustomerCheckout(h, t) \/ startCustomerCardIntent(h, t)
            \/ submitPaymentProof(h, t) \/ submitCustomerProof(h, t)
            => StartPayment(h, t) \/ ReadForProof(h, t)
      BY DEF startCheckout, startCardIntent, startCustomerCheckout, startCustomerCardIntent,
             submitPaymentProof, submitCustomerProof
    <3>2. \A h \in Handlers, e \in Events :
            DeliverCustomer(h, e) \/ (\E y \in Years : Deliver(h, e, y))
            => \E y \in Years \cup {0} : Receive(h, e, y)
      BY DEF DeliverCustomer, Deliver
    <3> QED BY <2>2, <2>3, <2>4, <2>5, <2>6, <2>7, <3>1, <3>2
               DEF Next, attachTrialSubscription, attachCustomerTrial
  <2> QED BY <2>1, <2>7
<1>3. PaymentsInv /\ Granted /\ [Next]_vars
        => [\A t \in Transactions :
              transaction[t].status # "SUCCEEDED" /\ transaction'[t].status = "SUCCEEDED" =>
                /\ subscription'.status = "ACTIVE"
                /\ \E h \in Handlers :
                     /\ handler[h].t = t /\ At(h, "commit")
                     /\ subscription'.end >= handler[h].date + Interval
                     /\ \/ handler[h].existing = "NONE"
                        \/ subscription'.end >= subscription.end + Interval]_vars
  BY <1>2 DEF BuysPeriod
<1>4. Spec => []PaymentsInv
  BY PaymentsInvariant DEF Orderly
<1> QED BY <1>1, <1>2, <1>3, <1>4, PTL DEF Spec, PaymentBuysPeriod
=============================================================================
