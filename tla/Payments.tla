------------------------------ MODULE Payments ------------------------------
(***************************************************************************)
(* Paying for a subscription: checkouts, the provider's webhooks, proofs   *)
(* of payment, the paid period, fiscal documents and receipts              *)
(* (billing/billing.service.ts, proof.service.ts, receipt.service.ts,      *)
(* invoice-series.service.ts), for one organization.  A customer's         *)
(* subscription is paid in the same way without documents and receipts     *)
(* (customer/customer-subscription.service.ts, customer-proof.service.ts). *)
(*                                                                         *)
(* A member of Handlers serves one HTTP request at a time, statement by    *)
(* statement; several make requests overlap.                               *)
(***************************************************************************)
EXTENDS Integers, FiniteSets

CONSTANTS Surfaces,       \* who may be paying, among "organization" and "customer"
          Transactions,   \* the payments of this payer
          Method,         \* the payment method of each of them
          Copies,         \* how many events, of different ids, the provider makes of one outcome
          Years,          \* the years of the invoice series
          Handlers,
          Operations,     \* among "assignPlan", "proof", "declined", "lost"
          Interval,       \* what a payment buys, and TrialDays what the trial gives
          TrialDays,
          MaxTime,        \* bound: the clock
          MaxAborts,      \* bound: requests that end half way
          NoEvent, NoTransaction

ASSUME PaymentConstants ==
  /\ Surfaces \subseteq {"organization", "customer"}
  /\ IsFiniteSet(Transactions)
  /\ Method \in [Transactions -> {"CARD", "MULTICAIXA_EXPRESS", "BANK_TRANSFER"}]
  /\ Operations \subseteq {"assignPlan", "proof", "declined", "lost"}
  /\ {Interval, TrialDays, MaxTime, MaxAborts, Copies} \subseteq Nat
  /\ NoTransaction \notin Transactions

Events == [t : Transactions, outcome : {"succeeded", "failed"}, copy : 1..Copies]

ASSUME NoEventIsNone == NoEvent \notin Events

VARIABLES surface,        \* who pays
          now,            \* the clock
          transaction,    \* committed rows
          subscription,   \* the payer's subscription, committed
          nextNumber,     \* invoice_series: the last number given out in each year
          handler,        \* each request: where it is and its local variables
          sessions,       \* transactions the provider can collect
          reported,       \* events the provider has made
          acked,          \* events it was answered 200 for
          receipts,       \* receipt e-mails sent for each transaction
          aborts

vars == <<surface, now, transaction, subscription, nextNumber, handler, sessions, reported, acked,
          receipts, aborts>>

\* What the database holds, and what is outside it.
Stored == <<transaction, subscription, nextNumber>>
Outside == <<now, sessions, reported, receipts>>

NoRow == [status |-> "NONE", event |-> NoEvent, year |-> 0, number |-> 0,
          previous |-> NoTransaction, receiptSent |-> FALSE]
Idle == [pc |-> "idle", t |-> NoTransaction, event |-> NoEvent, seen |-> "NONE",
         year |-> 0, existing |-> "NONE", date |-> 0, end |-> 0, number |-> 0,
         previous |-> NoTransaction]

Init ==
  /\ surface \in Surfaces
  /\ now = 0
  /\ transaction = [t \in Transactions |-> NoRow]
  /\ subscription = [status |-> "NONE", end |-> 0]
  /\ nextNumber = [y \in Years |-> 0]
  /\ handler = [h \in Handlers |-> Idle]
  /\ sessions = {} /\ reported = {} /\ acked = {}
  /\ receipts = [t \in Transactions |-> 0]
  /\ aborts = 0

-----------------------------------------------------------------------------
\* Row locks of the webhook's transaction, from the statement that takes one to its end.
HoldsTransaction(h, t) ==
  handler[h].t = t /\ handler[h].pc \in {"period", "extend", "number", "chain", "commit"}
HoldsSubscription(h) == handler[h].pc \in {"number", "chain", "commit"}
HoldsSeries(h, y) == handler[h].year = y /\ handler[h].pc \in {"chain", "commit"}

TransactionFree(t) == \A h \in Handlers : ~HoldsTransaction(h, t)
SubscriptionFree == \A h \in Handlers : ~HoldsSubscription(h)
SeriesFree(y) == \A h \in Handlers : ~HoldsSeries(h, y)

At(h, point) == handler[h].pc = point
Goto(h, point) == handler' = [handler EXCEPT ![h].pc = point]
Finish(h) == handler' = [handler EXCEPT ![h] = Idle]

-----------------------------------------------------------------------------
\* The PENDING row is written first, before the provider is called.
StartPayment(h, t) ==
  /\ At(h, "idle")
  /\ transaction[t].status = "NONE"
  /\ transaction' = [transaction EXCEPT ![t].status = "PENDING"]
  /\ handler' = [handler EXCEPT ![h] = [Idle EXCEPT !.pc = "calling", !.t = t]]
  /\ UNCHANGED <<subscription, nextNumber, acked, aborts, Outside>>

\* A manager's, after checks of the plan that change nothing.
startCheckout(h, t) ==
  surface = "organization" /\ Method[t] # "CARD" /\ StartPayment(h, t)

\* A card can also be paid on a page of the provider, which startCheckout opens in the same way.
startCardIntent(h, t) ==
  surface = "organization" /\ Method[t] = "CARD" /\ StartPayment(h, t)

startCustomerCheckout(h, t) ==
  surface = "customer" /\ Method[t] # "CARD" /\ StartPayment(h, t)

startCustomerCardIntent(h, t) ==
  surface = "customer" /\ Method[t] = "CARD" /\ StartPayment(h, t)

\* The provider opens a payment, refuses, or opens one and its answer is lost: a payer
\* who was asked by telephone can pay that one all the same.
CallProvider(h) ==
  /\ At(h, "calling")
  /\ \/ /\ sessions' = sessions \cup {handler[h].t}
        /\ Goto(h, "opened")
     \/ /\ "lost" \in Operations /\ Method[handler[h].t] = "MULTICAIXA_EXPRESS"
        /\ sessions' = sessions \cup {handler[h].t}
        /\ Goto(h, "refused")
     \/ /\ Goto(h, "refused")
        /\ UNCHANGED sessions
  /\ UNCHANGED <<Stored, now, reported, acked, receipts, aborts>>

\* The provider's reference is recorded, or the failure is.
RecordSession(h) ==
  /\ At(h, "opened") /\ TransactionFree(handler[h].t)
  /\ Finish(h)
  /\ UNCHANGED <<Stored, acked, aborts, Outside>>

RecordRefusal(h) ==
  /\ At(h, "refused") /\ TransactionFree(handler[h].t)
  /\ transaction' = [transaction EXCEPT ![handler[h].t].status = "FAILED"]
  /\ Finish(h)
  /\ UNCHANGED <<subscription, nextNumber, acked, aborts, Outside>>

\* The provider: a card can be declined and then charged, other payments have one
\* outcome.  One outcome can make several events.
ProviderReports(e) ==
  /\ e.t \in sessions /\ e \notin reported
  /\ e.copy > 1 => [e EXCEPT !.copy = @ - 1] \in reported
  /\ \/ /\ e.outcome = "succeeded"
        /\ Method[e.t] # "CARD" => \A f \in reported : f.t = e.t => f.outcome = "succeeded"
     \/ /\ e.outcome = "failed" /\ "declined" \in Operations
        /\ \A f \in reported : f.t = e.t => f.outcome = "failed"
  /\ reported' = reported \cup {e}
  /\ UNCHANGED <<Stored, now, handler, sessions, acked, receipts, aborts>>

-----------------------------------------------------------------------------
\* applyPaymentEvent.

\* Only the same event counts as a duplicate.
EventOnly_AlreadyApplied(e) == transaction[e.t].event = e

\* Already applied: acknowledged without side effects.
AlreadyApplied(e) == transaction[e.t].event = e \/ transaction[e.t].status = "SUCCEEDED"

\* A signed event: the webhook reads its transaction, without a lock.
Receive(h, e, y) ==
  /\ At(h, "idle") /\ e \in reported
  /\ handler' = [handler EXCEPT ![h] =
       [Idle EXCEPT !.t = e.t, !.event = e, !.year = y,
                    !.pc = CASE AlreadyApplied(e) -> "answer"
                             [] ~AlreadyApplied(e) /\ e.outcome = "failed" -> "fail"
                             [] OTHER -> "claim"]]
  /\ UNCHANGED <<Stored, acked, aborts, Outside>>

\* The year is that of the payment's date.
Deliver(h, e, y) == surface = "organization" /\ Receive(h, e, y)

\* applyCustomerPaymentEvent goes through the same statements, for no year.
DeliverCustomer(h, e) == surface = "customer" /\ Receive(h, e, 0)

\* The update to FAILED, by id.
WriteFailed(h) ==
  LET t == handler[h].t IN
  /\ At(h, "fail") /\ TransactionFree(t)
  /\ transaction' = [transaction EXCEPT ![t].status = "FAILED", ![t].event = handler[h].event]
  /\ Goto(h, "answer")
  /\ UNCHANGED <<subscription, nextNumber, acked, aborts, Outside>>

\* A claim that reads the row again but forgets the condition on its status.
Unconditional_Claimable(t) == transaction[t].status # "NONE"

\* The claim that forgets transactions under review.
PendingOnly_Claimable(t) == transaction[t].status = "PENDING"

Claimable(t) == transaction[t].status \in {"PENDING", "UNDER_REVIEW"}

\* A claim that does not wait: a row someone has locked counts as not claimed.
NoWait_Claim(h) ==
  LET t == handler[h].t IN
  /\ At(h, "claim")
  /\ Goto(h, IF TransactionFree(t) /\ Claimable(t) THEN "period" ELSE "answer")
  /\ UNCHANGED <<Stored, acked, aborts, Outside>>

\* The conditional claim waits for the row and tests it as it then is; a row that cannot
\* be claimed is a duplicate.
Claim(h) ==
  LET t == handler[h].t IN
  /\ At(h, "claim") /\ TransactionFree(t)
  /\ Goto(h, IF Claimable(t) THEN "period" ELSE "answer")
  /\ UNCHANGED <<Stored, acked, aborts, Outside>>

addInterval(date) == date + Interval

\* A payment always extends the old period, even when it ended long ago.
FromEnd_PeriodEnd == addInterval(IF subscription.status # "NONE" THEN subscription.end ELSE now)

\* A valid period is extended from its end, an expired one starts now.
PeriodEnd == addInterval(IF subscription.status # "NONE" /\ subscription.end > now
                         THEN subscription.end ELSE now)

\* The subscription, if there is one, and the clock are read, without a lock.
ReadPeriod(h) ==
  /\ At(h, "period")
  /\ handler' = [handler EXCEPT ![h] =
       [@ EXCEPT !.pc = "extend", !.existing = subscription.status, !.date = now,
                 !.end = PeriodEnd]]
  /\ UNCHANGED <<Stored, acked, aborts, Outside>>

\* The subscription is written and stays locked.  Only an organization is invoiced.
ExtendSubscription(h) ==
  /\ At(h, "extend") /\ SubscriptionFree
  /\ Goto(h, IF surface = "organization" THEN "number" ELSE "commit")
  /\ UNCHANGED <<Stored, acked, aborts, Outside>>

\* allocateInvoiceNumber: one atomic upsert, which locks the series.
AllocateInvoiceNumber(h) ==
  LET y == handler[h].year IN
  /\ At(h, "number") /\ SeriesFree(y)
  /\ handler' = [handler EXCEPT ![h].pc = "chain", ![h].number = nextNumber[y] + 1]
  /\ UNCHANGED <<Stored, acked, aborts, Outside>>

Documents(y, n) == {t \in Transactions : transaction[t].year = y /\ transaction[t].number = n}

\* Off by one: the document of two numbers before.
OffByOne_PreviousDocument(y, n) ==
  IF Documents(y, n - 2) = {} THEN {NoTransaction} ELSE Documents(y, n - 2)

\* previousInvoiceHash: the document just before, if there is one.
PreviousDocument(y, n) ==
  IF n <= 1 \/ Documents(y, n - 1) = {} THEN {NoTransaction} ELSE Documents(y, n - 1)

PreviousInvoiceHash(h) ==
  /\ At(h, "chain")
  /\ \E d \in PreviousDocument(handler[h].year, handler[h].number) :
       handler' = [handler EXCEPT ![h].pc = "commit", ![h].previous = d]
  /\ UNCHANGED <<Stored, acked, aborts, Outside>>

\* The document is written into the transaction's row and everything is committed.
CommitPayment(h) ==
  LET x == handler[h] IN
  /\ At(h, "commit") /\ surface = "organization"
  /\ subscription' = [status |-> "ACTIVE", end |-> x.end]
  /\ transaction' = [transaction EXCEPT ![x.t] =
       [@ EXCEPT !.status = "SUCCEEDED", !.event = x.event, !.year = x.year,
                 !.number = x.number, !.previous = x.previous]]
  /\ nextNumber' = [nextNumber EXCEPT ![x.year] = x.number]
  /\ Goto(h, "receipt")
  /\ UNCHANGED <<acked, aborts, Outside>>

\* applyCustomerPaymentEvent ends with the period: a customer gets neither a document nor
\* a receipt.
CommitCustomerPayment(h) ==
  LET x == handler[h] IN
  /\ At(h, "commit") /\ surface = "customer"
  /\ subscription' = [status |-> "ACTIVE", end |-> x.end]
  /\ transaction' = [transaction EXCEPT ![x.t].status = "SUCCEEDED", ![x.t].event = x.event]
  /\ Goto(h, "answer")
  /\ UNCHANGED <<nextNumber, acked, aborts, Outside>>

\* deliverPaymentReceipt: the row is read, the e-mail is sent or fails, and is recorded.
CheckReceipt(h) ==
  LET t == handler[h].t IN
  /\ At(h, "receipt")
  /\ Goto(h, IF transaction[t].status = "SUCCEEDED" /\ ~transaction[t].receiptSent
             THEN "send" ELSE "answer")
  /\ UNCHANGED <<Stored, acked, aborts, Outside>>

SendReceipt(h) ==
  /\ At(h, "send")
  /\ \/ /\ receipts' = [receipts EXCEPT ![handler[h].t] = @ + 1]
        /\ Goto(h, "sent")
     \/ Goto(h, "answer") /\ UNCHANGED receipts
  /\ UNCHANGED <<Stored, now, sessions, reported, acked, aborts>>

RecordReceipt(h) ==
  LET t == handler[h].t IN
  /\ At(h, "sent") /\ TransactionFree(t)
  /\ transaction' = [transaction EXCEPT ![t].receiptSent = TRUE]
  /\ Goto(h, "answer")
  /\ UNCHANGED <<subscription, nextNumber, acked, aborts, Outside>>

\* The provider gets its 200.
Answer(h) ==
  /\ At(h, "answer")
  /\ acked' = acked \cup {handler[h].event}
  /\ Finish(h)
  /\ UNCHANGED <<Stored, aborts, Outside>>

-----------------------------------------------------------------------------
\* The transaction is read without a lock ...
ReadForProof(h, t) ==
  /\ "proof" \in Operations
  /\ At(h, "idle")
  /\ transaction[t].status \in {"PENDING", "UNDER_REVIEW"}
  /\ handler' = [handler EXCEPT ![h] =
       [Idle EXCEPT !.pc = "proof", !.t = t, !.seen = transaction[t].status]]
  /\ UNCHANGED <<Stored, acked, aborts, Outside>>

\* ... and a status that follows from the one read is written by id.
WriteProofStatus(h) ==
  LET t == handler[h].t IN
  /\ At(h, "proof") /\ TransactionFree(t)
  /\ transaction' = [transaction EXCEPT ![t].status =
                       IF handler[h].seen = "PENDING" THEN "UNDER_REVIEW" ELSE handler[h].seen]
  /\ Finish(h)
  /\ UNCHANGED <<subscription, nextNumber, acked, aborts, Outside>>

submitPaymentProof(h, t) ==
  surface = "organization" /\ Method[t] # "CARD" /\ ReadForProof(h, t)
WriteProof(h) == surface = "organization" /\ WriteProofStatus(h)

submitCustomerProof(h, t) == surface = "customer" /\ ReadForProof(h, t)
WriteCustomerProof(h) == surface = "customer" /\ WriteProofStatus(h)

\* assignPlan: one upsert by the platform's administrator.
AssignPlan ==
  /\ "assignPlan" \in Operations /\ surface = "organization"
  /\ SubscriptionFree
  /\ subscription' = [status |-> "ACTIVE", end |-> addInterval(now)]
  /\ UNCHANGED <<transaction, nextNumber, handler, acked, aborts, Outside>>

\* An upsert that changes no existing row.
AttachTrial ==
  /\ SubscriptionFree
  /\ subscription.status = "NONE"
  /\ subscription' = [status |-> "TRIALING", end |-> now + TrialDays]
  /\ UNCHANGED <<transaction, nextNumber, handler, acked, aborts, Outside>>

attachTrialSubscription == surface = "organization" /\ AttachTrial
attachCustomerTrial == surface = "customer" /\ AttachTrial

\* A request ends where it is: an exception, a lost connection, a crash.  What it has not
\* committed is rolled back and its locks are released.
Abort(h) ==
  /\ aborts < MaxAborts
  /\ ~At(h, "idle")
  /\ aborts' = aborts + 1
  /\ Finish(h)
  /\ UNCHANGED <<Stored, acked, Outside>>

Tick ==
  /\ now < MaxTime
  /\ now' = now + 1
  /\ UNCHANGED <<Stored, handler, sessions, reported, acked, receipts, aborts>>

\* What a request does by itself once it has started.
HandlerStep(h) ==
  /\ UNCHANGED surface
  /\ \/ CallProvider(h) \/ RecordSession(h) \/ RecordRefusal(h)
     \/ WriteFailed(h) \/ Claim(h) \/ ReadPeriod(h) \/ ExtendSubscription(h)
     \/ AllocateInvoiceNumber(h) \/ PreviousInvoiceHash(h)
     \/ CommitPayment(h) \/ CommitCustomerPayment(h)
     \/ CheckReceipt(h) \/ SendReceipt(h) \/ RecordReceipt(h) \/ Answer(h)
     \/ WriteProof(h) \/ WriteCustomerProof(h)

Next ==
  /\ UNCHANGED surface
  /\ \/ \E h \in Handlers :
          \/ HandlerStep(h) \/ Abort(h)
          \/ \E t \in Transactions :
               \/ startCheckout(h, t) \/ startCardIntent(h, t)
               \/ startCustomerCheckout(h, t) \/ startCustomerCardIntent(h, t)
               \/ submitPaymentProof(h, t) \/ submitCustomerProof(h, t)
          \/ \E e \in Events : \/ DeliverCustomer(h, e)
                              \/ \E y \in Years : Deliver(h, e, y)
     \/ \E e \in Events : ProviderReports(e)
     \/ AssignPlan \/ attachTrialSubscription \/ attachCustomerTrial \/ Tick

Spec == Init /\ [][Next]_vars

\* The provider delivers an event again until it is acknowledged, and a request that
\* has started goes on: it waits only for locks of requests that go on too.
Redeliver(e) ==
  /\ e \notin acked
  /\ UNCHANGED surface
  /\ \E h \in Handlers : DeliverCustomer(h, e) \/ \E y \in Years : Deliver(h, e, y)

FairSpec ==
  /\ Spec
  /\ \A h \in Handlers : WF_vars(HandlerStep(h))
  /\ \A e \in Events : SF_vars(Redeliver(e))

-----------------------------------------------------------------------------
Points == {"idle", "calling", "opened", "refused", "fail", "claim", "period", "extend",
           "number", "chain", "commit", "receipt", "send", "sent", "answer", "proof"}
TransactionStatus == {"NONE", "PENDING", "UNDER_REVIEW", "SUCCEEDED", "FAILED"}
SubscriptionStatus == {"NONE", "TRIALING", "ACTIVE"}
Paid == {t \in Transactions : transaction[t].status = "SUCCEEDED"}

\* Types.
TypeOK ==
  /\ surface \in Surfaces
  /\ now \in 0..MaxTime
  /\ transaction \in [Transactions ->
       [status : TransactionStatus, event : Events \cup {NoEvent}, year : Years \cup {0},
        number : Nat, previous : Transactions \cup {NoTransaction}, receiptSent : BOOLEAN]]
  /\ subscription \in [status : SubscriptionStatus, end : Nat]
  /\ nextNumber \in [Years -> Nat]
  /\ handler \in [Handlers ->
       [pc : Points, t : Transactions \cup {NoTransaction}, event : Events \cup {NoEvent},
        seen : TransactionStatus, year : Years \cup {0}, existing : SubscriptionStatus,
        date : Nat, end : Nat, number : Nat, previous : Transactions \cup {NoTransaction}]]
  /\ sessions \subseteq Transactions
  /\ reported \subseteq Events /\ acked \subseteq reported
  /\ receipts \in [Transactions -> Nat]
  /\ aborts \in 0..MaxAborts

\* Each document chains to the one before it in its series (docs/BILLING.md:260-262,
\* invoice-series.service.ts:52-67).
ChainUnbroken ==
  \A t \in Transactions :
    LET row == transaction[t] IN
    row.number # 0 => row.previous \in IF row.number = 1 THEN {NoTransaction}
                                       ELSE Documents(row.year, row.number - 1)

\* The receipt of a payment goes out at most once, though it is sent outside the
\* transaction and the webhook can be repeated (receipt.service.ts:4-8).
ReceiptAtMostOnce == \A t \in Transactions : receipts[t] <= 1

\* A successful payment the provider was told we know of is recorded as paid: it will not
\* tell us again (billing.service.ts:476-478, 660-673).
AckedMeansApplied ==
  \A e \in acked : e.outcome = "succeeded" => transaction[e.t].status = "SUCCEEDED"

\* Each payment buys its interval: when it becomes paid the subscription is active for a whole
\* interval from the date the payment was applied at, and a period that was there to extend,
\* trial or paid, ends a whole interval later than it did, so that no day already bought is
\* lost (billing.service.ts:484-510).
PaymentBuysPeriod ==
  [][\A t \in Transactions :
       transaction[t].status # "SUCCEEDED" /\ transaction'[t].status = "SUCCEEDED" =>
         /\ subscription'.status = "ACTIVE"
         /\ \E h \in Handlers :
              /\ handler[h].t = t /\ At(h, "commit")
              /\ subscription'.end >= handler[h].date + Interval
              /\ \/ handler[h].existing = "NONE"
                 \/ subscription'.end >= subscription.end + Interval]_vars

\* A paid transaction stays paid: "a different event for a transaction that is already
\* paid" is acknowledged "without side effects" (billing.service.ts:436-437).
PaidStaysPaid == [][\A t \in Paid : transaction'[t].status = "SUCCEEDED"]_vars

\* A payment the provider collected is applied in the end, whatever fails on the way and
\* however often its events are delivered, unless it was refused or declined first
\* (billing.service.ts:466-479).
CollectedIsApplied ==
  \A t \in Transactions :
    (\E e \in reported : e.t = t /\ e.outcome = "succeeded")
      ~> (t \in Paid \/ transaction[t].status = "FAILED")

\* The documents, as the abstract ledger sees them.
Ledger == INSTANCE InvoiceLedger
            WITH ledger <- [y \in Years |-> [n \in 1..nextNumber[y] |-> Documents(y, n)]]

\* Invoicing implements the ledger: documents are issued one at a time, in order, each for
\* one payment, and never change (invoice-series.service.ts:4-7).
ImplementsLedger == Ledger!Spec
=============================================================================
