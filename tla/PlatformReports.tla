---------------------------- MODULE PlatformReports ----------------------------
(***************************************************************************)
(* The two reports of the platform operator: growth                        *)
(* (getPlatformOverview, src/server/platform/monitoring.service.ts) and    *)
(* finances (getPlatformFinancials, src/server/platform/revenue.service.ts)*)
(*                                                                         *)
(* The finances are read by queries that run at once, each on the rows     *)
(* committed when it starts: payments are requested and applied meanwhile. *)
(* That a status is written over a payment that had succeeded, which       *)
(* overlapping requests can do (Payments), is left out.  Growth            *)
(* is computed from one query, over rows that are never given another      *)
(* creation date.  An instant is an hour of Calendar.                      *)
(* A definition named <What>_<definition> is <definition> with a bug in it *)
(* that the properties are shown to catch; nothing else uses it.           *)
(***************************************************************************)
EXTENDS Calendar, FiniteSets, FiniteSetsExt

CONSTANTS
  Transactions, \* customers' transactions
  Amount,       \* Amount[t]: what t costs
  PlanOf,       \* PlanOf[t]: the plan t pays for
  Moments,      \* when a report is asked for
  Instants,     \* when organizations are created and payments made
  WindowMonths, \* query.months: how many months of finances are asked for
  Unpaid        \* null paid_at

ASSUME ReportsOK == /\ Amount \in [Transactions -> Nat]
                    /\ IsFiniteSet(Transactions)
                    /\ Moments \cup Instants \subseteq Nat
                    /\ WindowMonths \in Nat \ {0}
                    \* The months that finances are asked for are in the calendar.
                    /\ \A t \in Moments :
                         /\ 24 * 31 * (WindowMonths - 1) <= t
                         /\ DayOf(t, LUANDA_OFFSET) \div 28 <= LastMonth
                    /\ Unpaid \notin Int

VARIABLES
  asked,     \* which report was asked for
  now,       \* when
  createdAt, \* when an organization was created
  status,    \* transactions.status
  paidAt,    \* transactions.paid_at: a number once the transaction has SUCCEEDED
  answers,   \* what the queries of the report have returned
  meanwhile  \* the transactions that changed while the report was being read

reportVars == <<asked, now, createdAt, status, paidAt, answers, meanwhile>>

\* TransactionStatus, and that of a transaction which is still to be made.
TransactionStatus == {"NONE", "PENDING", "UNDER_REVIEW", "SUCCEEDED", "FAILED", "REFUNDED"}

Succeeded == {t \in Transactions : status[t] = "SUCCEEDED"}
Pending == {t \in Transactions : status[t] = "PENDING"}
Revenue(S) == MapThenSumSet(LAMBDA t : Amount[t], S)

-----------------------------------------------------------------------------
\* Growth.

weeks == [i \in 1..8 |->
           LET from == weekStart(now - (8 - i) * 7 * 24)
           IN [from |-> from, to |-> from + 7 * 24]]

Luanda_months == [i \in 1..6 |->
  LET m == MonthOf(DayOf(now, LUANDA_OFFSET)) - (6 - i)
  IN [from |-> StartOfDay(FirstDay[m], LUANDA_OFFSET),
      to |-> StartOfDay(FirstDay[m + 1], LUANDA_OFFSET)]]

\* Both ends are the start, in Luanda, of a month named in the server's zone.
months == [i \in 1..6 |->
            LET from == monthStart(LocalFirst(LocalMonth(now) - (6 - i)))
            IN [from |-> from, to |-> monthStart(LocalFirst(LocalMonth(from) + 1))]]

Holding(buckets, date) ==
  {i \in DOMAIN buckets : buckets[i].from <= date /\ date < buckets[i].to}

\* bucketize: a date counts in the first bucket that holds it.
bucketize(buckets, date) ==
  [i \in DOMAIN buckets |->
     IF \E j \in Holding(buckets, date) :
          j = i /\ \A k \in Holding(buckets, date) : j <= k
     THEN 1 ELSE 0]

windowStart == IF weeks[1].from < months[1].from THEN weeks[1].from ELSE months[1].from

GetPlatformOverview ==
  /\ asked = "overview"
  /\ answers = << >>
  /\ LET read == createdAt >= windowStart
         Count(buckets) == IF read THEN bucketize(buckets, createdAt)
                           ELSE [i \in DOMAIN buckets |-> 0]
     IN answers' = [byWeek |-> Count(weeks), byMonth |-> Count(months)]
  /\ UNCHANGED <<asked, now, createdAt, status, paidAt, meanwhile>>

-----------------------------------------------------------------------------
\* Finances.

\* `from`: the first of the oldest month, of UTC.
RevenueFrom == StartOfDay(FirstDay[MonthOf(DayOf(now, 0)) - (WindowMonths - 1)], 0)

\* date_trunc('month', paid_at AT TIME ZONE 'Africa/Luanda')
PaidInMonth(t) == MonthOf(DayOf(paidAt[t], LUANDA_OFFSET))

monthlyRows ==
  LET counted == {t \in Succeeded : paidAt[t] >= RevenueFrom}
  IN [m \in {PaidInMonth(t) : t \in counted} |->
        Revenue({t \in counted : PaidInMonth(t) = m})]

AllStatuses_revenueByPlan ==
  [p \in {PlanOf[t] : t \in Transactions} |->
     Revenue({t \in Transactions : PlanOf[t] = p})]

revenueByPlan ==
  [p \in {PlanOf[t] : t \in Succeeded} |-> Revenue({t \in Succeeded : PlanOf[t] = p})]

pendingCents == Revenue(Pending)

FinancialQueries == {"totalRevenue", "revenueByPlan", "pending", "monthly"}

QueryResult(q) == CASE q = "totalRevenue" -> Revenue(Succeeded)
                    [] q = "revenueByPlan" -> revenueByPlan
                    [] q = "pending" -> pendingCents
                    [] q = "monthly" -> monthlyRows

\* One of the queries of getPlatformFinancials reads what is committed.
RunQuery(q) ==
  /\ asked = "financials"
  /\ q \notin DOMAIN answers
  /\ answers' = [x \in DOMAIN answers \cup {q} |->
                   IF x = q THEN QueryResult(q) ELSE answers[x]]
  /\ UNCHANGED <<asked, now, createdAt, status, paidAt, meanwhile>>

Reading == DOMAIN answers \notin {{}, FinancialQueries} /\ asked = "financials"

\* A transaction moves on while the report is being read.
Becomes(t, s) == /\ Reading
                 /\ status' = [status EXCEPT ![t] = s]
                 /\ meanwhile' = meanwhile \cup {t}
                 /\ UNCHANGED <<asked, now, createdAt, answers>>

\* A webhook applies a payment, made just now.
Succeed(t) ==
  /\ status[t] \in {"PENDING", "UNDER_REVIEW"}
  /\ Becomes(t, "SUCCEEDED")
  /\ paidAt' = [paidAt EXCEPT ![t] = now]

\* A payment is requested, its proof is handed in, or it fails.
RequestPayment(t) == status[t] = "NONE" /\ Becomes(t, "PENDING") /\ UNCHANGED paidAt
SubmitProof(t) == status[t] = "PENDING" /\ Becomes(t, "UNDER_REVIEW") /\ UNCHANGED paidAt
Fail(t) == /\ status[t] \in {"PENDING", "UNDER_REVIEW"}
           /\ Becomes(t, "FAILED") /\ UNCHANGED paidAt

Made == {t \in Instants : t <= now}

\* The dates that the report asked for does not look at are left at their first values.
ReportInit ==
  /\ asked \in {"overview", "financials"}
  /\ now \in Moments
  /\ IF asked = "overview"
     THEN /\ createdAt \in Made
          /\ status = [t \in Transactions |-> "NONE"] /\ paidAt = [t \in Transactions |-> Unpaid]
     ELSE /\ createdAt = 0
          /\ paidAt \in [Transactions -> Made \cup {Unpaid}]
          /\ status \in [Transactions -> TransactionStatus]
          /\ \A t \in Transactions : status[t] = "SUCCEEDED" <=> paidAt[t] # Unpaid
  /\ answers = << >>
  /\ meanwhile = {}

ReportNext == \/ GetPlatformOverview
              \/ \E q \in FinancialQueries : RunQuery(q)
              \/ \E t \in Transactions : Succeed(t) \/ RequestPayment(t) \/ SubmitProof(t) \/ Fail(t)
-----------------------------------------------------------------------------
\* What the operator is shown.

Answered(report) ==
  /\ asked = report
  /\ IF report = "overview" THEN answers # << >> ELSE DOMAIN answers = FinancialQueries
Total(f) == MapThenSumSet(LAMBDA i : f[i], DOMAIN f)

\* An organization is counted in exactly one of the last six months of Luanda, or was
\* created before them (monitoring.service.ts:154, "last 6 months", 164-177).
MonthsCountOnce ==
  Answered("overview") =>
    Total(answers["byMonth"]) = (IF createdAt >= Luanda_months[1].from THEN 1 ELSE 0)

Apart(x, y) == IF x < y THEN y - x ELSE x - y

\* The report is not a snapshot, and yet no two of its parts differ by more than what
\* changed while it was being read: the total and its split by plan; the total with what is
\* pending and the payments in either state (those under review, failed or refunded are in
\* neither); and a month of Luanda, the oldest apart, and all that was paid in it
\* (revenue.service.ts:3-8, 37-104).
FinancesAgree ==
  Answered("financials") =>
    /\ Apart(answers["totalRevenue"], Total(answers["revenueByPlan"])) <= Revenue(meanwhile)
    /\ Apart(answers["totalRevenue"] + answers["pending"], Revenue(Succeeded \cup Pending))
         <= Revenue(meanwhile)
    /\ \A m \in (MonthOf(DayOf(RevenueFrom, 0)) + 1)..MonthOf(DayOf(now, LUANDA_OFFSET)) :
         LET shown == IF m \in DOMAIN answers["monthly"] THEN answers["monthly"][m] ELSE 0
         IN Apart(shown, Revenue({t \in Succeeded : PaidInMonth(t) = m})) <= Revenue(meanwhile)
=============================================================================
