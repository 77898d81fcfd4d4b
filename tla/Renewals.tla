------------------------------- MODULE Renewals -------------------------------
(***************************************************************************)
(* The dates a subscription is paid to: addInterval                        *)
(* (src/server/billing/billing.rules.ts), applied once for each payment to *)
(* the end of the period before (billing.service.ts:488).                  *)
(* A definition named <What>_<definition> is <definition> with a bug in it *)
(* that the properties are shown to catch; nothing else uses it.           *)
(***************************************************************************)
EXTENDS Calendar

CONSTANTS
  Starts,      \* instants at which a first period may start
  MaxPeriods   \* periods paid in a row

ASSUME RenewalsOK == /\ Starts \subseteq Nat
                     /\ MaxPeriods \in Nat
                     \* The months that are paid for are in the calendar.
                     /\ \A t \in Starts :
                          31 * (DayOf(t, 0) \div 28 + MaxPeriods + 2) <= 28 * LastMonth

VARIABLES
  interval,  \* the plan's BillingInterval
  start,     \* when the first period started
  periods,   \* how many have been paid
  end        \* currentPeriodEnd

renewalVars == <<interval, start, periods, end>>

MonthsIn(i) == IF i = "YEARLY" THEN 12 ELSE 1

\* The same hour, `months` later, on the given day of the month counted from 0.  A day
\* that the month does not have is one of the next month.
Shifted(t, months, day) ==
  24 * (FirstDay[MonthOf(DayOf(t, 0)) + months] + day) + (t % 24)

DayOfMonth(t) == DayOf(t, 0) - FirstDay[MonthOf(DayOf(t, 0))]

Days_addInterval(t, i) == t + 24 * (IF i = "YEARLY" THEN 365 ELSE 30)

\* setUTCMonth, setUTCFullYear: a date that does not exist runs over into the next month.
addInterval(t, i) == Shifted(t, MonthsIn(i), DayOfMonth(t))

RenewalInit == /\ interval \in {"MONTHLY", "YEARLY"}
               /\ start \in Starts
               /\ periods = 0
               /\ end = start

\* A payment made before the period ends.
Renew == /\ MonthsIn(interval) * (periods + 1) <= MaxPeriods
         /\ periods' = periods + 1
         /\ end' = addInterval(end, interval)
         /\ UNCHANGED <<interval, start>>

-----------------------------------------------------------------------------
\* The day the start has in the month that is `months` later, or the last of that month.
Anniversary(months) ==
  LET last == MonthLength(MonthOf(DayOf(start, 0)) + months) - 1
      day == DayOfMonth(start)
  IN Shifted(start, months, IF day < last THEN day ELSE last)

\* However many periods are paid, and on whatever day they started, they last at least to
\* the anniversary of the start, and no more than three days longer: what a short month
\* cuts off is added behind, once (billing.rules.ts:13).
RenewalsKeepTheDay ==
  end - Anniversary(MonthsIn(interval) * periods) \in 0..3 * 24
=============================================================================
