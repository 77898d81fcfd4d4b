------------------------------- MODULE Calendar -------------------------------
(***************************************************************************)
(* The dates FilaZero counts in: the Gregorian calendar from January 2024, *)
(* instants in hours of UTC, and the days, weeks and months of Luanda,     *)
(* where the clock is one hour ahead all year                              *)
(* (src/server/platform/monitoring.service.ts:27-67).  January 1, 2024 is  *)
(* day 0 and a Monday; its month is month 0.                               *)
(***************************************************************************)
EXTENDS Integers

CONSTANTS
  LastMonth,    \* the calendar ends with this month
  ServerOffset  \* hours the clock of the server's time zone is ahead of UTC

ASSUME CalendarOK == /\ LastMonth \in Nat
                     /\ ServerOffset \in -11..12

Months == 0..LastMonth
LUANDA_OFFSET == 1

\* Years divisible by 4 are leap years: the calendar ends before 2100.
MonthLength(m) ==
  CASE m % 12 = 1 -> IF m % 48 = 1 THEN 29 ELSE 28
    [] m % 12 \in {3, 5, 8, 10} -> 30
    [] OTHER -> 31

FirstDay[m \in Months] == IF m = 0 THEN 0 ELSE FirstDay[m - 1] + MonthLength(m - 1)

DayOf(t, offset) == (t + offset) \div 24

\* A day is in month day \div 31 or in one of the few after it.
MonthOf(day) ==
  CHOOSE m \in (day \div 31)..(day \div 28) :
    FirstDay[m] <= day /\ day < FirstDay[m] + MonthLength(m)

\* The instant at which `day` begins where the clock is ahead of UTC by `offset`.
StartOfDay(day, offset) == 24 * day - offset

\* luandaDayStart
luandaDayStart(t) == StartOfDay(DayOf(t, LUANDA_OFFSET), LUANDA_OFFSET)

\* weekStart: Monday, in Luanda, of the week of t.
weekStart(t) == luandaDayStart(t) - 24 * (DayOf(t, LUANDA_OFFSET) % 7)

\* monthStart: the first of the month of t, in Luanda.
monthStart(t) ==
  StartOfDay(FirstDay[MonthOf(DayOf(t, LUANDA_OFFSET))], LUANDA_OFFSET)

\* new Date(year, month, 1), of the server's own time zone.
LocalFirst(m) == StartOfDay(FirstDay[m], ServerOffset)

\* getFullYear() and getMonth(), of the server's own time zone.
LocalMonth(t) == MonthOf(DayOf(t, ServerOffset))
=============================================================================
