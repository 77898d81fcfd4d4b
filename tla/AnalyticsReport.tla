---------------------------- MODULE AnalyticsReport ----------------------------
(***************************************************************************)
(* The analytics report of an organization                                 *)
(* (src/server/organizations/analytics.service.ts): queries that run at    *)
(* once, each on the rows committed when it starts, while the queues go on *)
(* working.  What they return is put together when all have answered.      *)
(* Two of the nine queries are left out: the tickets issued per hour are   *)
(* selected as those issued per day, and the times of the organization are *)
(* selected as its tickets completed per hour; nor are times averaged.     *)
(* Instants are counted in steps of the day: a day has HoursPerDay of      *)
(* them and a week DaysPerWeek days, on the clock of the time zone asked   *)
(* for.                                                                    *)
(* A definition named <What>_<definition> is <definition> with a bug in it *)
(* that the properties are shown to catch; nothing else uses it.           *)
(***************************************************************************)
EXTENDS Integers, FiniteSets, FiniteSetsExt

CONSTANTS
  Tickets,       \* tickets of the organization
  Queues,        \* its queues
  BranchOf,      \* BranchOf[q]: the branch of q
  Staff,         \* who serves
  Managers,      \* Managers[m]: the active memberships, as MANAGER, of m
  EveryBranch,   \* a membership's null branch
  HoursPerDay, DaysPerWeek,
  From, To,      \* the period asked for: From <= t < To
  Horizon,       \* instants are 0..Horizon
  NewRows,       \* what the rows of tickets can be when the report is asked for
  MaxChanges     \* changes of tickets while the report is read

VARIABLES
  manager,  \* who asks
  row,      \* the rows of `tickets`
  results,  \* what the queries have returned
  changes,  \* how often a ticket changed while the report was being read
  idle      \* no query has read what is committed now

analyticsVars == <<manager, row, results, changes, idle>>

Branches == {BranchOf[q] : q \in Queues}
Statuses == {"WAITING", "COMPLETED", "CANCELLED"}
Never == -1

\* joined_at, completed_at, served_by_id.
Rows == [status: Statuses, queue: Queues, joined: 0..Horizon, completed: Never..Horizon,
         staff: Staff]

ASSUME AnalyticsOK == /\ {From, To, Horizon, MaxChanges} \subseteq Nat
                      /\ From < To
                      /\ {HoursPerDay, DaysPerWeek} \subseteq Nat \ {0}
                      /\ IsFiniteSet(Tickets)
                      /\ IsFiniteSet(Queues)
                      /\ DOMAIN Managers # {}
                      /\ \A m \in DOMAIN Managers : IsFiniteSet(Managers[m])
                      /\ NewRows \subseteq Rows
                      /\ NewRows # {}

-----------------------------------------------------------------------------
\* What the queries select.

\* managerBranchScope: a membership of no branch in particular sees them all.
managerBranchScope == IF EveryBranch \in Managers[manager] THEN Branches
                      ELSE Managers[manager]

branchFilter(t) == BranchOf[row[t].queue] \in managerBranchScope

During(instant) == From <= instant /\ instant < To

IssuedIn == {t \in Tickets : branchFilter(t) /\ During(row[t].joined)}

\* What every query of completed tickets selects, before its branches.
CompletedIn == {t \in Tickets : row[t].status = "COMPLETED" /\ During(row[t].completed)}

Served == {t \in CompletedIn : branchFilter(t)}

Day(instant) == instant \div HoursPerDay
Week(instant) == Day(instant) \div DaysPerWeek

\* GROUP BY key, COUNT(*): key maps every ticket of S to its group.
Grouped(S, key) == [k \in {key[t] : t \in S} |-> Cardinality({t \in S : key[t] = k})]

\* LEFT JOIN: a queue or a branch with nothing completed has a row of its own.
PerformanceOf(units, unitOf) ==
  [u \in units |-> Cardinality({t \in CompletedIn : unitOf[t] = u})]

queueRows == PerformanceOf({q \in Queues : BranchOf[q] \in managerBranchScope},
                           [t \in Tickets |-> row[t].queue])

AnyBranch_branchRows == PerformanceOf(Branches, [t \in Tickets |-> BranchOf[row[t].queue]])

branchRows == PerformanceOf(managerBranchScope, [t \in Tickets |-> BranchOf[row[t].queue]])

staffRows == Grouped(Served, [t \in Tickets |-> row[t].staff])

Queries == {"daily", "weekly", "queue", "hourly", "status", "branch", "staff"}

Result(q) ==
  CASE q = "daily" -> Grouped(IssuedIn, [t \in Tickets |-> Day(row[t].joined)])
    [] q = "weekly" -> Grouped(IssuedIn, [t \in Tickets |-> Week(row[t].joined)])
    [] q = "status" -> Grouped(IssuedIn, [t \in Tickets |-> row[t].status])
    [] q = "hourly" -> Grouped(Served, [t \in Tickets |-> row[t].completed % HoursPerDay])
    [] q = "queue" -> queueRows
    [] q = "branch" -> branchRows
    [] q = "staff" -> staffRows

AllAnswered == DOMAIN results = Queries

\* The queries that read the same committed rows are one step; the last step, when
\* nothing is left to change, is all that remain.
RunQueries(S) ==
  /\ idle
  /\ S # {}
  /\ S \subseteq Queries \ DOMAIN results
  /\ changes = MaxChanges => S = Queries \ DOMAIN results
  /\ results' = [q \in DOMAIN results \cup S |-> IF q \in S THEN Result(q) ELSE results[q]]
  /\ idle' = FALSE
  /\ UNCHANGED <<manager, row, changes>>

-----------------------------------------------------------------------------
\* What happens to the tickets in the meantime, in the transactions of QueueEngine.

ChangeTo(t, r) ==
  /\ ~idle
  /\ ~AllAnswered
  /\ changes < MaxChanges
  /\ r # row[t]
  /\ row' = [row EXCEPT ![t] = r]
  /\ changes' = changes + 1
  /\ idle' = TRUE
  /\ UNCHANGED <<manager, results>>

Complete(t, instant) ==
  /\ row[t].status = "WAITING"
  /\ row[t].joined < instant
  /\ ChangeTo(t, [row[t] EXCEPT !.status = "COMPLETED", !.completed = instant])

Cancel(t) == /\ row[t].status = "WAITING"
             /\ ChangeTo(t, [row[t] EXCEPT !.status = "CANCELLED"])

Transfer(t, q) == /\ row[t].status = "WAITING"
                  /\ ChangeTo(t, [row[t] EXCEPT !.queue = q])

AnalyticsInit == /\ manager \in DOMAIN Managers
                 /\ row \in [Tickets -> NewRows]
                 /\ results = << >>
                 /\ changes = 0
                 /\ idle = TRUE

AnalyticsNext ==
  \/ \E S \in SUBSET Queries : RunQueries(S)
  \/ \E t \in Tickets : \/ \E instant \in 0..Horizon : Complete(t, instant)
                        \/ Cancel(t)
                        \/ \E q \in Queues : Transfer(t, q)

-----------------------------------------------------------------------------
\* How the results are put together, and what can be relied on.

sumCounts(f) == MapThenSumSet(LAMBDA k : f[k], DOMAIN f)

\* sumCounts of the daily rows, and of the hourly ones.
issuedTickets == sumCounts(results["daily"])
completedTickets == sumCounts(results["hourly"])

\* Math.round of a rate in hundredths of a per cent; 0 of nothing.
rateBps(part, whole) == IF whole = 0 THEN 0 ELSE (20000 * part + whole) \div (2 * whole)

statusCount(s) == IF s \in DOMAIN results["status"] THEN results["status"][s] ELSE 0

NearlyEqual(x, y) == x - y \in -changes..changes

\* The report is not a snapshot, and yet no two of its parts differ by more tickets than
\* changed while it was being read: days, weeks and statuses of those issued; hours,
\* queues, branches and staff of those completed (analytics.service.ts:120-360).
ReportAddsUp ==
  AllAnswered =>
    /\ NearlyEqual(issuedTickets, sumCounts(results["weekly"]))
    /\ NearlyEqual(issuedTickets, sumCounts(results["status"]))
    /\ \A part \in {"queue", "branch", "staff"} :
         NearlyEqual(completedTickets, sumCounts(results[part]))
    /\ changes = 0 => \A s \in Statuses : rateBps(statusCount(s), issuedTickets) <= 10000
=============================================================================
