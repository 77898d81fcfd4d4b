----------------------------- MODULE MCBackOffice -----------------------------
(***************************************************************************)
(* Instances of BackOffice for TLC.                                        *)
(***************************************************************************)
EXTENDS BackOffice

\* Reports are asked for in the middle of 2026, in the first hour of a month in UTC, in its
\* last, which is the next month's first in Luanda, and at the end of February.
Hour(m, day, h) == 24 * (FirstDay[m] + day - 1) + h
Asking == {Hour(26, 15, 12), Hour(26, 1, 0), Hour(26, 31, 23), Hour(25, 28, 23)}
Happening == {Hour(24, 31, 22), Hour(24, 31, 23), Hour(25, 1, 0), Hour(25, 28, 22),
              Hour(25, 28, 23), Hour(26, 1, 0), Hour(26, 14, 23)}
Prices == [t \in Transactions |-> t]
Plans == [t \in Transactions |-> IF t = 1 THEN "starter" ELSE "growth"]

\* Three queues in two branches; one manager of all of them and one of the first branch.
InBranches == [q \in Queues |-> IF q = "q3" THEN "b2" ELSE "b1"]
TwoManagers == [m \in {"m1", "m2"} |-> IF m = "m1" THEN {EveryBranch} ELSE {"b1"}]

\* A ticket issued at j and, unless c = Never, completed at c: at the ends of the period
\* asked for, inside it, and before it.
Ticket(s, q, j, c, f) == [status |-> s, queue |-> q, joined |-> j, completed |-> c, staff |-> f]
SomeRows == {Ticket("WAITING", "q1", 1, Never, "s1"), Ticket("WAITING", "q3", 4, Never, "s1"),
             Ticket("WAITING", "q2", 0, Never, "s2"), Ticket("CANCELLED", "q1", 3, Never, "s1"),
             Ticket("COMPLETED", "q1", 0, 1, "s1"), Ticket("COMPLETED", "q2", 1, 4, "s2"),
             Ticket("COMPLETED", "q3", 2, 3, "s2")}

\* A first period starts in the last hour of a day, of any day of more than two years.
AnyDay == {24 * d + 23 : d \in 0..900}

\* Account numbers with check digits of one figure and of two, among them a real one; an
\* IBAN, one with a wrong check digit, and what is neither.
Zeros == [i \in 1..21 |-> 0]
Real == <<0, 0, 5, 1, 0, 0, 0, 0, 2, 1, 0, 9, 9, 1, 7, 5, 1, 0, 1, 7, 6>>
SomeBbans == {Zeros, [Zeros EXCEPT ![21] = 9], [i \in 1..21 |-> 9], Real}
             \cup {[Zeros EXCEPT ![21] = 7, ![20] = d] : d \in 0..5}
SomeAccounts == {[ao |-> FALSE, digits |-> bban] : bban \in SomeBbans}
                \cup {[ao |-> TRUE, digits |-> <<0, 6>> \o Real],
                      [ao |-> TRUE, digits |-> <<6, 0>> \o Real],
                      [ao |-> TRUE, digits |-> Real], [ao |-> FALSE, digits |-> << >>]}

\* Texts of n letters, every seventh with an accent: two bytes.
Text(n) == [i \in 1..n |-> IF i % 7 = 3 THEN 233 ELSE 48 + (i % 10)]
SomeNames == {Text(26), <<32>> \o Text(4) \o <<32, 65, 160>>, <<9, 32>>}
SomeCities == {Text(16), <<32>>}
SomeReferences == {Text(21), Text(40), <<32, 70>>, <<32>>}
SomeGuis == {<<66, 73, 67>>, Text(30)}

\* Two organizations, one without branches; one of the two branches of the other has a queue.
Lists == [o \in {"open", "o1", "o2", "b1", "b2", "q1"} |->
            CASE o = "open" -> <<"o1", "o2">> [] o = "o1" -> <<"b1", "b2">>
              [] o = "b1" -> <<"q1">> [] OTHER -> << >>]
OneOrTwo == [p \in DOMAIN Pages |-> IF p \in {"gestor", "staff"} THEN 1 ELSE 2]
TwoOrThree == [p \in DOMAIN Pages |-> IF p = "admin" THEN 3 ELSE 2]
=============================================================================
