------------------------------ MODULE RateLimit ------------------------------
(***************************************************************************)
(* The fixed-window limiter of the public endpoints                        *)
(* (security/rate-limit.service.ts, rate-limit.rules.ts): one counter per  *)
(* key and window in the table rate_limit_counters, raised by an atomic    *)
(* upsert and deleted some time after its window.                          *)
(***************************************************************************)
EXTENDS Integers

CONSTANTS Keys,        \* what is counted: an endpoint with an address or an account
          Rule,        \* the rule of each key: the window's length and the most requests in it
          MaxTime      \* bound: the clock

ASSUME LimiterConstants ==
  /\ Rule \in [Keys -> [window : Nat \ {0}, max : Nat]]
  /\ MaxTime \in Nat

VARIABLES now,         \* the clock
          counter,     \* the rows: how often each key was counted in each window, 0 for no row
          admitted     \* requests of each key admitted in each window before its end

limiterVars == <<now, counter, admitted>>

Times == 0..MaxTime

\* Windows are aligned to their length.
windowStart(k, t) == t - (t % Rule[k].window)
windowEnd(k, start) == start + Rule[k].window

Windows(k) == {windowStart(k, t) : t \in Times}

isAllowed(k, count) == count <= Rule[k].max

\* At least a second, and enough for the window to be over.
retryAfterSeconds(k, t) ==
  LET left == windowEnd(k, windowStart(k, t)) - t IN IF left > 1 THEN left ELSE 1

LimiterInit ==
  /\ now = 0
  /\ counter = [k \in Keys |-> [w \in Windows(k) |-> 0]]
  /\ admitted = counter

\* A pruning that deletes every window but the latest.
Early_Expired(k, w) == w < now

\* Only windows whose end has passed are deleted.
Expired(k, w) == windowEnd(k, w) < now

\* One statement inserts the row of the window or raises its count.
Counted(k, w) == [counter EXCEPT ![k][w] = @ + 1]

\* A request that looked at the clock at t is counted in that moment's window, perhaps
\* after it has ended; one request in twenty then deletes the expired windows, and any may.
Consume(k, t) ==
  LET w == windowStart(k, t) IN
  /\ \/ counter' = Counted(k, w)
     \/ counter' = [j \in Keys |-> [v \in Windows(j) |-> IF Expired(j, v) THEN 0
                                                         ELSE Counted(k, w)[j][v]]]
  /\ admitted' = IF isAllowed(k, Counted(k, w)[k][w]) /\ now < windowEnd(k, w)
                 THEN [admitted EXCEPT ![k][w] = @ + 1] ELSE admitted
  /\ UNCHANGED now

Tick ==
  /\ now < MaxTime
  /\ now' = now + 1
  /\ UNCHANGED <<counter, admitted>>

-----------------------------------------------------------------------------
LimiterTypeOK ==
  /\ now \in Times
  /\ \A k \in Keys : counter[k] \in [Windows(k) -> Nat] /\ admitted[k] \in [Windows(k) -> Nat]

\* While a window lasts no more requests of a key are admitted than its rule allows,
\* however requests overlap, stall and prune (rate-limit.service.ts:4-7).
WithinLimit == \A k \in Keys : \A w \in Windows(k) : admitted[k][w] <= Rule[k].max

\* What makes it so: the row of a window that is not over has counted all it admitted.
CountedWhileOpen ==
  \A k \in Keys : \A w \in Windows(k) :
    now <= windowEnd(k, w) => admitted[k][w] <= counter[k][w]
=============================================================================
