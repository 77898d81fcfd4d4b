------------------------ MODULE PublicEndpointsProofs ------------------------
(***************************************************************************)
(* Proofs about PublicEndpoints, for any keys, rules, numbers of           *)
(* overlapping requests, sessions, machines and clocks: the limiter keeps  *)
(* its rules, a live session stands for the password, a machine is shown   *)
(* only as it was said to be.                                              *)
(***************************************************************************)
EXTENDS PublicEndpoints, TLAPS

\* A number for each key and each of its windows.
IsTable(f) == f = [k \in Keys |-> f[k]] /\ \A k \in Keys : f[k] \in [Windows(k) -> Nat]

CountersOK == now \in Nat /\ IsTable(counter) /\ IsTable(admitted)

\* WithinLimit is not inductive: a row that has counted less than was admitted, or one
\* that is pruned before its window is over, would admit too many.
LimiterInv == CountersOK /\ CountedWhileOpen /\ WithinLimit

-----------------------------------------------------------------------------
\* Windows begin and end at moments of the clock's scale.
LEMMA WindowEnds == \A k \in Keys : \A w \in Windows(k) : w \in Int /\ windowEnd(k, w) \in Int
<1> SUFFICES ASSUME NEW k \in Keys, NEW w \in Windows(k)
             PROVE  w \in Int /\ windowEnd(k, w) \in Int
  OBVIOUS
<1>1. Rule[k].window \in Nat \ {0}
  BY LimiterConstants
<1>2. PICK t \in Times : w = windowStart(k, t)
  BY DEF Windows
<1>3. t \in Int /\ t % Rule[k].window \in Int
  BY <1>1, <1>2, LimiterConstants DEF Times
<1> QED BY <1>1, <1>2, <1>3 DEF windowStart, windowEnd

\* A limiter that has counted nothing.
LEMMA LimiterStarts == LimiterInit => LimiterInv
<1> SUFFICES ASSUME LimiterInit PROVE LimiterInv
  OBVIOUS
<1>1. CountersOK
  BY DEF LimiterInit, CountersOK, IsTable
<1>2. CountedWhileOpen
  BY DEF LimiterInit, CountedWhileOpen
<1>3. \A k \in Keys : Rule[k].max \in Nat
  BY LimiterConstants
<1>4. WithinLimit
  BY <1>3 DEF LimiterInit, WithinLimit
<1> QED BY <1>1, <1>2, <1>4 DEF LimiterInv

\* The clock only ends windows.
LEMMA TickKeeps == LimiterInv /\ Tick => LimiterInv'
<1> SUFFICES ASSUME LimiterInv, Tick PROVE LimiterInv'
  OBVIOUS
<1>1. CountersOK'
  <2>1. now' \in Nat /\ counter' = counter /\ admitted' = admitted
    BY DEF LimiterInv, CountersOK, Tick
  <2> QED BY <2>1 DEF LimiterInv, CountersOK, IsTable, Windows, windowStart, Times
<1>2. ASSUME NEW k \in Keys, NEW w \in Windows(k), now' <= windowEnd(k, w)
      PROVE  admitted'[k][w] <= counter'[k][w]
  <2>1. now <= windowEnd(k, w)
    BY <1>2, WindowEnds DEF Tick, LimiterInv, CountersOK
  <2> QED BY <2>1 DEF Tick, LimiterInv, CountedWhileOpen
<1>3. CountedWhileOpen'
  BY <1>2 DEF CountedWhileOpen, windowEnd, Windows, windowStart, Times
<1>4. WithinLimit'
  BY DEF LimiterInv, WithinLimit, Tick
<1> QED BY <1>1, <1>3, <1>4 DEF LimiterInv

\* One more in one window of a table, which need not be one of the table's.
Raise(f, k, w) == [f EXCEPT ![k][w] = @ + 1]

\* g is f with one more there.
IsRaised(f, g, k, w) ==
  \A j \in Keys : \A v \in Windows(j) :
    g[j][v] = IF j = k /\ v = w THEN f[j][v] + 1 ELSE f[j][v]

\* The row of a key, with one more in a window that is perhaps not one of its own.
LEMMA RaisedRow ==
  ASSUME NEW S, NEW F \in [S -> Nat], NEW w
  PROVE  /\ [F EXCEPT ![w] = F[w] + 1] \in [S -> Nat]
         /\ \A v \in S : [F EXCEPT ![w] = F[w] + 1][v] = IF v = w THEN F[v] + 1 ELSE F[v]
<1>1. CASE w \in S
  BY <1>1
<1>2. CASE w \notin S
  BY <1>2
<1> QED BY <1>1, <1>2

\* A table with one more stays a table, and no other number of it changes.
LEMMA Raised ==
  ASSUME NEW f, IsTable(f), NEW k, NEW w
  PROVE  IsTable(Raise(f, k, w)) /\ IsRaised(f, Raise(f, k, w), k, w)
<1> DEFINE g == Raise(f, k, w)
<1>0. f = [j \in Keys |-> f[j]] /\ \A j \in Keys : f[j] \in [Windows(j) -> Nat]
  BY DEF IsTable
<1>1. g = [j \in Keys |-> g[j]]
  BY <1>0 DEF Raise
<1>2. ASSUME NEW j \in Keys
      PROVE  /\ g[j] \in [Windows(j) -> Nat]
             /\ \A v \in Windows(j) :
                  g[j][v] = IF j = k /\ v = w THEN f[j][v] + 1 ELSE f[j][v]
  <2>1. CASE j = k
    <3>1. g[j] = [f[j] EXCEPT ![w] = f[j][w] + 1]
      BY <1>0, <2>1 DEF Raise
    <3> DEFINE R == [f[j] EXCEPT ![w] = f[j][w] + 1]
    <3>2. f[j] \in [Windows(j) -> Nat]
      BY <1>0
    <3>3. /\ R \in [Windows(j) -> Nat]
          /\ \A v \in Windows(j) : R[v] = IF v = w THEN f[j][v] + 1 ELSE f[j][v]
      BY <3>2, RaisedRow
    <3> HIDE DEF g, R
    <3>4. g[j] = R
      BY <3>1 DEF R
    <3> QED BY <2>1, <3>3, <3>4
  <2>2. CASE j # k
    <3>1. g[j] = f[j]
      BY <1>0, <2>2 DEF Raise
    <3> HIDE DEF g
    <3> QED BY <1>0, <2>2, <3>1
  <2> QED BY <2>1, <2>2
<1> HIDE DEF g
<1>3. IsTable(g) /\ IsRaised(f, g, k, w)
  BY <1>1, <1>2 DEF IsTable, IsRaised
<1> QED BY <1>3 DEF g

\* A request counts one more in its window, and is admitted only if the row, pruned or
\* not, has counted no more than the rule allows.
LEMMA ConsumeKeeps == ASSUME NEW k, NEW t, LimiterInv, Consume(k, t) PROVE LimiterInv'
<1> DEFINE w == windowStart(k, t)
<1> DEFINE More == Counted(k, w)
<1>1. now' = now /\ now \in Nat /\ IsTable(counter) /\ IsTable(admitted)
  BY DEF Consume, LimiterInv, CountersOK
<1>2. IsTable(More) /\ IsRaised(counter, More, k, w)
  BY <1>1, Raised DEF Counted, Raise
<1>3. /\ IsTable(counter')
      /\ \A j \in Keys : \A v \in Windows(j) :
           now <= windowEnd(j, v) => counter'[j][v] = More[j][v]
  <2>1. CASE counter' = More
    BY <2>1, <1>2
  <2>2. CASE counter' = [j \in Keys |-> [v \in Windows(j) |->
                IF Expired(j, v) THEN 0 ELSE More[j][v]]]
    <3>1. \A j \in Keys : \A v \in Windows(j) : now <= windowEnd(j, v) => ~Expired(j, v)
      BY <1>1, WindowEnds DEF Expired
    <3> HIDE DEF More
    <3>2. IsTable(counter')
      BY <2>2, <1>2 DEF IsTable
    <3> QED BY <2>2, <3>1, <3>2
  <2> QED BY <2>1, <2>2 DEF Consume
<1>4. /\ IsTable(admitted')
      /\ \A j \in Keys : \A v \in Windows(j) :
           \/ admitted'[j][v] = admitted[j][v]
           \/ /\ j = k /\ v = w /\ admitted'[j][v] = admitted[j][v] + 1
              /\ isAllowed(k, More[k][w]) /\ now < windowEnd(k, w)
  <2>1. CASE isAllowed(k, More[k][w]) /\ now < windowEnd(k, w)
    <3>1. admitted' = Raise(admitted, k, w)
      BY <2>1 DEF Consume, Raise
    <3>2. IsTable(admitted') /\ IsRaised(admitted, admitted', k, w)
      BY <1>1, <3>1, Raised
    <3> QED BY <2>1, <3>2 DEF IsRaised
  <2>2. CASE ~(isAllowed(k, More[k][w]) /\ now < windowEnd(k, w))
    BY <1>1, <2>2 DEF Consume
  <2> QED BY <2>1, <2>2
<1>5. CountersOK'
  BY <1>1, <1>3, <1>4 DEF CountersOK, IsTable, Windows, windowStart, Times
<1>6. ASSUME NEW j \in Keys, NEW v \in Windows(j), now <= windowEnd(j, v)
      PROVE  admitted'[j][v] <= counter'[j][v]
  <2>1. /\ admitted[j][v] \in Nat /\ counter[j][v] \in Nat
        /\ admitted[j][v] <= counter[j][v]
    BY <1>6 DEF LimiterInv, CountersOK, IsTable, CountedWhileOpen
  <2> QED BY <2>1, <1>2, <1>3, <1>4, <1>6 DEF IsRaised
<1>7. CountedWhileOpen'
  BY <1>1, <1>6 DEF CountedWhileOpen, windowEnd, Windows, windowStart, Times
<1>8. ASSUME NEW j \in Keys, NEW v \in Windows(j)
      PROVE  admitted'[j][v] <= Rule[j].max
  <2>1. CASE admitted'[j][v] = admitted[j][v]
    BY <2>1 DEF LimiterInv, WithinLimit
  <2>2. CASE /\ j = k /\ v = w /\ admitted'[j][v] = admitted[j][v] + 1
             /\ isAllowed(k, More[k][w]) /\ now < windowEnd(k, w)
    <3>1. now <= windowEnd(j, v)
      BY <2>2, <1>1, WindowEnds
    <3>2. admitted[j][v] <= counter[j][v] /\ admitted[j][v] \in Nat /\ counter[j][v] \in Nat
      BY <3>1 DEF LimiterInv, CountersOK, IsTable, CountedWhileOpen
    <3>3. More[j][v] = counter[j][v] + 1 /\ More[j][v] <= Rule[j].max
      BY <2>2, <1>2 DEF isAllowed, IsRaised
    <3>4. Rule[j].max \in Nat
      BY LimiterConstants
    <3> QED BY <2>2, <3>2, <3>3, <3>4
  <2> QED BY <2>1, <2>2, <1>4
<1>9. WithinLimit'
  BY <1>8 DEF WithinLimit, Windows, windowStart, Times
<1> QED BY <1>5, <1>7, <1>9 DEF LimiterInv

-----------------------------------------------------------------------------
\* What any request of an account does to the limiter: nothing, or one count.
LEMMA AccountsCount ==
  AccountsNext => UNCHANGED limiterVars \/ \E k, t : Consume(k, t)
<1> SUFFICES ASSUME AccountsNext PROVE UNCHANGED limiterVars \/ \E k, t : Consume(k, t)
  OBVIOUS
<1>1. ASSUME NEW h \in Handlers, HandlerStep(h)
      PROVE  UNCHANGED limiterVars \/ \E k, t : Consume(k, t)
  <2>1. CASE Count(h)
    BY <2>1 DEF Count
  <2>2. CASE CreateUser(h) \/ AttachTrial(h) \/ CreateSession(h) \/ VerifyPassword(h)
    BY <2>2 DEF CreateUser, AttachTrial, CreateSession, VerifyPassword
  <2>3. CASE RevokeSession(h) \/ FindOutstanding(h) \/ IssueToken(h) \/ CheckToken(h)
    BY <2>3 DEF RevokeSession, FindOutstanding, IssueToken, CheckToken
  <2>4. CASE SetPassword(h)
    BY <2>4 DEF SetPassword
  <2> QED BY <1>1, <2>1, <2>2, <2>3, <2>4 DEF HandlerStep
<1>2. ASSUME NEW h \in Handlers, Abort(h) PROVE UNCHANGED limiterVars
  BY <1>2 DEF Abort
<1>3. ASSUME NEW h, NEW op, NEW s, NEW k, Arrive(h, op, s, k) PROVE UNCHANGED limiterVars
  BY <1>3 DEF Arrive
<1> QED BY <1>1, <1>2, <1>3 DEF AccountsNext

\* The same of the ATM network.
LEMMA AtmsCount ==
  AtmNext => UNCHANGED limiterVars \/ \E k, t : Consume(k, t)
<1> SUFFICES ASSUME AtmNext PROVE UNCHANGED limiterVars \/ \E k, t : Consume(k, t)
  OBVIOUS
<1>1. ASSUME NEW a, NEW x, CreateAtm(a, x) \/ UpdateAtm(a, x) PROVE UNCHANGED limiterVars
  BY <1>1 DEF CreateAtm, UpdateAtm
<1>2. ASSUME NEW a, DeleteAtm(a) PROVE UNCHANGED limiterVars
  BY <1>2 DEF DeleteAtm
<1>3. ASSUME NEW r, NEW a, NEW status, submitStaffReport(r, a, status)
      PROVE  UNCHANGED limiterVars
  BY <1>3 DEF submitStaffReport
<1>4. ASSUME NEW r, NEW a, NEW status, submitCommunityReport(r, a, status)
      PROVE  \E k, t : Consume(k, t)
  BY <1>4 DEF submitCommunityReport
<1>5. ASSUME NEW r, InsertReport(r) \/ CommitReport(r) \/ AbortReport(r)
      PROVE  UNCHANGED limiterVars
  BY <1>5 DEF InsertReport, CommitReport, AbortReport
<1> QED BY <1>1, <1>2, <1>3, <1>4, <1>5 DEF AtmNext

-----------------------------------------------------------------------------
LEMMA LimiterStep == LimiterInv /\ [Next]_vars => LimiterInv'
<1> SUFFICES ASSUME LimiterInv, [Next]_vars PROVE LimiterInv'
  OBVIOUS
<1>1. CASE UNCHANGED limiterVars
  BY <1>1 DEF limiterVars, LimiterInv, CountersOK, IsTable, CountedWhileOpen, WithinLimit,
              windowEnd, Windows, windowStart, Times
<1>2. CASE Tick
  BY <1>2, TickKeeps
<1>3. ASSUME NEW k, NEW t, Consume(k, t) PROVE LimiterInv'
  BY <1>3, ConsumeKeeps
<1>4. UNCHANGED limiterVars \/ Tick \/ \E k, t : Consume(k, t)
  BY AccountsCount, AtmsCount DEF Next, vars
<1> QED BY <1>1, <1>2, <1>3, <1>4

\* Whatever is asked of the public endpoints, in whatever order and however slowly, no
\* window of a key admits more than its rule (rate-limit.service.ts:4-7).
THEOREM LimitKept == Spec => []WithinLimit
<1>1. Init => LimiterInv
  BY LimiterStarts DEF Init
<1>2. LimiterInv => WithinLimit
  BY DEF LimiterInv
<1> QED BY <1>1, <1>2, LimiterStep, PTL DEF Spec

-----------------------------------------------------------------------------
\* A request with those keys left to count.
Request(checks) ==
  [pc : Points, op : RequestTypes \cup {"none"}, checks : {checks}, at : Times,
   cookie : Sessions \cup {None}, token : ResetTokens \cup {None}, proved : Nat,
   outstanding : SUBSET ResetTokens]

SignsIn(r) == r.pc \in {"trial", "session"}

\* A request under way is for something, and nobody gets as far as signing in before there
\* is a password.
HandlersOK ==
  /\ handler = [h \in Handlers |-> handler[h]]
  /\ \A h \in Handlers : handler[h] \in Request(handler[h].checks)
  /\ \A h \in Handlers : handler[h].pc = "idle" \/ handler[h].op \in RequestTypes
  /\ \A h \in Handlers : SignsIn(handler[h]) => version # 0

SessionRow == [status : {"none", "live", "revoked"}, expires : Nat, proved : Nat,
               overtaken : BOOLEAN]

\* A session that is live has a password to stand for.
SessionsOK ==
  /\ version \in Nat
  /\ session \in [Sessions -> SessionRow]
  /\ \A s \in Sessions : session[s].status = "live" => version # 0
  /\ SessionsProvePassword

TokensOK == token \in [ResetTokens -> [status : {"none", "open", "used"}, expires : Nat]]

RestOK == trial \in BOOLEAN /\ audited \subseteq Nat /\ requests \in 0..MaxRequests

\* SessionsProvePassword is not inductive: the registration that makes the first password
\* must find no session live, and the sign-in after it a password.
SessionInv == now \in Times /\ HandlersOK /\ SessionsOK /\ TokensOK /\ RestOK

LEMMA SessionTypes == SessionInv => AccountsTypeOK
BY DEF SessionInv, HandlersOK, SessionsOK, SessionRow, TokensOK, RestOK, AccountsTypeOK, Request

LEMMA IdleRequest == MaxTime \in Nat => Idle \in Request(<<>>) /\ ~SignsIn(Idle)
BY DEF Idle, Request, Points, Times, None, SignsIn

LEMMA RequestsBound == SessionTTL \in Nat /\ ResetTTL \in Nat /\ MaxRequests \in Nat
<1>1. SessionTTL \in {SessionTTL, ResetTTL, MaxRequests}
  OBVIOUS
<1>2. ResetTTL \in {SessionTTL, ResetTTL, MaxRequests}
  OBVIOUS
<1>3. MaxRequests \in {SessionTTL, ResetTTL, MaxRequests}
  OBVIOUS
<1> QED BY <1>1, <1>2, <1>3, AccountConstants

LEMMA SessionStarts == Init => SessionInv
<1> SUFFICES ASSUME Init PROVE SessionInv
  OBVIOUS
<1> USE DEF Init, LimiterInit, AccountsInit
<1>1. now \in Times
  BY LimiterConstants DEF Times
<1>2. HandlersOK
  BY IdleRequest, LimiterConstants DEF HandlersOK, Idle
<1>3. SessionsOK
  BY DEF SessionsOK, SessionsProvePassword, SessionRow, NoSession
<1>4. TokensOK
  BY DEF TokensOK, NoToken
<1>5. trial = FALSE /\ audited = {} /\ requests = 0
  OBVIOUS
<1>6. RestOK
  <2>1. trial \in BOOLEAN
    BY <1>5
  <2>2. audited \subseteq Nat
    BY <1>5
  <2>3. requests \in 0..MaxRequests
    BY <1>5, RequestsBound
  <2> QED BY <2>1, <2>2, <2>3 DEF RestOK
<1> QED BY <1>1, <1>2, <1>3, <1>4, <1>6 DEF SessionInv

\* One request moves on while the others stay where they are.
LEMMA HandlerMoves ==
  ASSUME HandlersOK, NEW h \in Handlers, NEW checks, NEW r \in Request(checks),
         handler' = [handler EXCEPT ![h] = r], r.pc = "idle" \/ r.op \in RequestTypes,
         SignsIn(r) => version' # 0, version # 0 => version' # 0
  PROVE  HandlersOK'
<1>1. handler' = [j \in Handlers |-> handler'[j]]
  BY DEF HandlersOK
<1>2. r.checks = checks
  BY DEF Request
<1>3. ASSUME NEW j \in Handlers
      PROVE  /\ handler'[j] \in Request(handler'[j].checks)
             /\ handler'[j].pc = "idle" \/ handler'[j].op \in RequestTypes
             /\ SignsIn(handler'[j]) => version' # 0
  <2>1. CASE j = h
    BY <1>2, <2>1 DEF HandlersOK
  <2>2. CASE j # h
    BY <2>2 DEF HandlersOK
  <2> QED BY <2>1, <2>2
<1> QED BY <1>1, <1>3 DEF HandlersOK, SignsIn

\* A request that ends, commonly with everything else as it was.
LEMMA HandlerEnds ==
  ASSUME HandlersOK, NEW h \in Handlers, Finish(h), version # 0 => version' # 0
  PROVE  HandlersOK'
<1>1. Idle \in Request(<<>>) /\ ~SignsIn(Idle) /\ Idle.pc = "idle"
  BY IdleRequest, LimiterConstants DEF Idle
<1> QED BY <1>1, HandlerMoves DEF Finish

\* A request that only goes on to its next statement.
LEMMA HandlerGoes ==
  ASSUME HandlersOK, NEW h \in Handlers, ~At(h, "idle"),
         NEW point \in Points, Goto(h, point),
         point \in {"trial", "session"} => version' # 0, version # 0 => version' # 0
  PROVE  HandlersOK'
<1> DEFINE r == [handler[h] EXCEPT !.pc = point]
<1>1. handler[h] \in Request(handler[h].checks)
  BY DEF HandlersOK
<1>2. r \in Request(handler[h].checks) /\ r.pc = point /\ r.op \in RequestTypes
  BY <1>1 DEF Request, HandlersOK, At
<1>3. handler' = [handler EXCEPT ![h] = r]
  BY DEF Goto
<1>4. SignsIn(r) => version' # 0
  BY <1>2 DEF SignsIn
<1> HIDE DEF r
<1> QED BY <1>2, <1>3, <1>4, HandlerMoves

-----------------------------------------------------------------------------
\* What is no request's does not change, or keeps its type.
LEMMA OthersKeep ==
  ASSUME SessionInv, now' \in Times, HandlersOK', UNCHANGED accountVars, requests' \in 0..MaxRequests
  PROVE  SessionInv'
BY DEF SessionInv, SessionsOK, SessionsProvePassword, TokensOK, RestOK, accountVars

LEMMA CountKeepsSessions ==
  ASSUME SessionInv, NEW h \in Handlers, Count(h) PROVE SessionInv'
<1> DEFINE q == handler[h]
           k == Head(q.checks)
           rest == Tail(q.checks)
           p == IF rest = <<>> THEN FirstStep(q.op) ELSE q.pc
           r == [q EXCEPT !.checks = rest, !.at = now, !.pc = p]
<1>1. now' = now /\ UNCHANGED accountVars /\ UNCHANGED requests
  BY DEF Count, Consume
<1>2. q \in Request(q.checks) /\ q.pc = "count" /\ q.op \in RequestTypes
  BY DEF SessionInv, HandlersOK, Count, At
<1>3. p \in Points /\ p \notin {"trial", "session"}
  BY <1>2 DEF FirstStep, RequestTypes, Points
<1>4. version' = version
  BY <1>1 DEF accountVars
<1>5. HandlersOK'
  <2>1. CASE handler' = [handler EXCEPT ![h] = Idle]
    BY <2>1, <1>4, HandlerEnds DEF SessionInv, Finish
  <2>2. CASE handler' = [handler EXCEPT ![h] = r]
    <3>1. r \in Request(rest) /\ r.pc = p /\ r.op \in RequestTypes
      <4> HIDE DEF p, rest
      <4> QED BY <1>2, <1>3 DEF Request, SessionInv
    <3>2. ~SignsIn(r)
      BY <1>3, <3>1 DEF SignsIn
    <3> HIDE DEF r
    <3> QED BY <2>2, <3>1, <3>2, <1>4, HandlerMoves DEF SessionInv
  <2> QED BY <2>1, <2>2 DEF Count
<1> QED BY <1>1, <1>5, OthersKeep DEF SessionInv, RestOK

\* The account is made only where there is none, and so no session.
LEMMA CreateUserKeepsSessions ==
  ASSUME SessionInv, NEW h \in Handlers, CreateUser(h) PROVE SessionInv'
<1> DEFINE r == [handler[h] EXCEPT !.pc = "trial", !.proved = 1]
<1>1. now' = now /\ UNCHANGED <<session, token, trial, audited, requests>>
  BY DEF CreateUser, limiterVars
<1>2. version' \in Nat /\ (version # 0 => version' = version)
  BY DEF CreateUser, SessionInv, SessionsOK
<1>3. HandlersOK'
  <2>1. CASE version = 0
    <3>1. r \in Request(handler[h].checks) /\ r.op \in RequestTypes
      BY DEF SessionInv, HandlersOK, Request, Points, CreateUser, At
    <3>2. handler = [j \in Handlers |-> handler[j]]
      BY DEF SessionInv, HandlersOK
    <3>3. handler' = [handler EXCEPT ![h].pc = "trial", ![h].proved = 1] /\ version' # 0
      BY <2>1 DEF CreateUser
    <3>4. handler' = [handler EXCEPT ![h] = r]
      BY <3>2, <3>3
    <3> HIDE DEF r
    <3> QED BY <2>1, <3>1, <3>3, <3>4, HandlerMoves DEF SessionInv
  <2>2. CASE version # 0
    BY <2>2, <1>2, HandlerEnds DEF SessionInv, CreateUser
  <2> QED BY <2>1, <2>2
<1>4. SessionsOK'
  BY <1>1, <1>2 DEF SessionInv, SessionsOK, SessionsProvePassword
<1> QED BY <1>1, <1>3, <1>4 DEF SessionInv, TokensOK, RestOK

LEMMA AttachTrialKeepsSessions ==
  ASSUME SessionInv, NEW h \in Handlers, AttachTrial(h) PROVE SessionInv'
<1>1. now' = now /\ UNCHANGED <<version, session, token, audited, requests>> /\ trial' \in BOOLEAN
  BY DEF AttachTrial, limiterVars, SessionInv, RestOK
<1>2. version # 0
  BY DEF SessionInv, HandlersOK, SignsIn, AttachTrial, At
<1>3. HandlersOK'
  BY <1>1, <1>2, HandlerGoes DEF SessionInv, AttachTrial, At, Points
<1> QED BY <1>1, <1>3 DEF SessionInv, SessionsOK, SessionsProvePassword, TokensOK, RestOK

\* A session is made for the password that was given, or marked as overtaken.
LEMMA CreateSessionKeepsSessions ==
  ASSUME SessionInv, NEW h \in Handlers, CreateSession(h) PROVE SessionInv'
<1>1. now' = now /\ UNCHANGED <<version, trial, token, audited, requests>>
  BY DEF CreateSession, limiterVars
<1>2. version # 0 /\ handler[h].proved \in Nat
  BY DEF SessionInv, HandlersOK, Request, SignsIn, CreateSession, At
<1>3. HandlersOK'
  BY <1>1, HandlerEnds DEF SessionInv, CreateSession
<1>4. PICK s \in Sessions :
        session' = [session EXCEPT ![s] =
          [status |-> "live", expires |-> SessionExpiry, proved |-> handler[h].proved,
           overtaken |-> handler[h].proved # version]]
  BY DEF CreateSession
<1> DEFINE row == [status |-> "live", expires |-> SessionExpiry, proved |-> handler[h].proved,
                   overtaken |-> handler[h].proved # version]
<1>5. SessionExpiry \in Nat
  BY RequestsBound, LimiterConstants DEF SessionExpiry, SessionInv, Times
<1>6. (handler[h].proved # version) \in BOOLEAN
  OBVIOUS
<1>7. row \in SessionRow
  BY <1>2, <1>5, <1>6 DEF SessionRow
<1>8. ~row.overtaken => row.proved = version
  OBVIOUS
<1> HIDE DEF row
<1>9. session' = [session EXCEPT ![s] = row]
  BY <1>4 DEF row
<1>10. SessionsOK'
  BY <1>1, <1>2, <1>7, <1>8, <1>9 DEF SessionInv, SessionsOK, SessionsProvePassword
<1> QED BY <1>1, <1>3, <1>10 DEF SessionInv, TokensOK, RestOK

LEMMA VerifyPasswordKeepsSessions ==
  ASSUME SessionInv, NEW h \in Handlers, VerifyPassword(h) PROVE SessionInv'
<1> DEFINE p == IF handler[h].op = "login" THEN "session" ELSE "write"
           r == [handler[h] EXCEPT !.proved = version, !.pc = p]
<1>1. now' = now /\ UNCHANGED accountVars /\ requests' = requests
  BY DEF VerifyPassword, limiterVars
<1>2. version' = version
  BY <1>1 DEF accountVars
<1>3. HandlersOK'
  <2>1. CASE Finish(h)
    BY <2>1, <1>2, HandlerEnds DEF SessionInv
  <2>2. CASE version # 0 /\ handler' = [handler EXCEPT ![h] = r]
    <3>1. p \in Points
      BY DEF Points
    <3>2. r \in Request(handler[h].checks) /\ r.op \in RequestTypes
      <4> HIDE DEF p
      <4> QED BY <3>1 DEF SessionInv, SessionsOK, HandlersOK, Request, VerifyPassword, At
    <3> HIDE DEF r
    <3> QED BY <2>2, <1>2, <3>2, HandlerMoves DEF SessionInv
  <2> QED BY <2>1, <2>2 DEF VerifyPassword
<1> QED BY <1>1, <1>3, OthersKeep DEF SessionInv, RestOK

LEMMA RevokeSessionKeepsSessions ==
  ASSUME SessionInv, NEW h \in Handlers, RevokeSession(h) PROVE SessionInv'
<1>1. now' = now /\ UNCHANGED <<version, trial, token, audited, requests>>
  BY DEF RevokeSession, limiterVars
<1>2. HandlersOK'
  BY <1>1, HandlerEnds DEF SessionInv, RevokeSession
<1>3. SessionsOK'
  <2>1. session \in [Sessions -> SessionRow]
    BY DEF SessionInv, SessionsOK
  <2>2. session' = [session EXCEPT ![handler[h].cookie].status = "revoked"]
    BY DEF RevokeSession
  <2>3. session' \in [Sessions -> SessionRow]
    BY <2>1, <2>2 DEF SessionRow
  <2>4. \A s \in Sessions : session'[s].status = "live" => session'[s] = session[s]
    BY <2>1, <2>2 DEF SessionRow
  <2> QED BY <1>1, <2>3, <2>4 DEF SessionInv, SessionsOK, SessionsProvePassword
<1> QED BY <1>1, <1>2, <1>3 DEF SessionInv, TokensOK, RestOK

LEMMA RecoveryKeepsSessions ==
  ASSUME SessionInv, NEW h \in Handlers, FindOutstanding(h) \/ CheckToken(h) \/ Abort(h)
  PROVE  SessionInv'
<1>1. now' = now /\ UNCHANGED accountVars /\ requests' = requests
  BY DEF FindOutstanding, CheckToken, Abort, limiterVars
<1>2. version' = version
  BY <1>1 DEF accountVars
<1>3. HandlersOK'
  <2>1. CASE Finish(h)
    BY <2>1, <1>2, HandlerEnds DEF SessionInv
  <2>2. CASE CheckToken(h) /\ Goto(h, "write")
    BY <2>2, <1>2, HandlerGoes DEF SessionInv, CheckToken, At, Points
  <2>3. CASE FindOutstanding(h) /\ ~Finish(h)
    <3> DEFINE open == {k \in ResetTokens : token[k].status = "open"}
               r == [handler[h] EXCEPT !.pc = "issue", !.outstanding = open]
    <3>1. r \in Request(handler[h].checks) /\ r.op \in RequestTypes /\ r.pc = "issue"
      <4>1. open \in SUBSET ResetTokens
        OBVIOUS
      <4> HIDE DEF open
      <4> QED BY <2>3, <4>1 DEF SessionInv, HandlersOK, Request, FindOutstanding, At, Points
    <3>2. handler' = [handler EXCEPT ![h] = r]
      BY <2>3 DEF FindOutstanding, Finish
    <3> HIDE DEF r
    <3> QED BY <1>2, <3>1, <3>2, HandlerMoves DEF SessionInv, SignsIn
  <2> QED BY <2>1, <2>2, <2>3 DEF FindOutstanding, CheckToken, Abort
<1> QED BY <1>1, <1>3, OthersKeep DEF SessionInv, RestOK

LEMMA IssueTokenKeepsSessions ==
  ASSUME SessionInv, NEW h \in Handlers, IssueToken(h) PROVE SessionInv'
<1>1. now' = now /\ UNCHANGED <<version, trial, session, audited, requests>>
  BY DEF IssueToken, limiterVars
<1>2. HandlersOK'
  BY <1>1, HandlerEnds DEF SessionInv, IssueToken
<1>3. PICK k \in ResetTokens :
        token' = [j \in ResetTokens |->
            CASE j = k -> [status |-> "open", expires |-> now + ResetTTL]
              [] j \in handler[h].outstanding -> [token[j] EXCEPT !.status = "used"]
              [] OTHER -> token[j]]
  BY DEF IssueToken
<1>4. now + ResetTTL \in Nat
  BY RequestsBound, LimiterConstants DEF SessionInv, Times
<1>5. TokensOK'
  BY <1>3, <1>4 DEF SessionInv, TokensOK
<1> QED BY <1>1, <1>2, <1>5 DEF SessionInv, SessionsOK, SessionsProvePassword, RestOK

\* Every session that is still live after a change of the password stands for the new one.
LEMMA SetPasswordKeepsSessions ==
  ASSUME SessionInv, NEW h \in Handlers, SetPassword(h) PROVE SessionInv'
<1>1. now' = now /\ UNCHANGED <<trial, requests>> /\ version' = version + 1
  BY DEF SetPassword, limiterVars
<1>2. version \in Nat /\ version' \in Nat /\ version' # 0
  BY <1>1 DEF SessionInv, SessionsOK
<1>3. HandlersOK'
  BY <1>2, HandlerEnds DEF SessionInv, SetPassword
<1>4. ASSUME NEW s \in Sessions, NEW spared
      PROVE  /\ LiveAfter(s, spared) \in SessionRow
             /\ LiveAfter(s, spared).status = "live" => LiveAfter(s, spared).proved = version + 1
  <2>1. session[s] \in SessionRow
    BY DEF SessionInv, SessionsOK
  <2> QED BY <1>2, <2>1, <1>1 DEF LiveAfter, SessionRow
<1>5. session' = [s \in Sessions |-> LiveAfter(s, handler[h].cookie)]
  BY DEF SetPassword
<1>6. SessionsOK'
  BY <1>1, <1>2, <1>4, <1>5 DEF SessionsOK, SessionsProvePassword
<1>7. TokensOK'
  BY DEF SessionInv, TokensOK, TokenAfter, SetPassword
<1>8. RestOK'
  BY <1>1, <1>2 DEF SessionInv, RestOK, SetPassword
<1> QED BY <1>1, <1>3, <1>6, <1>7, <1>8 DEF SessionInv

LEMMA ArriveKeepsSessions ==
  ASSUME SessionInv, NEW h \in Handlers, NEW op \in Operations,
         NEW s \in Cookies(op), NEW k \in TokensOf(op), Arrive(h, op, s, k)
  PROVE  SessionInv'
<1> DEFINE p == IF ChecksOf(op) = <<>> THEN FirstStep(op) ELSE "count"
           r == [Idle EXCEPT !.op = op, !.cookie = s, !.token = k, !.checks = ChecksOf(op),
                             !.at = now, !.pc = p]
<1>1. now' = now /\ UNCHANGED accountVars /\ requests' = requests + 1 /\ requests < MaxRequests
  BY DEF Arrive, limiterVars
<1>2. op \in RequestTypes
  BY AccountConstants
<1>3. p \in Points /\ p \notin {"trial", "session"}
  BY <1>2 DEF FirstStep, RequestTypes, Points
<1>4. s \in Sessions \cup {None} /\ k \in ResetTokens \cup {None}
  BY DEF Cookies, TokensOf
<1>5. r \in Request(ChecksOf(op)) /\ r.pc = p /\ r.op = op
  <2> HIDE DEF p
  <2> QED BY <1>2, <1>3, <1>4 DEF Request, Idle, SessionInv
<1>6. handler' = [handler EXCEPT ![h] = r] /\ version' = version
  BY <1>1 DEF Arrive, accountVars
<1>7. HandlersOK'
  <2> HIDE DEF r, p
  <2> QED BY <1>2, <1>3, <1>5, <1>6, HandlerMoves DEF SessionInv, SignsIn
<1>8. requests' \in 0..MaxRequests
  BY <1>1, RequestsBound DEF SessionInv, RestOK
<1> QED BY <1>1, <1>7, <1>8, OthersKeep DEF SessionInv

LEMMA SessionStep == SessionInv /\ [Next]_vars => SessionInv'
<1> SUFFICES ASSUME SessionInv, [Next]_vars PROVE SessionInv'
  OBVIOUS
<1>1. CASE UNCHANGED <<accountVars, requestVars>>
  <2>1. now' \in Times
    <3>1. CASE now' = now
      BY <3>1 DEF SessionInv
    <3>2. CASE Tick
      BY <3>2, LimiterConstants DEF Tick, Times, SessionInv
    <3> QED BY <3>1, <3>2, AtmsCount, AccountsCount DEF Next, vars, limiterVars, Consume
  <2>2. HandlersOK' /\ requests' = requests
    BY <1>1 DEF SessionInv, HandlersOK, SignsIn, requestVars, accountVars
  <2> QED BY <1>1, <2>1, <2>2, OthersKeep DEF SessionInv, RestOK
<1>2. CASE AccountsNext
  <2>1. ASSUME NEW h \in Handlers, HandlerStep(h) PROVE SessionInv'
    BY <2>1, CountKeepsSessions, CreateUserKeepsSessions, AttachTrialKeepsSessions,
       CreateSessionKeepsSessions, VerifyPasswordKeepsSessions, RevokeSessionKeepsSessions,
       RecoveryKeepsSessions, IssueTokenKeepsSessions, SetPasswordKeepsSessions
       DEF HandlerStep
  <2>2. ASSUME NEW h \in Handlers, Abort(h) PROVE SessionInv'
    BY <2>2, RecoveryKeepsSessions
  <2> QED BY <1>2, <2>1, <2>2, ArriveKeepsSessions DEF AccountsNext
<1> QED BY <1>1, <1>2 DEF Next, vars

-----------------------------------------------------------------------------
\* However registrations, sign-ins, sign-outs, recoveries and changes of the password
\* overlap, a session that is live stands for the password the account has now, unless a
\* change overtook the sign-in that made it (auth.service.ts:225, 258-266).
THEOREM SessionsStand == Spec => []SessionsProvePassword
<1>1. SessionInv => SessionsProvePassword
  BY DEF SessionInv, SessionsOK
<1> QED BY <1>1, SessionStarts, SessionStep, PTL DEF Spec

-----------------------------------------------------------------------------
\* A report under way knows its machine, and one that has inserted its row keeps the machine
\* from being deleted.
ReportsOK ==
  /\ report \in [Reporters -> [pc : {"idle", "found", "inserted"}, atm : Atms \cup {"none"},
                              status : AtmStatuses, at : Times]]
  /\ \A r \in Reporters :
       /\ report[r].at <= now
       /\ report[r].pc # "idle" => report[r].atm \in Atms
       /\ report[r].pc = "inserted" => atm[report[r].atm].there

Machine == [there : BOOLEAN, active : BOOLEAN, status : AtmStatuses, lastReportedAt : Times]

\* Somebody has said of the machine what its row says, not before the row says they did: a
\* report looks at the clock before it commits.
SaidSince(a, row, words, moment) ==
  row.there => \E t \in row.lastReportedAt..moment : <<a, row.status, t>> \in words

\* ShownWasSaid is not inductive: a status must have been said even once it has gone stale,
\* for an edit can change the row without a word.
AtmInv ==
  /\ now \in Times
  /\ atm \in [Atms -> Machine]
  /\ said \subseteq Atms \X AtmStatuses \X Times
  /\ reported \in 0..MaxReports
  /\ \A a \in Atms : SaidSince(a, atm[a], said, now)
  /\ ReportsOK

LEMMA AtmStarts == Init => AtmInv
<1> SUFFICES ASSUME Init PROVE AtmInv
  OBVIOUS
<1> USE DEF Init, LimiterInit, AtmInit
<1>1. now \in Times /\ now = 0
  BY LimiterConstants DEF Times
<1>2. atm \in [Atms -> Machine] /\ \A a \in Atms : ~atm[a].there
  BY <1>1, AtmConstants DEF NoAtm, Machine
<1>3. ReportsOK
  BY <1>1, AtmConstants DEF ReportsOK, NoReport
<1>4. said = {} /\ reported \in 0..MaxReports
  BY AtmConstants
<1> QED BY <1>1, <1>2, <1>3, <1>4 DEF AtmInv, SaidSince

\* One machine's row is replaced by one that has been spoken of, and what was said before
\* stays said.
LEMMA RowReplaced ==
  ASSUME AtmInv, NEW a \in Atms, NEW row \in Machine, atm' = [atm EXCEPT ![a] = row],
         now' = now, said \subseteq said', said' \subseteq Atms \X AtmStatuses \X Times,
         SaidSince(a, row, said', now), reported' \in 0..MaxReports, ReportsOK'
  PROVE  AtmInv'
<1>1. atm' \in [Atms -> Machine]
  BY DEF AtmInv
<1>2. ASSUME NEW b \in Atms PROVE SaidSince(b, atm'[b], said', now')
  <2>1. CASE b = a
    BY <2>1, <1>1 DEF AtmInv
  <2>2. CASE b # a
    BY <2>2 DEF AtmInv, SaidSince
  <2> QED BY <2>1, <2>2
<1> QED BY <1>1, <1>2 DEF AtmInv

\* The reports under way do not mind a row that stays, or one none of them holds.
LEMMA ReportsStay ==
  ASSUME AtmInv, report' = report, now' = now,
         NEW a \in Atms, NEW row, atm' = [atm EXCEPT ![a] = row],
         \/ row.there
         \/ \A r \in Reporters : ~(report[r].pc = "inserted" /\ report[r].atm = a)
  PROVE  ReportsOK'
BY DEF AtmInv, ReportsOK

LEMMA AtmRequestCounts ==
  ASSUME AtmInv, AtmRequest PROVE reported' \in 0..MaxReports
BY AtmConstants DEF AtmInv, AtmRequest

LEMMA CreateAtmKeeps ==
  ASSUME AtmInv, NEW a \in Atms, NEW status \in AtmStatuses, CreateAtm(a, status)
  PROVE  AtmInv'
<1> DEFINE row == [there |-> TRUE, active |-> TRUE, status |-> status, lastReportedAt |-> now]
<1>1. now' = now /\ report' = report /\ now \in Times /\ now \in Int
  BY LimiterConstants DEF CreateAtm, limiterVars, AtmInv, Times
<1>2. row \in Machine /\ row.there /\ row.status = status /\ row.lastReportedAt = now
  BY <1>1 DEF Machine
<1>3. said' = said \cup {<<a, status, now>>} /\ atm' = [atm EXCEPT ![a] = row]
  BY DEF CreateAtm, OperatorSays
<1>4. said' \subseteq Atms \X AtmStatuses \X Times
  BY <1>1, <1>3 DEF AtmInv
<1> HIDE DEF row
<1>5. SaidSince(a, row, said', now)
  BY <1>1, <1>2, <1>3 DEF SaidSince
<1>6. ReportsOK' /\ reported' \in 0..MaxReports
  BY <1>1, <1>2, <1>3, ReportsStay, AtmRequestCounts DEF CreateAtm
<1> QED BY <1>1, <1>2, <1>3, <1>4, <1>5, <1>6, RowReplaced

LEMMA UpdateAtmKeeps ==
  ASSUME AtmInv, NEW a \in Atms, NEW active \in BOOLEAN, UpdateAtm(a, active)
  PROVE  AtmInv'
<1> DEFINE edited == Edited(atm[a], active)
<1>1. now' = now /\ report' = report /\ now \in Times /\ now \in Int
  <2>1. now' = now /\ report' = report
    BY DEF UpdateAtm, limiterVars
  <2>2. now \in Times /\ now \in Int
    BY LimiterConstants DEF AtmInv, Times
  <2> QED BY <2>1, <2>2
<1>0. atm[a].there
  BY DEF UpdateAtm
<1>2. /\ edited \in Machine /\ edited.there /\ edited.status = atm[a].status
      /\ edited.lastReportedAt = atm[a].lastReportedAt
  BY <1>0, <1>1 DEF AtmInv, Machine, Edited
<1>3. reported' \in 0..MaxReports
  BY AtmRequestCounts DEF UpdateAtm
<1>4. CASE atm' = [atm EXCEPT ![a] = edited] /\ said' = said
  <2>1. SaidSince(a, edited, said', now)
    <3>1. SaidSince(a, atm[a], said, now)
      BY DEF AtmInv
    <3> HIDE DEF edited
    <3> QED BY <1>0, <1>2, <1>4, <3>1 DEF SaidSince
  <2>2. ReportsOK'
    BY <1>1, <1>2, <1>4, ReportsStay
  <2>3. said' \subseteq Atms \X AtmStatuses \X Times
    BY <1>4 DEF AtmInv
  <2> HIDE DEF edited
  <2> QED BY <1>1, <1>2, <1>3, <1>4, <2>1, <2>2, <2>3, RowReplaced
<1>5. ASSUME NEW status \in AtmStatuses,
             atm' = [atm EXCEPT ![a] = [edited EXCEPT !.status = status, !.lastReportedAt = now]],
             said' = said \cup {<<a, status, now>>}
      PROVE  AtmInv'
  <2> DEFINE row == [edited EXCEPT !.status = status, !.lastReportedAt = now]
  <2>1. row \in Machine /\ row.there /\ row.status = status /\ row.lastReportedAt = now
    BY <1>1, <1>2 DEF Machine
  <2>2. atm' = [atm EXCEPT ![a] = row]
    BY <1>5
  <2>3. said' \subseteq Atms \X AtmStatuses \X Times
    BY <1>1, <1>5 DEF AtmInv
  <2> HIDE DEF row, edited
  <2>4. SaidSince(a, row, said', now)
    BY <1>1, <1>5, <2>1 DEF SaidSince
  <2>5. ReportsOK'
    BY <1>1, <2>1, <2>2, ReportsStay
  <2> QED BY <1>1, <1>3, <1>5, <2>1, <2>2, <2>3, <2>4, <2>5, RowReplaced
<1>6. \/ atm' = [atm EXCEPT ![a] = Edited(@, active)] /\ said' = said
      \/ \E status \in AtmStatuses :
          /\ atm' = [atm EXCEPT ![a] = [Edited(@, active) EXCEPT !.status = status,
                                                                 !.lastReportedAt = now]]
          /\ said' = said \cup {<<a, status, now>>}
  BY DEF UpdateAtm, OperatorSays
<1>7. atm = [b \in Atms |-> atm[b]]
  BY DEF AtmInv
<1> QED BY <1>4, <1>5, <1>6, <1>7

LEMMA DeleteAtmKeeps ==
  ASSUME AtmInv, NEW a \in Atms, DeleteAtm(a) PROVE AtmInv'
<1>1. now' = now /\ report' = report /\ said' = said /\ atm' = [atm EXCEPT ![a] = NoAtm]
  BY DEF DeleteAtm, limiterVars
<1>2. NoAtm \in Machine /\ ~NoAtm.there
  BY LimiterConstants, AtmConstants DEF NoAtm, Machine, Times
<1>3. SaidSince(a, NoAtm, said', now)
  BY <1>2 DEF SaidSince
<1>4. ReportsOK' /\ reported' \in 0..MaxReports
  BY <1>1, ReportsStay, AtmRequestCounts DEF DeleteAtm
<1>5. said' \subseteq Atms \X AtmStatuses \X Times
  BY <1>1 DEF AtmInv
<1> QED BY <1>1, <1>2, <1>3, <1>4, <1>5, RowReplaced

\* One report moves on.
LEMMA ReportMoves ==
  ASSUME AtmInv, now' = now, atm' = atm, said' = said, reported' \in 0..MaxReports,
         NEW r \in Reporters,
         \/ report' = [report EXCEPT ![r] = NoReport]
         \/ \E a \in Atms, status \in AtmStatuses, t \in Times, pc \in {"found", "inserted"} :
              /\ t <= now /\ (pc = "inserted" => atm[a].there)
              /\ report' = [report EXCEPT ![r] =
                              [pc |-> pc, atm |-> a, status |-> status, at |-> t]]
  PROVE  AtmInv'
<1>1. ReportsOK'
  <2>1. CASE report' = [report EXCEPT ![r] = NoReport]
    <3>1. /\ NoReport \in [pc : {"idle", "found", "inserted"}, atm : Atms \cup {"none"},
                            status : AtmStatuses, at : Times]
          /\ NoReport.pc = "idle" /\ NoReport.at <= now
      BY AtmConstants, LimiterConstants DEF NoReport, AtmInv, Times
    <3> QED BY <2>1, <3>1 DEF AtmInv, ReportsOK
  <2>2. ASSUME NEW a \in Atms, NEW status \in AtmStatuses, NEW t \in Times,
               NEW pc \in {"found", "inserted"}, t <= now, pc = "inserted" => atm[a].there,
               report' = [report EXCEPT ![r] =
                            [pc |-> pc, atm |-> a, status |-> status, at |-> t]]
        PROVE  ReportsOK'
    BY <2>2 DEF AtmInv, ReportsOK
  <2> QED BY <2>1, <2>2
<1> QED BY <1>1 DEF AtmInv

LEMMA StartReportKeeps ==
  ASSUME AtmInv, now' = now, NEW r \in Reporters, NEW a \in Atms, NEW status \in AtmStatuses,
         StartReport(r, a, status)
  PROVE  AtmInv'
<1>1. atm' = atm /\ said' = said /\ reported' \in 0..MaxReports
  BY AtmRequestCounts DEF StartReport
<1>2. report' = [report EXCEPT ![r] = [pc |-> "found", atm |-> a, status |-> status, at |-> now]]
  <2> DEFINE started == [NoReport EXCEPT !.pc = "found", !.atm = a, !.status = status, !.at = now]
  <2>1. started \in [pc : {"found"}, atm : {a}, status : {status}, at : {now}]
    BY DEF NoReport
  <2>2. report' = [report EXCEPT ![r] = started]
    BY DEF StartReport
  <2> HIDE DEF started
  <2>3. started = [pc |-> "found", atm |-> a, status |-> status, at |-> now]
    BY <2>1
  <2> QED BY <2>2, <2>3
<1>3. now \in Times /\ now <= now
  BY LimiterConstants DEF AtmInv, Times
<1> QED BY <1>1, <1>2, <1>3, ReportMoves

LEMMA InsertReportKeeps ==
  ASSUME AtmInv, NEW r \in Reporters, InsertReport(r) PROVE AtmInv'
<1> DEFINE a == report[r].atm
<1>1. now' = now /\ atm' = atm /\ said' = said /\ reported' = reported
  BY DEF InsertReport, limiterVars
<1>2. /\ a \in Atms /\ report[r].status \in AtmStatuses
      /\ report[r].at \in Times /\ report[r].at <= now
  BY DEF AtmInv, ReportsOK, InsertReport
<1>3. CASE atm[a].there
  <2>1. report' = [report EXCEPT ![r] = [pc |-> "inserted", atm |-> a,
                                         status |-> report[r].status, at |-> report[r].at]]
    BY <1>3 DEF InsertReport, AtmInv, ReportsOK
  <2> QED BY <1>1, <1>2, <1>3, <2>1, ReportMoves DEF AtmInv
<1>4. CASE ~atm[a].there
  <2>1. report' = [report EXCEPT ![r] = NoReport]
    BY <1>4 DEF InsertReport
  <2> QED BY <1>1, <2>1, ReportMoves DEF AtmInv
<1> QED BY <1>3, <1>4

LEMMA AbortReportKeeps ==
  ASSUME AtmInv, NEW r \in Reporters, AbortReport(r) PROVE AtmInv'
<1>1. now' = now /\ atm' = atm /\ said' = said /\ reported' = reported
  BY DEF AbortReport, limiterVars
<1> QED BY <1>1, ReportMoves DEF AbortReport, AtmInv

\* The machine is there, for the row of the report holds it; the word is not older than what
\* the row says, for the report looked at the clock first.
LEMMA CommitReportKeeps ==
  ASSUME AtmInv, NEW r \in Reporters, CommitReport(r) PROVE AtmInv'
<1> DEFINE a == report[r].atm
           row == [atm[a] EXCEPT !.status = report[r].status, !.lastReportedAt = report[r].at]
<1>1. now' = now /\ reported' = reported /\ report' = [report EXCEPT ![r] = NoReport]
  BY DEF CommitReport, limiterVars
<1>2. /\ a \in Atms /\ report[r].status \in AtmStatuses
      /\ report[r].at \in Times /\ report[r].at <= now /\ report[r].at \in Int /\ now \in Int
  BY LimiterConstants DEF AtmInv, ReportsOK, CommitReport, Times
<1>3. atm[a].there
  BY DEF AtmInv, ReportsOK, CommitReport
<1>4. /\ row \in Machine /\ row.there /\ row.status = report[r].status
      /\ row.lastReportedAt = report[r].at
  BY <1>2, <1>3 DEF AtmInv, Machine
<1>5. atm' = [atm EXCEPT ![a] = row]
  <2>1. atm' = [atm EXCEPT ![a].status = report[r].status, ![a].lastReportedAt = report[r].at]
    BY DEF CommitReport
  <2>2. atm = [b \in Atms |-> atm[b]]
    BY DEF AtmInv
  <2> QED BY <1>2, <2>1, <2>2
<1>6. said' = said \cup {<<a, report[r].status, now>>}
  BY DEF CommitReport
<1>7. said' \subseteq Atms \X AtmStatuses \X Times
  BY <1>2, <1>6 DEF AtmInv
<1> HIDE DEF row
<1>8. SaidSince(a, row, said', now)
  BY <1>2, <1>4, <1>6 DEF SaidSince
<1>9. ReportsOK'
  <2>1. /\ NoReport \in [pc : {"idle", "found", "inserted"}, atm : Atms \cup {"none"},
                          status : AtmStatuses, at : Times]
        /\ NoReport.pc = "idle" /\ NoReport.at <= now
    BY AtmConstants, LimiterConstants DEF NoReport, AtmInv, Times
  <2>2. \A b \in Atms : atm[b].there => atm'[b].there
    BY <1>2, <1>4, <1>5 DEF AtmInv
  <2> QED BY <1>1, <2>1, <2>2 DEF AtmInv, ReportsOK
<1> QED BY <1>1, <1>2, <1>4, <1>5, <1>6, <1>7, <1>8, <1>9, RowReplaced DEF AtmInv

\* Time passes, or an account's request is served.
LEMMA AtmsRest ==
  ASSUME AtmInv, UNCHANGED atmVars, now' \in Times, now <= now' PROVE AtmInv'
<1>1. now \in Int /\ now' \in Int /\ \A t \in Times : t \in Int
  BY LimiterConstants DEF AtmInv, Times
<1>2. ReportsOK'
  <2>1. \A r \in Reporters : report[r].at \in Times /\ report[r].at <= now
    BY DEF AtmInv, ReportsOK
  <2>2. ASSUME NEW r \in Reporters PROVE report[r].at <= now'
    <3>1. report[r].at \in Int /\ report[r].at <= now
      BY <1>1, <2>1
    <3> QED BY <1>1, <3>1
  <2> QED BY <2>2 DEF AtmInv, ReportsOK, atmVars
<1>3. ASSUME NEW a \in Atms PROVE SaidSince(a, atm'[a], said', now')
  BY <1>1 DEF AtmInv, SaidSince, atmVars, Machine
<1> QED BY <1>2, <1>3 DEF AtmInv, atmVars

LEMMA AtmStep == AtmInv /\ [Next]_vars => AtmInv'
<1> SUFFICES ASSUME AtmInv, [Next]_vars PROVE AtmInv'
  OBVIOUS
<1>1. CASE UNCHANGED atmVars
  <2>1. now' \in Times /\ now <= now'
    <3>1. CASE now' = now
      BY <3>1, LimiterConstants DEF AtmInv, Times
    <3>2. CASE Tick
      BY <3>2, LimiterConstants DEF Tick, Times, AtmInv
    <3> QED BY <3>1, <3>2, AtmsCount, AccountsCount DEF Next, vars, limiterVars, Consume
  <2> QED BY <1>1, <2>1, AtmsRest
<1>2. CASE AtmNext
  <2>1. ASSUME NEW r \in Reporters, NEW a \in Atms, NEW status \in AtmStatuses,
               submitStaffReport(r, a, status)
        PROVE  AtmInv'
    BY <2>1, StartReportKeeps DEF submitStaffReport, limiterVars
  <2>2. ASSUME NEW r \in Reporters, NEW a \in Atms, NEW status \in AtmStatuses,
               submitCommunityReport(r, a, status)
        PROVE  AtmInv'
    <3>1. CASE StartReport(r, a, status)
      BY <2>2, <3>1, StartReportKeeps DEF submitCommunityReport, Consume
    <3>2. CASE AtmRequest /\ UNCHANGED <<atm, said, report>>
      <4>1. now' = now /\ reported' \in 0..MaxReports
        BY <2>2, <3>2, AtmRequestCounts DEF submitCommunityReport, Consume
      <4> QED BY <3>2, <4>1 DEF AtmInv, ReportsOK
    <3> QED BY <2>2, <3>1, <3>2 DEF submitCommunityReport
  <2> QED BY <1>2, <2>1, <2>2, CreateAtmKeeps, UpdateAtmKeeps, DeleteAtmKeeps,
             InsertReportKeeps, CommitReportKeeps, AbortReportKeeps DEF AtmNext
<1> QED BY <1>1, <1>2 DEF Next, vars

\* However reports, edits, deletions and the clock interleave, a machine is shown with cash,
\* or without, only if somebody said so not longer ago than a report is fresh
\* (atm.service.ts:9-11, 50-51).
THEOREM ShownOnlyAsSaid == Spec => []ShownWasSaid
<1>1. AtmInv => ShownWasSaid
  <2> SUFFICES ASSUME AtmInv, NEW a \in Atms, atm[a].there, effectiveStatus(a) # "UNKNOWN"
               PROVE  \E t \in (now - Freshness)..now : <<a, effectiveStatus(a), t>> \in said
    BY DEF ShownWasSaid
  <2>1. /\ now - atm[a].lastReportedAt <= Freshness
        /\ effectiveStatus(a) = atm[a].status
    BY DEF effectiveStatus
  <2>2. PICK t \in atm[a].lastReportedAt..now : <<a, atm[a].status, t>> \in said
    BY DEF AtmInv, SaidSince
  <2>3. /\ now \in Int /\ atm[a].lastReportedAt \in Int /\ Freshness \in Int
        /\ Freshness >= 0
    BY LimiterConstants, AtmConstants DEF AtmInv, Machine, Times
  <2>4. t \in (now - Freshness)..now
    BY <2>1, <2>2, <2>3
  <2> QED BY <2>1, <2>2, <2>4
<1> QED BY <1>1, AtmStarts, AtmStep, PTL DEF Spec

-----------------------------------------------------------------------------
\* Every variable keeps its type, the rows of the limiter included.
THEOREM EndpointsTyped == Spec => []TypeOK
<1>1. SessionInv /\ AtmInv /\ LimiterInv => TypeOK
  <2> SUFFICES ASSUME SessionInv, AtmInv, LimiterInv PROVE TypeOK
    OBVIOUS
  <2>1. LimiterTypeOK
    BY DEF LimiterInv, CountersOK, IsTable, LimiterTypeOK, SessionInv
  <2>2. AtmTypeOK
    BY DEF AtmInv, ReportsOK, AtmTypeOK, Machine
  <2> QED BY <2>1, <2>2, SessionTypes DEF TypeOK
<1>2. Init => LimiterInv
  BY LimiterStarts DEF Init
<1> QED BY <1>1, <1>2, LimiterStep, SessionStarts, SessionStep, AtmStarts, AtmStep, PTL DEF Spec
=============================================================================
