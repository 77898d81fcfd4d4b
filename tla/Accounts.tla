------------------------------ MODULE Accounts ------------------------------
(***************************************************************************)
(* One account: registration, sign-in, sessions, recovery of the password  *)
(* and its change (auth/auth.service.ts, session.store.ts and the routes   *)
(* of app/api/auth), behind the limiter.                                   *)
(*                                                                         *)
(* A member of Handlers serves one HTTP request at a time, statement by    *)
(* statement.  A transaction of several statements is one step where it    *)
(* commits, unless what it read before matters.                            *)
(***************************************************************************)
EXTENDS RateLimit, Sequences, FiniteSets

CONSTANTS Handlers,
          Operations,     \* the requests clients make
          Sessions,       \* session tokens, in the order of their numbers
          ResetTokens,    \* password reset tokens, likewise
          SessionTTL,     \* AUTH_SESSION_TTL_SECONDS and AUTH_PASSWORD_RESET_TTL_SECONDS
          ResetTTL,
          MaxRequests     \* bound: requests ever made

RequestTypes == {"register", "login", "logout", "forgot", "reset", "change"}

ASSUME AccountConstants ==
  /\ Operations \subseteq RequestTypes
  /\ Sessions \subseteq Nat \ {0} /\ ResetTokens \subseteq Nat \ {0}
  /\ {SessionTTL, ResetTTL, MaxRequests} \subseteq Nat

None == 0

VARIABLES version,      \* the password: 0 before the account exists, then which one it is
          trial,        \* whether the account has its free month
          session,      \* rows of `sessions`
          token,        \* rows of `password_reset_tokens`
          audited,      \* the passwords whose setting has a row in `audit_logs`
          handler,      \* each request: where it is and its local variables
          requests      \* requests made so far

accountVars == <<version, trial, session, token, audited>>
requestVars == <<handler, requests>>

NoSession == [status |-> "none", expires |-> 0, proved |-> 0, overtaken |-> FALSE]
NoToken == [status |-> "none", expires |-> 0]
Idle == [pc |-> "idle", op |-> "none", checks |-> <<>>, at |-> 0,
         cookie |-> None, token |-> None, proved |-> 0, outstanding |-> {}]

\* Nobody has registered yet, or somebody else has made the account (addMember).
AccountsInit ==
  /\ version \in {0, 1} /\ trial = FALSE
  /\ session = [s \in Sessions |-> NoSession]
  /\ token = [k \in ResetTokens |-> NoToken]
  /\ audited = {}
  /\ handler = [h \in Handlers |-> Idle]
  /\ requests = 0

At(h, point) == handler[h].pc = point
Goto(h, point) == handler' = [handler EXCEPT ![h].pc = point]
Finish(h) == handler' = [handler EXCEPT ![h] = Idle]

\* resolveAuthContext: the session is known, not revoked, not expired.
Resolves(s) == s # None /\ session[s].status = "live" /\ session[s].expires > now

-----------------------------------------------------------------------------
\* The routes.

\* What each endpoint counts before it does anything, in this order; a key that is not
\* one of Keys is one whose limit is not reached.
ChecksOf(op) ==
  SelectSeq(CASE op \in {"login", "forgot"} -> <<<<op, "ip">>, <<op, "identity">>>>
              [] op \in {"register", "reset", "change"} -> <<<<op, "ip">>>>
              [] op = "logout" -> <<>>,
            LAMBDA k : k \in Keys)

FirstStep(op) == [register |-> "create", login |-> "verify", logout |-> "revoke",
                  forgot |-> "lookup", reset |-> "check", change |-> "verify"][op]

\* The cookies and the reset tokens a request can come with: any that was given out; a
\* change needs a session that resolves now.
Cookies(op) == CASE op = "change" -> {s \in Sessions : Resolves(s)}
                 [] op = "logout" -> {s \in Sessions : session[s].status # "none"}
                 [] OTHER -> {None}
TokensOf(op) == IF op = "reset" THEN {k \in ResetTokens : token[k].status # "none"} ELSE {None}

Arrive(h, op, cookie, k) ==
  /\ At(h, "idle") /\ requests < MaxRequests
  /\ requests' = requests + 1
  /\ handler' = [handler EXCEPT ![h] =
       [Idle EXCEPT !.op = op, !.cookie = cookie, !.token = k, !.checks = ChecksOf(op), !.at = now,
                    !.pc = IF ChecksOf(op) = <<>> THEN FirstStep(op) ELSE "count"]]
  /\ UNCHANGED <<limiterVars, accountVars>>

\* enforceRateLimits: the request is counted for its next key and goes on, is served, or
\* is refused.
Count(h) ==
  LET r == handler[h]
      k == Head(r.checks)
      rest == Tail(r.checks)
  IN
  /\ At(h, "count")
  /\ Consume(k, r.at)
  /\ handler' = [handler EXCEPT ![h] =
       IF ~isAllowed(k, Counted(k, windowStart(k, r.at))[k][windowStart(k, r.at)]) THEN Idle
       ELSE [r EXCEPT !.checks = rest, !.at = now, !.pc = IF rest = <<>> THEN FirstStep(r.op) ELSE @]]
  /\ UNCHANGED <<accountVars, requests>>

-----------------------------------------------------------------------------
\* register: the unique e-mail lets one request create the account ...
CreateUser(h) ==
  /\ At(h, "create")
  /\ IF version = 0
     THEN /\ version' = 1
          /\ handler' = [handler EXCEPT ![h].pc = "trial", ![h].proved = 1]
     ELSE Finish(h) /\ UNCHANGED version
  /\ UNCHANGED <<limiterVars, trial, session, token, audited, requests>>

\* ... the free month is attached, or is not and nobody is told ...
AttachTrial(h) ==
  /\ At(h, "trial")
  /\ trial' \in {trial, TRUE}
  /\ Goto(h, "session")
  /\ UNCHANGED <<limiterVars, version, session, token, audited, requests>>

SessionExpiry == now + SessionTTL

\* ... and the browser is signed in.  createSession is what a login ends with too.
CreateSession(h) ==
  /\ At(h, "session")
  /\ \E s \in Sessions :
       /\ \A r \in Sessions : r >= s <=> session[r].status = "none"
       /\ session' = [session EXCEPT ![s] =
            [status |-> "live", expires |-> SessionExpiry, proved |-> handler[h].proved,
             overtaken |-> handler[h].proved # version]]
  /\ Finish(h)
  /\ UNCHANGED <<limiterVars, version, trial, token, audited, requests>>

\* login and changePassword: the password given is compared with the one stored now, and
\* the request goes on only if it is the same.
VerifyPassword(h) ==
  /\ At(h, "verify")
  /\ \/ /\ version # 0
        /\ handler' = [handler EXCEPT ![h].proved = version,
                         ![h].pc = IF handler[h].op = "login" THEN "session" ELSE "write"]
     \/ Finish(h)
  /\ UNCHANGED <<limiterVars, accountVars, requests>>

\* logout: revokeSession is idempotent.
RevokeSession(h) ==
  /\ At(h, "revoke")
  /\ session' = [session EXCEPT ![handler[h].cookie].status = "revoked"]
  /\ Finish(h)
  /\ UNCHANGED <<limiterVars, version, trial, token, audited, requests>>

-----------------------------------------------------------------------------
\* requestPasswordReset: nothing to do without an account; outstanding tokens are found ...
FindOutstanding(h) ==
  /\ At(h, "lookup")
  /\ handler' = [handler EXCEPT ![h] =
       IF version = 0 THEN Idle
       ELSE [@ EXCEPT !.pc = "issue",
                      !.outstanding = {k \in ResetTokens : token[k].status = "open"}]]
  /\ UNCHANGED <<limiterVars, accountVars, requests>>

\* ... and are committed as used together with the new one.
IssueToken(h) ==
  /\ At(h, "issue")
  /\ \E k \in ResetTokens :
       /\ \A j \in ResetTokens : j >= k <=> token[j].status = "none"
       /\ token' = [j \in ResetTokens |->
            CASE j = k -> [status |-> "open", expires |-> now + ResetTTL]
              [] j \in handler[h].outstanding -> [token[j] EXCEPT !.status = "used"]
              [] OTHER -> token[j]]
  /\ Finish(h)
  /\ UNCHANGED <<limiterVars, version, trial, session, audited, requests>>

\* resetPassword: the token is read, unlocked, and the new password is hashed.
CheckToken(h) ==
  LET row == token[handler[h].token] IN
  /\ At(h, "check")
  /\ IF row.status = "open" /\ row.expires > now THEN Goto(h, "write") ELSE Finish(h)
  /\ UNCHANGED <<limiterVars, accountVars, requests>>

\* Nothing is revoked.
Unrevoked_LiveAfter(s, spared) == session[s]

\* What a new password leaves of a session: the one it was set in stays, and from now on
\* stands for the new password.
LiveAfter(s, spared) ==
  IF session[s].status # "live" THEN session[s]
  ELSE IF s = spared THEN [session[s] EXCEPT !.proved = version + 1, !.overtaken = FALSE]
  ELSE [session[s] EXCEPT !.status = "revoked"]

\* The token of a reset is used from now on.
TokenAfter(h) ==
  [k \in ResetTokens |-> IF k = handler[h].token THEN [token[k] EXCEPT !.status = "used"] ELSE token[k]]

\* The transaction of resetPassword, which ends every session, and of changePassword,
\* which ends all but its own.
SetPassword(h) ==
  /\ At(h, "write")
  /\ version' = version + 1
  /\ token' = TokenAfter(h)
  /\ session' = [s \in Sessions |-> LiveAfter(s, handler[h].cookie)]
  /\ audited' = audited \cup {version + 1}
  /\ Finish(h)
  /\ UNCHANGED <<limiterVars, trial, requests>>

\* A request ends where it is: what it has not committed is rolled back.
Abort(h) ==
  /\ ~At(h, "idle")
  /\ Finish(h)
  /\ UNCHANGED <<limiterVars, accountVars, requests>>

-----------------------------------------------------------------------------
HandlerStep(h) ==
  \/ Count(h)
  \/ CreateUser(h) \/ AttachTrial(h) \/ CreateSession(h)
  \/ VerifyPassword(h) \/ RevokeSession(h)
  \/ FindOutstanding(h) \/ IssueToken(h) \/ CheckToken(h) \/ SetPassword(h)

AccountsNext ==
  \/ \E h \in Handlers :
       \/ HandlerStep(h) \/ Abort(h)
       \/ \E op \in Operations : \E s \in Cookies(op), k \in TokensOf(op) : Arrive(h, op, s, k)
-----------------------------------------------------------------------------
Points == {"idle", "count", "create", "trial", "session", "verify", "revoke",
           "lookup", "issue", "check", "write"}

\* Types.
AccountsTypeOK ==
  /\ version \in Nat /\ trial \in BOOLEAN
  /\ session \in [Sessions -> [status : {"none", "live", "revoked"}, expires : Nat,
                               proved : Nat, overtaken : BOOLEAN]]
  /\ token \in [ResetTokens -> [status : {"none", "open", "used"}, expires : Nat]]
  /\ audited \subseteq Nat
  /\ \A h \in Handlers :
       /\ handler[h].pc \in Points
       /\ handler[h].op \in RequestTypes \cup {"none"}
       /\ handler[h].cookie \in Sessions \cup {None}
       /\ handler[h].token \in ResetTokens \cup {None}
       /\ handler[h].outstanding \subseteq ResetTokens
  /\ requests \in 0..MaxRequests

\* A live session stands for the password of the account: every change of password ended
\* the others, but those of a sign-in it overtook (auth.service.ts:225, 258-266).
SessionsProvePassword ==
  \A s \in Sessions : session[s].status = "live" /\ ~session[s].overtaken
                        => session[s].proved = version
=============================================================================
