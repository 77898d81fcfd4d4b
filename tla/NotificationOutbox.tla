------------------------- MODULE NotificationOutbox -------------------------
(***************************************************************************)
(* Messages sent out of the application (SMS, WhatsApp): the outbox rows   *)
(* written with a notification, and the drains that claim and send them    *)
(* (notifications/notification.service.ts, notification-dispatch.service.ts). *)
(*                                                                         *)
(* A drain is a call of drainPendingDeliveries.  Every queue operation     *)
(* schedules one after it commits, and nothing else does.                  *)
(***************************************************************************)
EXTENDS Integers, FiniteSets

CONSTANTS Requests,      \* queue operations that create an out-of-app notification, as many
                         \* as have theirs unsettled at a time
          Others,        \* queue operations that create none, each run again and again
          Users,         \* recipients
          Channels,      \* "WHATSAPP" and "SMS"
          Consents,      \* the sets of channels a user may opt in to, a bound
          Configured,    \* the channels whose provider is configured
          CLAIM_BATCH, MAX_ATTEMPTS,
          NoDrain

ASSUME OutboxConstants ==
  /\ Consents \subseteq SUBSET Channels
  /\ Configured \subseteq Channels
  /\ CLAIM_BATCH \in Nat \ {0}
  /\ MAX_ATTEMPTS \in Nat \ {0}
  /\ NoDrain \notin Requests \cup Others
  /\ Requests \cap Others = {}

VARIABLES request,   \* progress of each request's transaction
          consent,   \* channels each user opted in to, with a valid phone on file
          earlier,   \* the requests whose notification is older than that of each
          delivery,  \* the outbox row of each notification and channel
          lock,      \* the claiming statement that has locked a row
          drain,     \* where each drain is, and the rows it has in hand
          sent       \* messages the provider of the row's channel has accepted

vars == <<request, consent, earlier, delivery, lock, drain, sent>>

\* A drain is named after the operation that scheduled it.
Drains == Requests \cup Others
Deliveries == Requests \X Channels
NotificationDeliveryStatus == {"NONE", "PENDING", "PROCESSING", "SENT", "FAILED", "SKIPPED"}
Settled == {"SENT", "FAILED", "SKIPPED"}
DrainPoints == {"idle", "scheduled", "claiming", "delivering", "answered", "failed", "dead"}

Resting(point) == [pc |-> point, rows |-> {}, row |-> <<>>]

Init ==
  /\ request = [r \in Requests |-> "new"]
  /\ consent = [u \in Users |-> {}]
  /\ earlier = [r \in Requests |-> {}]
  /\ delivery = [x \in Deliveries |-> [status |-> "NONE", attempts |-> 0]]
  /\ lock = [x \in Deliveries |-> NoDrain]
  /\ drain = [d \in Drains |-> Resting("idle")]
  /\ sent = [x \in Deliveries |-> 0]

-----------------------------------------------------------------------------
\* The user's account page: any choice, at any time.
UpdateNotificationPreferences(u) ==
  \E channels \in Consents :
    /\ consent' = [consent EXCEPT ![u] = channels]
    /\ UNCHANGED <<request, earlier, delivery, lock, drain, sent>>

\* No drain will ever look at what the request has made, and its name serves the next one.
Over(r) ==
  \/ request[r] = "rolledBack"
  \/ /\ request[r] = "committed" /\ drain[r].pc = "idle"
     /\ \A c \in Channels : delivery[<<r, c>>].status \in Settled \cup {"NONE"}

\* The notification and one PENDING row per channel, in the caller's
\* transaction: the rows stay invisible to others until it commits.
CreateNotification(r, u) ==
  /\ request[r] = "new" \/ Over(r)
  /\ request' = [request EXCEPT ![r] = "open"]
  /\ earlier' = [q \in Requests |-> IF q = r THEN Requests \ {r} ELSE earlier[q] \ {r}]
  /\ delivery' = [x \in Deliveries |->
       IF x[1] # r THEN delivery[x]
       ELSE [status |-> IF x[2] \in consent[u] THEN "PENDING" ELSE "NONE", attempts |-> 0]]
  /\ sent' = [x \in Deliveries |-> IF x[1] = r THEN 0 ELSE sent[x]]
  /\ UNCHANGED <<consent, lock, drain>>

\* The transaction commits and the operation schedules a drain.
CommitRequest(r) ==
  /\ request[r] = "open"
  /\ request' = [request EXCEPT ![r] = "committed"]
  /\ drain' = [drain EXCEPT ![r] = Resting("scheduled")]
  /\ UNCHANGED <<consent, earlier, delivery, lock, sent>>

RollBackRequest(r) ==
  /\ request[r] = "open"
  /\ request' = [request EXCEPT ![r] = "rolledBack"]
  /\ UNCHANGED <<consent, earlier, delivery, lock, drain, sent>>

\* Another queue operation has committed.
ScheduleNotificationDrain(o) ==
  /\ drain[o].pc = "idle"
  /\ drain' = [drain EXCEPT ![o] = Resting("scheduled")]
  /\ UNCHANGED <<request, consent, earlier, delivery, lock, sent>>

-----------------------------------------------------------------------------
\* Deliveries are enqueued outside the caller's transaction.
Outside_Committed(x) == request[x[1]] # "new"

Committed(x) == request[x[1]] = "committed"

\* FAILED deliveries are claimed again.
Stubborn_Claimable(x) == Committed(x) /\ delivery[x].status \in {"PENDING", "FAILED"}

Claimable(x) == Committed(x) /\ delivery[x].status = "PENDING"

\* FOR UPDATE SKIP LOCKED: rows another claiming statement has locked do not exist.
Unlocked(x) == lock[x] = NoDrain

\* The newest rows first.
Newest_Older(x, y) == y[1] \in earlier[x[1]]

Older(x, y) == x[1] \in earlier[y[1]]

\* ORDER BY created_at LIMIT n, over the rows that can be claimed: the rows of one
\* notification are as old as each other.
OldestOf(rows) ==
  {S \in SUBSET rows :
     /\ Cardinality(S) = IF Cardinality(rows) < CLAIM_BATCH THEN Cardinality(rows) ELSE CLAIM_BATCH
     /\ \A x \in S, y \in rows \ S : ~Older(y, x)}

\* claimPending, a single UPDATE: its subquery locks the rows ...
LockPending(d) ==
  /\ drain[d].pc = "scheduled"
  /\ \E batch \in OldestOf({x \in Deliveries : Claimable(x) /\ Unlocked(x)}) :
       /\ lock' = [x \in Deliveries |-> IF x \in batch THEN d ELSE lock[x]]
       /\ drain' = [drain EXCEPT ![d] = [pc |-> "claiming", rows |-> batch, row |-> <<>>]]
  /\ UNCHANGED <<request, consent, earlier, delivery, sent>>

\* The drain takes the next of its rows, or is done.
Onwards(d, rows) ==
  drain' = [drain EXCEPT ![d] =
              IF rows = {} THEN Resting("idle") ELSE [pc |-> "delivering", rows |-> rows, row |-> <<>>]]

\* The attempt is counted when it fails, after the limit was tested.
Uncounted_ClaimPending(d) ==
  LET batch == drain[d].rows IN
  /\ drain[d].pc = "claiming"
  /\ delivery' = [x \in Deliveries |->
                    IF x \in batch THEN [delivery[x] EXCEPT !.status = "PROCESSING"] ELSE delivery[x]]
  /\ lock' = [x \in Deliveries |-> IF x \in batch THEN NoDrain ELSE lock[x]]
  /\ Onwards(d, batch)
  /\ UNCHANGED <<request, consent, earlier, sent>>

\* ... and its commit marks them, each with one attempt more, and releases them.
ClaimPending(d) ==
  LET batch == drain[d].rows IN
  /\ drain[d].pc = "claiming"
  /\ delivery' = [x \in Deliveries |->
                    IF x \in batch
                    THEN [status |-> "PROCESSING", attempts |-> delivery[x].attempts + 1]
                    ELSE delivery[x]]
  /\ lock' = [x \in Deliveries |-> IF x \in batch THEN NoDrain ELSE lock[x]]
  /\ Onwards(d, batch)
  /\ UNCHANGED <<request, consent, earlier, sent>>

\* A channel without a provider is recorded as SKIPPED and nothing is sent.
SkipUnconfigured(d) ==
  /\ drain[d].pc = "delivering"
  /\ \E x \in drain[d].rows :
       /\ x[2] \notin Configured
       /\ delivery' = [delivery EXCEPT ![x].status = "SKIPPED"]
       /\ Onwards(d, drain[d].rows \ {x})
  /\ UNCHANGED <<request, consent, earlier, lock, sent>>

\* The call to the provider.  It can accept the message and the call fail all the
\* same: the answer is lost, or is not a success.
SendViaChannel(d) ==
  /\ drain[d].pc = "delivering"
  /\ \E x \in drain[d].rows, outcome \in {"answered", "accepted", "refused"} :
       /\ x[2] \in Configured
       /\ sent' = IF outcome = "refused" THEN sent ELSE [sent EXCEPT ![x] = @ + 1]
       /\ drain' = [drain EXCEPT ![d].pc = IF outcome = "answered" THEN "answered" ELSE "failed",
                                 ![d].row = x]
  /\ UNCHANGED <<request, consent, earlier, delivery, lock>>

RecordSent(d) ==
  /\ drain[d].pc = "answered"
  /\ delivery' = [delivery EXCEPT ![drain[d].row].status = "SENT"]
  /\ Onwards(d, drain[d].rows \ {drain[d].row})
  /\ UNCHANGED <<request, consent, earlier, lock, sent>>

\* The update to SENT is inside the try block: when it throws, the delivery failed.
RecordSentThrows(d) ==
  /\ drain[d].pc = "answered"
  /\ drain' = [drain EXCEPT ![d].pc = "failed"]
  /\ UNCHANGED <<request, consent, earlier, delivery, lock, sent>>

OutOfAttempts(attempts) == attempts >= MAX_ATTEMPTS

\* A failed delivery is logged and not given back.
Forgetful_RecordFailure(d) ==
  /\ drain[d].pc = "failed"
  /\ Onwards(d, drain[d].rows \ {drain[d].row})
  /\ UNCHANGED <<request, consent, earlier, delivery, lock, sent>>

\* row.attempts, returned by the claim, is still the row's: only its drain updates it.
RecordFailure(d) ==
  LET x == drain[d].row IN
  /\ drain[d].pc = "failed"
  /\ delivery' = [delivery EXCEPT ![x].status =
                    IF OutOfAttempts(delivery[x].attempts) THEN "FAILED" ELSE "PENDING"]
  /\ Onwards(d, drain[d].rows \ {x})
  /\ UNCHANGED <<request, consent, earlier, lock, sent>>

\* The process ends, or a statement throws outside the try block: the drain stops
\* where it is, and the statement it was in is rolled back.
Die(d) ==
  /\ drain[d].pc \notin {"idle", "dead"}
  /\ drain' = [drain EXCEPT ![d] = Resting("dead")]
  /\ lock' = [x \in Deliveries |-> IF lock[x] = d THEN NoDrain ELSE lock[x]]
  /\ UNCHANGED <<request, consent, earlier, delivery, sent>>

\* The steps a running drain takes by itself.
DrainStep(d) == \/ LockPending(d) \/ ClaimPending(d)
                \/ SkipUnconfigured(d) \/ SendViaChannel(d)
                \/ RecordSent(d) \/ RecordFailure(d)

Next ==
  \/ \E u \in Users : UpdateNotificationPreferences(u) \/ \E r \in Requests : CreateNotification(r, u)
  \/ \E r \in Requests : CommitRequest(r) \/ RollBackRequest(r)
  \/ \E o \in Others : ScheduleNotificationDrain(o)
  \/ \E d \in Drains : DrainStep(d) \/ RecordSentThrows(d) \/ Die(d)

Spec == Init /\ [][Next]_vars

\* A promise chain in a living process goes on: each database statement ends and each
\* provider call ends, with an answer or by the timeout of fetch.
FairSpec == Spec /\ \A d \in Drains : WF_vars(DrainStep(d))

-----------------------------------------------------------------------------
Holds(d, x) == drain[d].pc \in {"delivering", "answered", "failed"} /\ x \in drain[d].rows
SomeDrainDied == \E d \in Drains : drain[d].pc = "dead"

\* Claimed, and no drain is left to decide what becomes of it.
Orphaned(x) == delivery[x].status = "PROCESSING" /\ \A d \in Drains : ~Holds(d, x)

\* Types.
TypeOK ==
  /\ request \in [Requests -> {"new", "open", "committed", "rolledBack"}]
  /\ consent \in [Users -> SUBSET Channels]
  /\ earlier \in [Requests -> SUBSET Requests]
  /\ delivery \in [Deliveries -> [status : NotificationDeliveryStatus, attempts : 0..MAX_ATTEMPTS]]
  /\ lock \in [Deliveries -> Drains \cup {NoDrain}]
  /\ drain \in [Drains -> [pc : DrainPoints, rows : SUBSET Deliveries, row : Deliveries \cup {<<>>}]]
  /\ sent \in [Deliveries -> Nat]

\* No message announces an event that has not committed, whatever drains run while
\* its transaction is open (notification-dispatch.service.ts:4-6).
NoPhantomMessage == \A x \in Deliveries : sent[x] > 0 => request[x[1]] = "committed"

\* The provider never gets a message more often than attempts were recorded, with
\* every outcome of a call and of the updates after it (lines 78, 145).
SentWithinAttempts == \A x \in Deliveries : sent[x] <= delivery[x].attempts

\* Only a drain that stops half way leaves a row in PROCESSING behind it; every
\* outcome of deliver settles the row or gives it back (lines 111-159).
OnlyDeathOrphans == (\E x \in Deliveries : Orphaned(x)) => SomeDrainDied

\* A settled delivery stays settled and its message is not sent again, by any drain
\* running or still to come, as long as its name stands for the same row.
SettledForGood ==
  [][\A x \in Deliveries :
       delivery[x].status \in Settled /\ request'[x[1]] = request[x[1]] =>
       /\ delivery'[x] = delivery[x]
       /\ sent'[x] = sent[x]]_vars

\* While queue operations go on, every delivery is settled whatever the provider does,
\* but for the rows a dead drain had in hand: attempts are bounded and a claim takes
\* the oldest rows first, so that none is passed over for ever, though other operations
\* create new ones without end and fill every batch (lines 75-96, 145).
EventuallySettled ==
  []<>(\E o \in Others : drain[o].pc = "scheduled")
    => \A x \in Deliveries : Claimable(x) ~> delivery[x].status \in Settled \/ Orphaned(x)
=============================================================================
