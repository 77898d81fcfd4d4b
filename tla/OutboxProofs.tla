---------------------------- MODULE OutboxProofs ----------------------------
(***************************************************************************)
(* Proofs about NotificationOutbox, for any numbers of operations, users,  *)
(* channels and overlapping drains, any batch and any limit of attempts:   *)
(* nothing is announced that did not happen, nothing is sent more often    *)
(* than it was tried, what is settled stays settled, and only a drain that *)
(* stops half way leaves a row behind.                                     *)
(***************************************************************************)
EXTENDS NotificationOutbox, TLAPS

DeliveryRow == [status : NotificationDeliveryStatus, attempts : 0..MAX_ATTEMPTS]
DrainState == [pc : DrainPoints, rows : SUBSET Deliveries, row : Deliveries \cup {<<>>}]

\* The provider has been asked to send the row.
Called(d, x) == drain[d].pc \in {"answered", "failed"} /\ drain[d].row = x

\* A row that waits has an attempt left, one that is being processed is in some drain's
\* hands, or a drain died.
RowOK(x) ==
  /\ sent[x] > 0 => request[x[1]] = "committed"
  /\ sent[x] <= delivery[x].attempts
  /\ request[x[1]] = "new" => delivery[x].status = "NONE"
  /\ delivery[x].status = "PENDING" => delivery[x].attempts < MAX_ATTEMPTS
  /\ delivery[x].status = "PROCESSING" => SomeDrainDied \/ \E d \in Drains : Holds(d, x)

\* A claiming statement has its rows locked while they wait, and a drain has its rows to
\* itself until it is done with them.
ClaimOK(d, x) ==
  drain[d].pc = "claiming" /\ x \in drain[d].rows =>
    lock[x] = d /\ delivery[x].status = "PENDING" /\ request[x[1]] = "committed"
HoldOK(d, x) ==
  Holds(d, x) =>
    /\ delivery[x].status = "PROCESSING" /\ request[x[1]] = "committed"
    /\ ~Called(d, x) => sent[x] < delivery[x].attempts
    /\ \A e \in Drains : Holds(e, x) => e = d

DrainOK(d) == drain[d].pc \in {"answered", "failed"} => drain[d].row \in drain[d].rows

\* A request's drain is scheduled by its commit.
RequestOK(r) == request[r] # "committed" => drain[r].pc = "idle"

\* The four properties are not inductive by themselves: they need to know who may touch a row.
OutboxInv ==
  /\ TypeOK
  /\ \A x \in Deliveries : RowOK(x)
  /\ \A d \in Drains, x \in Deliveries : ClaimOK(d, x)
  /\ \A d \in Drains, x \in Deliveries : HoldOK(d, x)
  /\ \A d \in Drains : DrainOK(d)
  /\ \A r \in Requests : RequestOK(r)

\* What a step may not do to what is settled.
KeepsSettled ==
  \A x \in Deliveries : delivery[x].status \in Settled /\ request'[x[1]] = request[x[1]] =>
     delivery'[x] = delivery[x] /\ sent'[x] = sent[x]

-----------------------------------------------------------------------------
LEMMA Parts ==
  ASSUME TypeOK
  PROVE  /\ \A x \in Deliveries : delivery[x] \in DeliveryRow /\ sent[x] \in Nat /\ x[1] \in Requests
         /\ \A x \in Deliveries : delivery[x].attempts \in Nat
         /\ \A d \in Drains : drain[d] \in DrainState /\ d # NoDrain
         /\ Requests \subseteq Drains
<1>1. \A x \in Deliveries : delivery[x] \in DeliveryRow /\ sent[x] \in Nat
  BY DEF TypeOK, DeliveryRow
<1>2. \A x \in Deliveries : x[1] \in Requests
  BY DEF Deliveries
<1>3. \A x \in Deliveries : delivery[x].attempts \in Nat
  BY <1>1, OutboxConstants DEF DeliveryRow
<1>4. \A d \in Drains : drain[d] \in DrainState /\ d # NoDrain
  BY OutboxConstants DEF TypeOK, DrainState, Drains
<1> QED BY <1>1, <1>2, <1>3, <1>4 DEF Drains

\* A drain at rest holds nothing.
LEMMA AtRest ==
  ASSUME NEW point \in DrainPoints
  PROVE  Resting(point) \in DrainState /\ Resting(point).pc = point /\ Resting(point).rows = {}
BY DEF Resting, DrainState

LEMMA OutboxStarts == Init => OutboxInv
<1> SUFFICES ASSUME Init PROVE OutboxInv
  OBVIOUS
<1>1. \A d \in Drains : drain[d] \in DrainState /\ drain[d].pc = "idle"
  BY AtRest DEF Init, DrainPoints
<1>2. TypeOK
  <2>1. drain \in [Drains -> DrainState]
    BY <1>1 DEF Init
  <2>2. delivery \in [Deliveries -> DeliveryRow]
    BY OutboxConstants DEF Init, DeliveryRow, NotificationDeliveryStatus
  <2> QED BY <2>1, <2>2 DEF Init, TypeOK, DrainState, DeliveryRow
<1>3. ASSUME NEW x \in Deliveries PROVE RowOK(x)
  BY DEF Init, RowOK
<1>4. \A d \in Drains : DrainOK(d) /\ \A x \in Deliveries : ClaimOK(d, x) /\ HoldOK(d, x)
  BY <1>1 DEF DrainOK, ClaimOK, HoldOK, Holds
<1>5. \A r \in Requests : RequestOK(r)
  BY <1>1 DEF RequestOK, Drains
<1> QED BY <1>2, <1>3, <1>4, <1>5 DEF OutboxInv

\* A drain is done with one of its rows: it settles it, or gives it back with an attempt left.
LEMMA Released ==
  ASSUME OutboxInv, NEW d \in Drains, NEW x \in drain[d].rows, Holds(d, x),
         \A y \in drain[d].rows \ {x} : ~Called(d, y),
         NEW status \in Settled \cup {"PENDING"},
         status = "PENDING" => delivery[x].attempts < MAX_ATTEMPTS,
         delivery' = [delivery EXCEPT ![x].status = status],
         Onwards(d, drain[d].rows \ {x}),
         UNCHANGED <<request, consent, earlier, lock, sent>>
  PROVE  OutboxInv' /\ KeepsSettled
<1> DEFINE rows == drain[d].rows \ {x}
           state == IF rows = {} THEN Resting("idle")
                    ELSE [pc |-> "delivering", rows |-> rows, row |-> <<>>]
<1>1. x \in Deliveries /\ rows \in SUBSET Deliveries
  BY Parts DEF OutboxInv, DrainState
<1>2. /\ state \in DrainState /\ state.rows = rows
      /\ \/ state.pc = "idle" /\ rows = {}
         \/ state.pc = "delivering" /\ rows # {}
  <2> HIDE DEF rows
  <2> QED BY <1>1, AtRest DEF DrainState, DrainPoints
<1>3. drain' = [drain EXCEPT ![d] = state]
  BY DEF Onwards
<1> HIDE DEF state
<1>4. /\ drain' \in [Drains -> DrainState] /\ drain'[d] = state
      /\ \A e \in Drains : e # d => drain'[e] = drain[e]
  BY <1>2, <1>3 DEF OutboxInv, TypeOK, DrainState
<1>5. /\ delivery' \in [Deliveries -> DeliveryRow] /\ delivery'[x].status = status
      /\ delivery'[x].attempts = delivery[x].attempts
      /\ \A y \in Deliveries : y # x => delivery'[y] = delivery[y]
  BY <1>1 DEF OutboxInv, TypeOK, DeliveryRow, Settled, NotificationDeliveryStatus
<1>6. TypeOK'
  BY <1>4, <1>5 DEF OutboxInv, TypeOK, DrainState, DeliveryRow
<1>7. /\ \A y \in Deliveries : Holds(d, y)' => Holds(d, y) /\ y # x /\ ~Called(d, y)
      /\ \A y \in Deliveries : Holds(d, y) /\ y # x => Holds(d, y)'
      /\ \A e \in Drains, y \in Deliveries : e # d => (Holds(e, y)' <=> Holds(e, y))
      /\ SomeDrainDied => SomeDrainDied'
  BY <1>2, <1>4 DEF Holds, SomeDrainDied
<1>8. delivery[x].status = "PROCESSING"
  BY <1>1 DEF OutboxInv, HoldOK
<1>9. ASSUME NEW y \in Deliveries PROVE RowOK(y)'
  <2>1. RowOK(y)
    BY DEF OutboxInv
  <2>2. CASE y = x
    BY <2>1, <2>2, <1>5, <1>8 DEF RowOK, Settled
  <2>3. CASE y # x
    BY <2>1, <2>3, <1>5, <1>7 DEF RowOK
  <2> QED BY <2>2, <2>3
<1>10. ASSUME NEW e \in Drains, NEW y \in Deliveries PROVE ClaimOK(e, y)'
  BY <1>2, <1>4, <1>5, <1>8 DEF OutboxInv, ClaimOK
<1>11. ASSUME NEW e \in Drains, NEW y \in Deliveries PROVE HoldOK(e, y)'
  <2> SUFFICES ASSUME Holds(e, y)' PROVE HoldOK(e, y)'
    BY DEF HoldOK
  <2>1. Holds(e, y) /\ HoldOK(e, y) /\ HoldOK(d, x)
    BY <1>1, <1>7 DEF OutboxInv
  <2>2. y # x
    BY <1>7, <2>1 DEF HoldOK
  <2>3. \A f \in Drains : Holds(f, y)' => f = e
    BY <1>7, <2>1 DEF HoldOK
  <2>4. sent[y] < delivery[y].attempts \/ Called(e, y)'
    BY <1>4, <1>7, <2>1 DEF HoldOK, Called
  <2> QED BY <1>5, <2>1, <2>2, <2>3, <2>4 DEF HoldOK
<1>12. ASSUME NEW e \in Drains PROVE DrainOK(e)'
  BY <1>2, <1>4 DEF OutboxInv, DrainOK
<1>13. ASSUME NEW r \in Requests PROVE RequestOK(r)'
  <2>1. drain[d].pc # "idle" /\ r \in Drains
    BY DEF Holds, Drains
  <2> QED BY <1>4, <2>1 DEF OutboxInv, RequestOK
<1>14. KeepsSettled
  BY <1>5, <1>8 DEF KeepsSettled, Settled
<1> QED BY <1>6, <1>9, <1>10, <1>11, <1>12, <1>13, <1>14 DEF OutboxInv

\* The rows, the locks and the messages stay as they are, and at most a drain is scheduled
\* that was idle.
LEMMA RowsStay ==
  ASSUME OutboxInv, UNCHANGED <<earlier, delivery, lock, sent>>,
         consent' \in [Users -> SUBSET Channels],
         request' \in [Requests -> {"new", "open", "committed", "rolledBack"}],
         \A r \in Requests : request'[r] # request[r] => request[r] = "open" /\ request'[r] # "new",
         \/ drain' = drain
         \/ \E d \in Drains : /\ drain[d].pc = "idle"
                              /\ d \in Requests => request'[d] = "committed"
                              /\ drain' = [drain EXCEPT ![d] = Resting("scheduled")]
  PROVE  OutboxInv' /\ KeepsSettled
<1>1. /\ drain' \in [Drains -> DrainState]
      /\ \A d \in Drains : \/ drain'[d] = drain[d]
                           \/ /\ drain[d].pc = "idle" /\ drain'[d].pc = "scheduled"
                              /\ d \in Requests => request'[d] = "committed"
  <2>1. Resting("scheduled") \in DrainState /\ Resting("scheduled").pc = "scheduled"
    BY AtRest DEF DrainPoints
  <2>2. drain \in [Drains -> DrainState]
    BY DEF OutboxInv, TypeOK, DrainState
  <2>3. CASE drain' = drain
    BY <2>2, <2>3
  <2>4. CASE drain' # drain
    <3>1. PICK d \in Drains : /\ drain[d].pc = "idle"
                              /\ d \in Requests => request'[d] = "committed"
                              /\ drain' = [drain EXCEPT ![d] = Resting("scheduled")]
      BY <2>4
    <3>2. drain' \in [Drains -> DrainState]
      BY <2>1, <2>2, <3>1
    <3>3. \A e \in Drains : e # d => drain'[e] = drain[e]
      BY <2>2, <3>1
    <3>4. drain'[d].pc = "scheduled"
      BY <2>1, <2>2, <3>1
    <3> QED BY <3>1, <3>2, <3>3, <3>4
  <2> QED BY <2>3, <2>4
<1>0. delivery' = delivery /\ lock' = lock /\ sent' = sent
  OBVIOUS
<1>2. TypeOK'
  BY <1>1 DEF OutboxInv, TypeOK, DrainState
<1>3. /\ \A e \in Drains, y \in Deliveries : Holds(e, y)' <=> Holds(e, y)
      /\ SomeDrainDied => SomeDrainDied'
  BY <1>1 DEF Holds, SomeDrainDied
<1>4. \A y \in Deliveries : /\ request[y[1]] = "committed" => request'[y[1]] = "committed"
                            /\ request'[y[1]] = "new" => request[y[1]] = "new"
  BY Parts DEF OutboxInv, TypeOK
<1>5. ASSUME NEW y \in Deliveries PROVE RowOK(y)'
  <2>1. RowOK(y)
    BY DEF OutboxInv
  <2> QED BY <1>0, <1>3, <1>4, <2>1 DEF RowOK
<1>6. ASSUME NEW e \in Drains, NEW y \in Deliveries PROVE ClaimOK(e, y)' /\ HoldOK(e, y)'
  <2>1. ClaimOK(e, y)'
    <3>1. ClaimOK(e, y)
      BY DEF OutboxInv
    <3> QED BY <1>0, <1>1, <1>4, <3>1 DEF ClaimOK
  <2>2. HoldOK(e, y)'
    <3>1. Holds(e, y) => (Called(e, y)' <=> Called(e, y))
      BY <1>1 DEF Called, Holds
    <3>2. HoldOK(e, y)
      BY DEF OutboxInv
    <3> QED BY <1>0, <1>3, <1>4, <3>1, <3>2 DEF HoldOK
  <2> QED BY <2>1, <2>2
<1>7. ASSUME NEW e \in Drains PROVE DrainOK(e)'
  BY <1>1 DEF OutboxInv, DrainOK
<1>8. ASSUME NEW r \in Requests PROVE RequestOK(r)'
  BY <1>1, Parts DEF OutboxInv, RequestOK
<1>9. KeepsSettled
  BY DEF KeepsSettled
<1> QED BY <1>2, <1>5, <1>6, <1>7, <1>8, <1>9 DEF OutboxInv

\* The rows are made while the operation is open, and no drain has a row of that name in hand:
\* there is none yet, it was rolled back, or it is settled.
LEMMA CreateKeeps ==
  ASSUME OutboxInv, NEW r \in Requests, NEW u \in Users, CreateNotification(r, u)
  PROVE  OutboxInv' /\ KeepsSettled
<1> DEFINE fresh(x) == [status |-> IF x[2] \in consent[u] THEN "PENDING" ELSE "NONE", attempts |-> 0]
<1>1. /\ request[r] = "new" \/ Over(r)
      /\ request' = [request EXCEPT ![r] = "open"]
      /\ drain' = drain /\ lock' = lock /\ consent' = consent
      /\ earlier' = [q \in Requests |-> IF q = r THEN Requests \ {r} ELSE earlier[q] \ {r}]
      /\ delivery' = [x \in Deliveries |-> IF x[1] # r THEN delivery[x] ELSE fresh(x)]
      /\ sent' = [x \in Deliveries |-> IF x[1] = r THEN 0 ELSE sent[x]]
  BY DEF CreateNotification
<1>2. \A x : /\ fresh(x) \in DeliveryRow /\ fresh(x).attempts = 0
              /\ fresh(x).status \in {"PENDING", "NONE"}
  BY OutboxConstants DEF DeliveryRow, NotificationDeliveryStatus
<1> HIDE DEF fresh
<1>3. /\ \A x \in Deliveries : x[1] = r => /\ delivery'[x].attempts = 0 /\ sent'[x] = 0
                                          /\ delivery'[x].status \in {"PENDING", "NONE"}
      /\ \A x \in Deliveries : x[1] # r => delivery'[x] = delivery[x] /\ sent'[x] = sent[x]
  BY <1>1, <1>2
<1>4. /\ request'[r] = "open"
      /\ \A q \in Requests : q # r => request'[q] = request[q]
  BY <1>1 DEF OutboxInv, TypeOK
<1>5. TypeOK'
  <2>1. delivery' \in [Deliveries -> DeliveryRow]
    BY <1>1, <1>2, Parts DEF OutboxInv
  <2>2. earlier' \in [Requests -> SUBSET Requests]
    BY <1>1 DEF OutboxInv, TypeOK
  <2>3. sent' \in [Deliveries -> Nat]
    BY <1>1, Parts DEF OutboxInv
  <2> QED BY <1>1, <2>1, <2>2, <2>3 DEF OutboxInv, TypeOK, DeliveryRow
<1>6. /\ \A e \in Drains, y \in Deliveries : Holds(e, y)' <=> Holds(e, y)
      /\ \A e \in Drains, y \in Deliveries : Called(e, y)' <=> Called(e, y)
      /\ SomeDrainDied => SomeDrainDied'
  BY <1>1 DEF Holds, SomeDrainDied, Called
<1>7. \A x \in Deliveries : x[1] = r =>
        request[r] # "committed" \/ delivery[x].status \in Settled \cup {"NONE"}
  <2> SUFFICES ASSUME NEW x \in Deliveries, x[1] = r
               PROVE  request[r] # "committed" \/ delivery[x].status \in Settled \cup {"NONE"}
    OBVIOUS
  <2>1. PICK c \in Channels : x = <<r, c>>
    BY DEF Deliveries
  <2> QED BY <1>1, <2>1 DEF Over
<1>8. ASSUME NEW y \in Deliveries PROVE RowOK(y)'
  <2>1. RowOK(y) /\ y[1] \in Requests
    BY Parts DEF OutboxInv
  <2>2. CASE y[1] = r
    BY <1>3, <1>4, <2>2, OutboxConstants DEF RowOK
  <2>3. CASE y[1] # r
    BY <1>3, <1>4, <1>6, <2>1, <2>3 DEF RowOK
  <2> QED BY <2>2, <2>3
<1>9. ASSUME NEW e \in Drains, NEW y \in Deliveries PROVE ClaimOK(e, y)' /\ HoldOK(e, y)'
  <2>1. ClaimOK(e, y) /\ HoldOK(e, y) /\ y[1] \in Requests
    BY Parts DEF OutboxInv
  <2>2. y[1] = r => ~Holds(e, y) /\ ~(drain[e].pc = "claiming" /\ y \in drain[e].rows)
    BY <1>7, <2>1 DEF HoldOK, ClaimOK, Settled
  <2>3. ClaimOK(e, y)'
    BY <1>1, <1>3, <1>4, <2>1, <2>2 DEF ClaimOK
  <2>4. HoldOK(e, y)'
    BY <1>1, <1>3, <1>4, <1>6, <2>1, <2>2 DEF HoldOK
  <2> QED BY <2>3, <2>4
<1>10. ASSUME NEW e \in Drains PROVE DrainOK(e)'
  BY <1>1 DEF OutboxInv, DrainOK
<1>11. ASSUME NEW q \in Requests PROVE RequestOK(q)'
  BY <1>1, <1>4 DEF OutboxInv, RequestOK, Over
<1>12. KeepsSettled
  <2> SUFFICES ASSUME NEW x \in Deliveries, x[1] = r, delivery[x].status \in Settled,
                      request'[r] = request[r]
               PROVE  FALSE
    BY <1>3 DEF KeepsSettled
  <2>1. RowOK(x)
    BY DEF OutboxInv
  <2> QED BY <1>1, <1>4, <2>1 DEF RowOK, Settled, Over
<1> QED BY <1>5, <1>8, <1>9, <1>10, <1>11, <1>12 DEF OutboxInv

-----------------------------------------------------------------------------
\* A drain changes its own state and perhaps the locks, and touches no row, no operation and
\* no message: it keeps what it holds, if it goes on, and what it has claimed.
LEMMA DrainMoves ==
  ASSUME OutboxInv, NEW d \in Drains, NEW state \in DrainState,
         drain' = [drain EXCEPT ![d] = state], drain[d].pc # "dead", drain[d].pc # "idle",
         state.pc = "dead" \/ \A x \in Deliveries : Holds(d, x) => Holds(d, x)',
         \A x \in Deliveries : Holds(d, x)' =>
            Holds(d, x) /\ (~Called(d, x)' => sent'[x] < delivery[x].attempts),
         \A x \in Deliveries : sent'[x] \in Nat /\ sent'[x] <= delivery[x].attempts,
         \A x \in Deliveries : sent'[x] # sent[x] => Holds(d, x),
         sent' \in [Deliveries -> Nat],
         state.pc = "claiming" => \A x \in state.rows :
            lock'[x] = d /\ delivery[x].status = "PENDING" /\ request[x[1]] = "committed",
         \A x \in Deliveries : lock'[x] = lock[x] \/ lock[x] = d \/ lock[x] = NoDrain,
         lock' \in [Deliveries -> Drains \cup {NoDrain}],
         state.pc \in {"answered", "failed"} => state.row \in state.rows,
         UNCHANGED <<request, consent, earlier, delivery>>
  PROVE  OutboxInv' /\ KeepsSettled
<1>1. request' = request /\ delivery' = delivery /\ earlier' = earlier /\ consent' = consent
  OBVIOUS
<1>2. /\ drain' \in [Drains -> DrainState] /\ drain'[d] = state
      /\ \A e \in Drains : e # d => drain'[e] = drain[e]
  BY DEF OutboxInv, TypeOK, DrainState
<1>3. TypeOK'
  BY <1>1, <1>2 DEF OutboxInv, TypeOK, DrainState
<1>4. /\ \A e \in Drains, x \in Deliveries : e # d => (Holds(e, x)' <=> Holds(e, x))
      /\ \A e \in Drains, x \in Deliveries : e # d => (Called(e, x)' <=> Called(e, x))
      /\ SomeDrainDied => SomeDrainDied'
      /\ state.pc = "dead" => SomeDrainDied'
  BY <1>2 DEF Holds, Called, SomeDrainDied
<1>5. ASSUME NEW x \in Deliveries PROVE RowOK(x)'
  <2>1. RowOK(x) /\ HoldOK(d, x)
    BY DEF OutboxInv
  <2>2. sent'[x] > 0 => request[x[1]] = "committed"
    BY <2>1 DEF RowOK, HoldOK
  <2>3. delivery[x].status = "PROCESSING" => SomeDrainDied' \/ \E e \in Drains : Holds(e, x)'
    BY <1>4, <2>1 DEF RowOK
  <2> QED BY <1>1, <2>1, <2>2, <2>3 DEF RowOK
<1>6. ASSUME NEW e \in Drains, NEW x \in Deliveries PROVE ClaimOK(e, x)'
  <2>1. CASE e = d
    BY <1>1, <1>2, <2>1 DEF ClaimOK
  <2>2. CASE e # d
    <3>1. ClaimOK(e, x) /\ e # NoDrain
      BY Parts DEF OutboxInv
    <3> QED BY <1>1, <1>2, <2>2, <3>1 DEF ClaimOK
  <2> QED BY <2>1, <2>2
<1>7. ASSUME NEW e \in Drains, NEW x \in Deliveries PROVE HoldOK(e, x)'
  <2>1. HoldOK(e, x) /\ HoldOK(d, x)
    BY DEF OutboxInv
  <2>2. \A f \in Drains : Holds(f, x)' => Holds(f, x)
    BY <1>4
  <2>3. CASE e = d
    BY <1>1, <2>1, <2>2, <2>3 DEF HoldOK
  <2>4. CASE e # d
    <3>1. Holds(e, x) => ~Holds(d, x)
      BY <2>1, <2>4 DEF HoldOK
    <3> QED BY <1>1, <1>4, <2>1, <2>2, <2>4, <3>1 DEF HoldOK
  <2> QED BY <2>3, <2>4
<1>8. ASSUME NEW e \in Drains PROVE DrainOK(e)'
  BY <1>2 DEF OutboxInv, DrainOK
<1>9. ASSUME NEW r \in Requests PROVE RequestOK(r)'
  BY <1>1, <1>2, Parts DEF OutboxInv, RequestOK
<1>10. KeepsSettled
  <2> SUFFICES ASSUME NEW x \in Deliveries, delivery[x].status \in Settled
               PROVE  sent'[x] = sent[x]
    BY <1>1 DEF KeepsSettled
  <2>1. ~Holds(d, x)
    BY DEF OutboxInv, HoldOK, Settled
  <2> QED BY <2>1
<1> QED BY <1>3, <1>5, <1>6, <1>7, <1>8, <1>9, <1>10 DEF OutboxInv

\* The provider is called for a row in hand, once for each attempt that was counted.
LEMMA SendKeeps ==
  ASSUME OutboxInv, NEW d \in Drains, SendViaChannel(d)
  PROVE  OutboxInv' /\ KeepsSettled
<1>1. PICK x \in drain[d].rows, outcome \in {"answered", "accepted", "refused"} :
        /\ sent' = IF outcome = "refused" THEN sent ELSE [sent EXCEPT ![x] = @ + 1]
        /\ drain' = [drain EXCEPT ![d].pc = IF outcome = "answered" THEN "answered" ELSE "failed",
                                  ![d].row = x]
  BY DEF SendViaChannel
<1> DEFINE pc == IF outcome = "answered" THEN "answered" ELSE "failed"
           state == [pc |-> pc, rows |-> drain[d].rows, row |-> x]
<1>2. /\ drain[d].pc = "delivering" /\ lock' = lock
      /\ UNCHANGED <<request, consent, earlier, delivery>>
  BY DEF SendViaChannel
<1>3. x \in Deliveries /\ drain[d] \in DrainState
  BY Parts DEF OutboxInv, DrainState
<1>4. pc \in {"answered", "failed"} /\ pc \in DrainPoints
  BY DEF DrainPoints
<1>5. drain' = [drain EXCEPT ![d] = state]
  <2>1. drain \in [Drains -> DrainState]
    BY DEF OutboxInv, TypeOK, DrainState
  <2>2. drain' = [drain EXCEPT ![d] = [[drain[d] EXCEPT !.pc = pc] EXCEPT !.row = x]]
    BY <1>1, <2>1
  <2> DEFINE called == [[drain[d] EXCEPT !.pc = pc] EXCEPT !.row = x]
  <2> HIDE DEF pc
  <2>3. called \in [pc : {pc}, rows : {drain[d].rows}, row : {x}]
    BY <1>3 DEF DrainState
  <2> HIDE DEF called
  <2>4. called = [pc |-> pc, rows |-> drain[d].rows, row |-> x]
    BY <2>3
  <2> QED BY <2>2, <2>4 DEF called
<1>6. state \in DrainState /\ state.pc = pc /\ state.rows = drain[d].rows /\ state.row = x
  <2> HIDE DEF pc
  <2> QED BY <1>3, <1>4 DEF DrainState
<1> HIDE DEF state, pc
<1>7. drain'[d] = state
  BY <1>5 DEF OutboxInv, TypeOK
<1>8. \A y \in Deliveries : Holds(d, y) /\ ~Called(d, y) <=> y \in drain[d].rows
  BY <1>2 DEF Holds, Called
<1>9. \A y \in Deliveries : Holds(d, y)' <=> y \in drain[d].rows
  BY <1>4, <1>6, <1>7 DEF Holds
<1>10. Called(d, x)'
  BY <1>4, <1>6, <1>7 DEF Called
<1>11. \A y \in Deliveries : y \in drain[d].rows => sent[y] < delivery[y].attempts
  BY <1>8 DEF OutboxInv, HoldOK
<1>12. /\ sent' \in [Deliveries -> Nat]
       /\ \A y \in Deliveries : y # x => sent'[y] = sent[y]
       /\ sent'[x] \in {sent[x], sent[x] + 1}
  BY <1>1, <1>3 DEF OutboxInv, TypeOK
<1>13. \A y \in Deliveries : sent'[y] <= delivery[y].attempts
  BY <1>3, <1>11, <1>12, Parts DEF OutboxInv, RowOK
<1>14. lock' \in [Deliveries -> Drains \cup {NoDrain}]
  BY <1>2 DEF OutboxInv, TypeOK
<1>15. \A y \in Deliveries : Holds(d, y)' =>
          Holds(d, y) /\ (~Called(d, y)' => sent'[y] < delivery[y].attempts)
  BY <1>8, <1>9, <1>10, <1>11, <1>12
<1>16. \A y \in Deliveries : Holds(d, y) => Holds(d, y)'
  BY <1>9 DEF Holds
<1>17. \A y \in Deliveries : sent'[y] # sent[y] => Holds(d, y)
  BY <1>8, <1>12
<1>18. state.pc # "claiming" /\ state.row \in state.rows
  BY <1>4, <1>6
<1>19. \A y \in Deliveries : sent'[y] \in Nat /\ sent'[y] <= delivery[y].attempts
  BY <1>12, <1>13
<1> QED BY <1>2, <1>5, <1>6, <1>12, <1>14, <1>15, <1>16, <1>17, <1>18, <1>19, DrainMoves

\* A call that failed after all, or a drain that dies, changes nothing but the drain and what
\* it had locked.
LEMMA ThrowsKeeps ==
  ASSUME OutboxInv, NEW d \in Drains, RecordSentThrows(d)
  PROVE  OutboxInv' /\ KeepsSettled
<1> DEFINE state == [drain[d] EXCEPT !.pc = "failed"]
<1>1. /\ drain[d].pc = "answered" /\ lock' = lock /\ sent' = sent
      /\ UNCHANGED <<request, consent, earlier, delivery>>
      /\ drain' = [drain EXCEPT ![d] = state]
  BY DEF RecordSentThrows
<1>2. /\ state \in DrainState /\ state.pc = "failed" /\ state.rows = drain[d].rows
      /\ state.row = drain[d].row
  BY Parts DEF OutboxInv, DrainState, DrainPoints
<1> HIDE DEF state
<1>3. drain'[d] = state
  BY <1>1 DEF OutboxInv, TypeOK
<1>4. \A x \in Deliveries : (Holds(d, x)' <=> Holds(d, x)) /\ (Called(d, x)' <=> Called(d, x))
  BY <1>1, <1>2, <1>3 DEF Holds, Called
<1>5. \A x \in Deliveries : Holds(d, x) /\ ~Called(d, x) => sent[x] < delivery[x].attempts
  BY DEF OutboxInv, HoldOK
<1>6. /\ sent' \in [Deliveries -> Nat] /\ lock' \in [Deliveries -> Drains \cup {NoDrain}]
      /\ \A x \in Deliveries : sent[x] \in Nat /\ sent[x] <= delivery[x].attempts
  BY <1>1, Parts DEF OutboxInv, TypeOK, RowOK
<1>7. state.row \in state.rows
  BY <1>1, <1>2 DEF OutboxInv, DrainOK
<1> QED BY <1>1, <1>2, <1>4, <1>5, <1>6, <1>7, DrainMoves

LEMMA DieKeeps ==
  ASSUME OutboxInv, NEW d \in Drains, Die(d)
  PROVE  OutboxInv' /\ KeepsSettled
<1>1. /\ drain[d].pc # "idle" /\ drain[d].pc # "dead" /\ sent' = sent
      /\ UNCHANGED <<request, consent, earlier, delivery>>
      /\ drain' = [drain EXCEPT ![d] = Resting("dead")]
      /\ lock' = [x \in Deliveries |-> IF lock[x] = d THEN NoDrain ELSE lock[x]]
  BY DEF Die
<1>2. Resting("dead") \in DrainState /\ Resting("dead").pc = "dead"
  BY AtRest DEF DrainPoints
<1>3. drain'[d] = Resting("dead")
  BY <1>1 DEF OutboxInv, TypeOK
<1>4. \A x \in Deliveries : ~Holds(d, x)'
  BY <1>2, <1>3 DEF Holds
<1>5. /\ sent' \in [Deliveries -> Nat] /\ lock' \in [Deliveries -> Drains \cup {NoDrain}]
      /\ \A x \in Deliveries : sent[x] \in Nat /\ sent[x] <= delivery[x].attempts
      /\ \A x \in Deliveries : lock'[x] = lock[x] \/ lock[x] = d
  BY <1>1, Parts DEF OutboxInv, TypeOK, RowOK
<1> QED BY <1>1, <1>2, <1>4, <1>5, DrainMoves

\* Rows are locked only if they wait and nobody has locked them.
LEMMA LockKeeps ==
  ASSUME OutboxInv, NEW d \in Drains, LockPending(d)
  PROVE  OutboxInv' /\ KeepsSettled
<1> DEFINE free == {x \in Deliveries : Claimable(x) /\ Unlocked(x)}
<1>1. PICK batch \in OldestOf(free) :
        /\ lock' = [x \in Deliveries |-> IF x \in batch THEN d ELSE lock[x]]
        /\ drain' = [drain EXCEPT ![d] = [pc |-> "claiming", rows |-> batch, row |-> <<>>]]
  BY DEF LockPending
<1>2. batch \in SUBSET Deliveries /\ \A x \in batch : Claimable(x) /\ Unlocked(x)
  BY DEF OldestOf
<1> DEFINE state == [pc |-> "claiming", rows |-> batch, row |-> <<>>]
<1>3. state \in DrainState /\ state.pc = "claiming" /\ state.rows = batch
  BY <1>2 DEF DrainState, DrainPoints
<1>4. /\ drain[d].pc = "scheduled" /\ sent' = sent
      /\ UNCHANGED <<request, consent, earlier, delivery>>
  BY DEF LockPending
<1>5. \A x \in batch :
        lock'[x] = d /\ delivery[x].status = "PENDING" /\ request[x[1]] = "committed"
  BY <1>1, <1>2 DEF Claimable, Committed
<1> HIDE DEF state, free
<1>6. drain' = [drain EXCEPT ![d] = state] /\ drain'[d] = state
  BY <1>1 DEF state, OutboxInv, TypeOK
<1>7. \A x \in Deliveries : ~Holds(d, x) /\ ~Holds(d, x)'
  BY <1>3, <1>4, <1>6 DEF Holds
<1>8. /\ sent' \in [Deliveries -> Nat] /\ lock' \in [Deliveries -> Drains \cup {NoDrain}]
      /\ \A x \in Deliveries : sent[x] \in Nat /\ sent[x] <= delivery[x].attempts
      /\ \A x \in Deliveries : lock'[x] = lock[x] \/ lock[x] = NoDrain
  BY <1>1, <1>2, <1>4, Parts DEF OutboxInv, TypeOK, RowOK, Unlocked
<1> QED BY <1>3, <1>4, <1>5, <1>6, <1>7, <1>8, DrainMoves

-----------------------------------------------------------------------------
\* The claim counts an attempt of every row it takes.
LEMMA ClaimKeeps ==
  ASSUME OutboxInv, NEW d \in Drains, ClaimPending(d)
  PROVE  OutboxInv' /\ KeepsSettled
<1> DEFINE batch == drain[d].rows
           claimed(x) == [status |-> "PROCESSING", attempts |-> delivery[x].attempts + 1]
           state == IF batch = {} THEN Resting("idle")
                    ELSE [pc |-> "delivering", rows |-> batch, row |-> <<>>]
<1>1. /\ drain[d].pc = "claiming"
      /\ request' = request /\ consent' = consent /\ earlier' = earlier /\ sent' = sent
      /\ delivery' = [x \in Deliveries |-> IF x \in batch THEN claimed(x) ELSE delivery[x]]
      /\ lock' = [x \in Deliveries |-> IF x \in batch THEN NoDrain ELSE lock[x]]
      /\ drain' = [drain EXCEPT ![d] = state]
  BY DEF ClaimPending, Onwards
<1>2. batch \in SUBSET Deliveries
  BY Parts DEF OutboxInv, DrainState
<1>3. /\ state \in DrainState /\ state.rows = batch
      /\ \/ state.pc = "idle" /\ batch = {}
         \/ state.pc = "delivering" /\ batch # {}
  <2> HIDE DEF batch
  <2> QED BY <1>2, AtRest DEF DrainState, DrainPoints
<1>4. \A x \in batch : /\ lock[x] = d /\ delivery[x].status = "PENDING"
                       /\ request[x[1]] = "committed"
  BY <1>1, <1>2 DEF OutboxInv, ClaimOK
<1>5. \A x \in batch : delivery[x].attempts \in Nat /\ delivery[x].attempts < MAX_ATTEMPTS
  BY <1>2, <1>4, Parts DEF OutboxInv, RowOK
<1>6. \A x \in batch : claimed(x) \in DeliveryRow
  BY <1>5, OutboxConstants DEF DeliveryRow, NotificationDeliveryStatus
<1>7. /\ delivery' \in [Deliveries -> DeliveryRow]
      /\ \A x \in Deliveries : x \notin batch => delivery'[x] = delivery[x] /\ lock'[x] = lock[x]
      /\ \A x \in batch : /\ delivery'[x].status = "PROCESSING"
                          /\ delivery'[x].attempts = delivery[x].attempts + 1
  <2>1. \A x \in batch : delivery'[x] = claimed(x)
    BY <1>1, <1>2
  <2>2. delivery' \in [Deliveries -> DeliveryRow]
    <3> HIDE DEF claimed, batch
    <3> QED BY <1>1, <1>6, Parts DEF OutboxInv
  <2>3. \A x \in batch : /\ claimed(x).status = "PROCESSING"
                         /\ claimed(x).attempts = delivery[x].attempts + 1
    OBVIOUS
  <2>4. \A x \in Deliveries : x \notin batch => delivery'[x] = delivery[x] /\ lock'[x] = lock[x]
    BY <1>1
  <2> HIDE DEF claimed, batch
  <2> QED BY <2>1, <2>2, <2>3, <2>4
<1> HIDE DEF state, batch
<1>8. /\ drain' \in [Drains -> DrainState] /\ drain'[d] = state
      /\ \A e \in Drains : e # d => drain'[e] = drain[e]
  BY <1>1, <1>3 DEF OutboxInv, TypeOK, DrainState
<1>9. TypeOK'
  <2>1. lock' \in [Deliveries -> Drains \cup {NoDrain}]
    BY <1>1 DEF OutboxInv, TypeOK
  <2> QED BY <1>1, <1>7, <1>8, <2>1 DEF OutboxInv, TypeOK, DrainState, DeliveryRow
<1>10. /\ \A y \in Deliveries : Holds(d, y)' <=> y \in batch
       /\ \A y \in Deliveries : ~Called(d, y)' /\ ~Holds(d, y)
       /\ \A e \in Drains, y \in Deliveries : e # d => (Holds(e, y)' <=> Holds(e, y))
       /\ \A e \in Drains, y \in Deliveries : e # d => (Called(e, y)' <=> Called(e, y))
       /\ SomeDrainDied => SomeDrainDied'
  BY <1>1, <1>3, <1>8 DEF Holds, Called, SomeDrainDied
<1>11. \A e \in Drains, y \in Deliveries : Holds(e, y) => y \notin batch
  BY <1>4 DEF OutboxInv, HoldOK
<1>12. ASSUME NEW y \in Deliveries PROVE RowOK(y)'
  <2>1. RowOK(y) /\ sent[y] \in Nat
    BY Parts DEF OutboxInv
  <2>2. CASE y \in batch
    BY <1>1, <1>4, <1>5, <1>7, <1>10, <2>1, <2>2 DEF RowOK
  <2>3. CASE y \notin batch
    BY <1>1, <1>7, <1>10, <2>1, <2>3 DEF RowOK
  <2> QED BY <2>2, <2>3
<1>13. ASSUME NEW e \in Drains, NEW y \in Deliveries PROVE ClaimOK(e, y)'
  <2>1. ClaimOK(e, y)
    BY DEF OutboxInv
  <2>2. CASE e = d
    BY <1>3, <1>8, <2>2 DEF ClaimOK
  <2>3. CASE e # d
    <3>1. drain[e].pc = "claiming" /\ y \in drain[e].rows => y \notin batch
      BY <1>4, <2>1, <2>3 DEF ClaimOK
    <3> QED BY <1>1, <1>7, <1>8, <2>1, <2>3, <3>1 DEF ClaimOK
  <2> QED BY <2>2, <2>3
<1>14. ASSUME NEW e \in Drains, NEW y \in Deliveries PROVE HoldOK(e, y)'
  <2>1. HoldOK(e, y) /\ RowOK(y) /\ sent[y] \in Nat
    BY Parts DEF OutboxInv
  <2>2. CASE e = d
    <3>1. \A f \in Drains : y \in batch /\ Holds(f, y)' => f = d
      BY <1>10, <1>11
    <3> QED BY <1>1, <1>4, <1>5, <1>7, <1>10, <2>1, <2>2, <3>1 DEF HoldOK, RowOK
  <2>3. CASE e # d
    <3>1. Holds(e, y)' => y \notin batch
      BY <1>10, <1>11, <2>3
    <3> QED BY <1>1, <1>7, <1>10, <2>1, <2>3, <3>1 DEF HoldOK
  <2> QED BY <2>2, <2>3
<1>15. ASSUME NEW e \in Drains PROVE DrainOK(e)'
  BY <1>3, <1>8 DEF OutboxInv, DrainOK
<1>16. ASSUME NEW r \in Requests PROVE RequestOK(r)'
  BY <1>1, <1>8, Parts DEF OutboxInv, RequestOK
<1>17. KeepsSettled
  BY <1>1, <1>4, <1>7 DEF KeepsSettled, Settled
<1> QED BY <1>9, <1>12, <1>13, <1>14, <1>15, <1>16, <1>17 DEF OutboxInv

-----------------------------------------------------------------------------
LEMMA OutboxStep == OutboxInv /\ [Next]_vars => OutboxInv' /\ KeepsSettled
<1> SUFFICES ASSUME OutboxInv, [Next]_vars PROVE OutboxInv' /\ KeepsSettled
  OBVIOUS
<1>1. /\ request \in [Requests -> {"new", "open", "committed", "rolledBack"}]
      /\ consent \in [Users -> SUBSET Channels]
  BY DEF OutboxInv, TypeOK
<1>2. CASE UNCHANGED vars
  BY <1>1, <1>2, RowsStay DEF vars
<1>3. ASSUME NEW u \in Users, UpdateNotificationPreferences(u)
      PROVE  OutboxInv' /\ KeepsSettled
  <2>1. consent' \in [Users -> SUBSET Channels]
    BY <1>1, <1>3, OutboxConstants DEF UpdateNotificationPreferences
  <2> QED BY <1>1, <1>3, <2>1, RowsStay DEF UpdateNotificationPreferences
<1>4. ASSUME NEW r \in Requests, CommitRequest(r) PROVE OutboxInv' /\ KeepsSettled
  <2>1. drain[r].pc = "idle" /\ r \in Drains
    BY <1>4, Parts DEF OutboxInv, RequestOK, CommitRequest
  <2> QED BY <1>1, <1>4, <2>1, RowsStay DEF CommitRequest
<1>5. ASSUME NEW r \in Requests, RollBackRequest(r) PROVE OutboxInv' /\ KeepsSettled
  BY <1>1, <1>5, RowsStay DEF RollBackRequest
<1>6. ASSUME NEW o \in Others, ScheduleNotificationDrain(o)
      PROVE  OutboxInv' /\ KeepsSettled
  <2>1. o \notin Requests /\ o \in Drains
    BY OutboxConstants DEF Drains
  <2> QED BY <1>1, <1>6, <2>1, RowsStay DEF ScheduleNotificationDrain
<1>7. ASSUME NEW d \in Drains, SkipUnconfigured(d) PROVE OutboxInv' /\ KeepsSettled
  <2>1. PICK x \in drain[d].rows :
          /\ delivery' = [delivery EXCEPT ![x].status = "SKIPPED"]
          /\ Onwards(d, drain[d].rows \ {x})
    BY <1>7 DEF SkipUnconfigured
  <2>2. Holds(d, x) /\ \A y \in drain[d].rows : ~Called(d, y)
    BY <1>7 DEF SkipUnconfigured, Holds, Called
  <2>3. UNCHANGED <<request, consent, earlier, lock, sent>>
    BY <1>7 DEF SkipUnconfigured
  <2> QED BY <2>1, <2>2, <2>3, Released DEF Settled
<1>8. ASSUME NEW d \in Drains, RecordSent(d) \/ RecordFailure(d)
      PROVE  OutboxInv' /\ KeepsSettled
  <2> DEFINE x == drain[d].row
  <2>1. /\ drain[d].pc \in {"answered", "failed"}
        /\ Onwards(d, drain[d].rows \ {x})
        /\ UNCHANGED <<request, consent, earlier, lock, sent>>
    BY <1>8 DEF RecordSent, RecordFailure
  <2>2. x \in drain[d].rows /\ Holds(d, x) /\ \A y \in drain[d].rows \ {x} : ~Called(d, y)
    BY <2>1 DEF OutboxInv, DrainOK, Holds, Called
  <2>3. delivery[x].attempts \in Nat
    BY <2>2, Parts DEF OutboxInv, DrainState
  <2>4. CASE RecordSent(d)
    BY <2>1, <2>2, <2>4, Released DEF RecordSent, Settled
  <2>5. CASE RecordFailure(d)
    <3> DEFINE status == IF OutOfAttempts(delivery[x].attempts) THEN "FAILED" ELSE "PENDING"
    <3>1. status \in Settled \cup {"PENDING"}
      BY DEF Settled
    <3>2. status = "PENDING" => delivery[x].attempts < MAX_ATTEMPTS
      BY <2>3, OutboxConstants DEF OutOfAttempts
    <3>3. delivery' = [delivery EXCEPT ![x].status = status]
      BY <2>5 DEF RecordFailure
    <3> HIDE DEF status
    <3> QED BY <2>1, <2>2, <3>1, <3>2, <3>3, Released
  <2> QED BY <1>8, <2>4, <2>5
<1> QED BY <1>2, <1>3, <1>4, <1>5, <1>6, <1>7, <1>8, CreateKeeps, LockKeeps, ClaimKeeps,
           SendKeeps, ThrowsKeeps, DieKeeps DEF Next, DrainStep

LEMMA OutboxKept == Spec => []OutboxInv
BY OutboxStarts, OutboxStep, PTL DEF Spec

-----------------------------------------------------------------------------
\* No message announces an event that has not committed, whatever drains run while its
\* transaction is open (notification-dispatch.service.ts:4-6).
THEOREM NothingAnnouncedEarly == Spec => []NoPhantomMessage
<1>1. OutboxInv => NoPhantomMessage
  BY DEF OutboxInv, RowOK, NoPhantomMessage
<1> QED BY <1>1, OutboxKept, PTL

\* The provider never gets a message more often than it was tried, with every outcome of a
\* call and of the updates after it, and so never more than MAX_ATTEMPTS times (lines 78, 145).
THEOREM SentAsOftenAsTried ==
  Spec => [](SentWithinAttempts /\ \A x \in Deliveries : sent[x] <= MAX_ATTEMPTS)
<1>1. OutboxInv => SentWithinAttempts /\ \A x \in Deliveries : sent[x] <= MAX_ATTEMPTS
  <2> SUFFICES ASSUME OutboxInv, NEW x \in Deliveries
               PROVE  sent[x] <= delivery[x].attempts /\ sent[x] <= MAX_ATTEMPTS
    BY DEF SentWithinAttempts
  <2>1. sent[x] \in Nat /\ delivery[x].attempts \in 0..MAX_ATTEMPTS
    BY Parts DEF OutboxInv, DeliveryRow
  <2> QED BY <2>1, OutboxConstants DEF OutboxInv, RowOK
<1> QED BY <1>1, OutboxKept, PTL

\* Only a drain that stops half way leaves a row in PROCESSING behind it; every outcome of
\* deliver settles the row or gives it back (lines 111-159).
THEOREM NothingElseOrphans == Spec => []OnlyDeathOrphans
<1>1. OutboxInv => OnlyDeathOrphans
  BY DEF OutboxInv, RowOK, OnlyDeathOrphans, Orphaned
<1> QED BY <1>1, OutboxKept, PTL

\* A settled delivery stays settled and its message is not sent again, by any drain running
\* or still to come.
THEOREM SettledStays == Spec => SettledForGood
<1>1. OutboxInv /\ [Next]_vars =>
        [\A x \in Deliveries :
           delivery[x].status \in Settled /\ request'[x[1]] = request[x[1]] =>
           /\ delivery'[x] = delivery[x]
           /\ sent'[x] = sent[x]]_vars
  BY OutboxStep DEF KeepsSettled
<1> QED BY <1>1, OutboxKept, PTL DEF Spec, SettledForGood

\* Every variable keeps its type: no delivery is tried more than MAX_ATTEMPTS times.
THEOREM OutboxTyped == Spec => []TypeOK
<1>1. OutboxInv => TypeOK
  BY DEF OutboxInv
<1> QED BY <1>1, OutboxKept, PTL
=============================================================================
