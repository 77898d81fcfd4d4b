--------------------------- MODULE RealtimeProofs ---------------------------
(***************************************************************************)
(* Theorems of RealtimeSync, for any number of queues and pages and any    *)
(* bounds: types, and that a quiet page shows what it was signalled.       *)
(***************************************************************************)
EXTENDS RealtimeSync, SequenceTheorems, TLAPS

Replies == Nat \cup {Unanswered, Failed}
Requests == [queue : Queues, reply : Replies, act : BOOLEAN, overtaken : BOOLEAN]
Counters == [Queues -> Nat]

\* Types, stronger than TypeOK: no signal is ahead of the commits it announces.
Types ==
  /\ version \in Counters /\ signalled \in Counters /\ unpublished \in Counters
  /\ \A q \in Queues : /\ version[q] <= MaxVersion[q]
                       /\ signalled[q] <= version[q]
                       /\ unpublished[q] <= version[q]
  /\ customers \subseteq Watchers
  /\ selected \in [Watchers -> Queues]
  /\ stream \in [Watchers -> {"connecting", "open", "waiting"}]
  /\ wire \in [Watchers -> Seq({"ready", "signal"})]
  /\ fetches \in [Watchers -> Seq(Requests)]
  /\ shown \in [Watchers -> [queue : Queues, version : Nat] \cup {Nothing}]
  /\ error \in [Watchers -> BOOLEAN]
  /\ acting \in [Watchers -> Queues \cup {NoQueue}]
  /\ strayed \in [Watchers -> BOOLEAN]
  /\ faults \in 0..MaxFaults

-----------------------------------------------------------------------------
\* Requests in flight.

\* Asking adds a request at the end.
LEMMA AskedType ==
  ASSUME NEW s \in Seq(Requests), NEW q \in Queues
  PROVE  /\ Append(s, Asked(q)) \in Seq(Requests)
         /\ Len(Append(s, Asked(q))) = Len(s) + 1
         /\ Append(s, Asked(q))[Len(s) + 1] = Asked(q)
<1>1. Asked(q) \in Requests
  BY DEF Asked, Requests, Replies
<1> QED BY <1>1

\* A reply that arrives leaves the other requests in their order; the earlier ones for its
\* queue are overtaken.
LEMMA WithoutType ==
  ASSUME NEW s \in Seq(Requests), NEW i \in 1..Len(s)
  PROVE  /\ Without(s, i) \in Seq(Requests)
         /\ Len(Without(s, i)) = Len(s) - 1
         /\ \A j \in 1..(Len(s) - 1) :
              LET f == Without(s, i)[j]
              IN  IF j < i THEN f.queue = s[j].queue /\ f.reply = s[j].reply
                                /\ f.overtaken = (s[j].overtaken \/ s[j].queue = s[i].queue)
                  ELSE f = s[j + 1]
<1>1. PICK n \in Nat : n = Len(s)
  OBVIOUS
<1>2. i \in 1..n /\ n - 1 \in Nat
  BY <1>1
<1> DEFINE g(j) == IF j < i THEN [s[j] EXCEPT !.overtaken = @ \/ s[j].queue = s[i].queue]
                   ELSE s[j + 1]
<1>3. ASSUME NEW j \in 1..(n - 1)
      PROVE  /\ g(j) \in Requests
             /\ IF j < i THEN g(j).queue = s[j].queue /\ g(j).reply = s[j].reply
                              /\ g(j).overtaken = (s[j].overtaken \/ s[j].queue = s[i].queue)
                ELSE g(j) = s[j + 1]
  <2>1. j \in 1..n /\ j + 1 \in 1..n
    BY <1>2
  <2>2. s[j] \in Requests /\ s[j + 1] \in Requests
    BY <1>1, <2>1
  <2>3. (s[j].overtaken \/ s[j].queue = s[i].queue) \in BOOLEAN
    BY Zenon
  <2> QED BY <2>2, <2>3 DEF Requests
<1> HIDE DEF g
<1>4. Without(s, i) = [j \in 1..(n - 1) |-> g(j)]
  BY <1>1 DEF Without, g
<1>5. Without(s, i) \in [1..(n - 1) -> Requests]
  BY <1>3, <1>4
<1>6. \E m \in Nat : Without(s, i) \in [1..m -> Requests]
  BY <1>2, <1>5
<1>7. Without(s, i) \in Seq(Requests)
  BY <1>6, SeqDef, Zenon
<1>8. Len(Without(s, i)) = n - 1
  BY <1>2, <1>5, <1>7, LenProperties
<1>9. \A j \in 1..(n - 1) : Without(s, i)[j] = g(j)
  BY <1>4
<1> QED BY <1>1, <1>3, <1>7, <1>8, <1>9

\* A request whose reply is set stays a request, and the others stay.
LEMMA RepliedType ==
  ASSUME NEW s \in Seq(Requests), NEW i \in 1..Len(s), NEW r \in Replies
  PROVE  LET t == [s EXCEPT ![i].reply = r]
         IN  /\ t \in Seq(Requests)
             /\ Len(t) = Len(s)
             /\ t[i] = [s[i] EXCEPT !.reply = r]
             /\ \A j \in 1..Len(s) : j # i => t[j] = s[j]
<1>1. s[i] \in Requests
  OBVIOUS
<1>2. [s[i] EXCEPT !.reply = r] \in Requests
  BY <1>1 DEF Requests
<1> QED BY <1>2

-----------------------------------------------------------------------------
\* Types.

LEMMA TypesStrong == Types => TypeOK
<1> SUFFICES ASSUME Types PROVE TypeOK
  OBVIOUS
<1>1. \A q \in Queues : {version[q], signalled[q], unpublished[q]} \subseteq 0..MaxVersion[q]
  <2> TAKE q \in Queues
  <2>1. version[q] \in Nat /\ signalled[q] \in Nat /\ unpublished[q] \in Nat /\ MaxVersion[q] \in Nat
    BY RealtimeConstants DEF Types, Counters
  <2>2. version[q] <= MaxVersion[q] /\ signalled[q] <= version[q] /\ unpublished[q] <= version[q]
    BY DEF Types
  <2> QED BY <2>1, <2>2
<1> QED BY <1>1 DEF Types, TypeOK, Requests, Replies

LEMMA TypesInit == Init => Types
<1> SUFFICES ASSUME Init PROVE Types
  OBVIOUS
<1>1. \A w \in Watchers : <<Asked(selected[w])>> \in Seq(Requests)
  BY DEF Init, Asked, Requests, Replies
<1>2. fetches \in [Watchers -> Seq(Requests)]
  BY <1>1 DEF Init
<1>3. \A q \in Queues : MaxVersion[q] \in Nat
  BY RealtimeConstants
<1>4. MaxFaults \in Nat
  BY RealtimeConstants
<1> QED BY <1>2, <1>3, <1>4 DEF Init, Types, Counters

\* A commit raises the version of its queue; only then is a signal owed.
LEMMA TypesCommit ==
  ASSUME Types, NEW q \in Queues, NEW target \in Queues,
         CommitTransition(q) \/ CommitTransfer(q, target) \/ CommitUpdate(q)
  PROVE  Types'
<1> DEFINE Rises == /\ version \in Counters /\ signalled \in Counters /\ unpublished \in Counters
                    /\ \A x \in Queues : /\ version[x] <= MaxVersion[x]
                                         /\ signalled[x] <= version[x]
                                         /\ unpublished[x] <= version[x]
<1>1. MaxVersion \in [Queues -> Nat]
  BY RealtimeConstants
<1>2. Rises
  BY DEF Types
<1>3. UNCHANGED <<Page, faults>>
  BY DEF CommitTransition, CommitTransfer, CommitUpdate
<1>4. CASE CommitTransition(q)
  <2>1. Rises'
    BY <1>1, <1>2, <1>4 DEF CommitTransition, Counters
  <2> QED BY <1>3, <2>1 DEF Page, Types
<1>5. CASE CommitTransfer(q, target)
  <2>1. Rises'
    BY <1>1, <1>2, <1>5 DEF CommitTransfer, Counters
  <2> QED BY <1>3, <2>1 DEF Page, Types
<1>6. CASE CommitUpdate(q)
  <2>1. Rises'
    BY <1>1, <1>2, <1>6 DEF CommitUpdate, Counters
  <2> QED BY <1>3, <2>1 DEF Page, Types
<1> QED BY <1>4, <1>5, <1>6

LEMMA TypesPublish ==
  ASSUME Types, NEW q \in Queues, Publish(q)
  PROVE  Types'
<1>1. wire' \in [Watchers -> Seq({"ready", "signal"})]
  BY DEF Types, Publish
<1> QED BY <1>1 DEF Types, Publish, Committed, Counters

\* Steps of a page and of what it asked for.
LEMMA TypesPage ==
  ASSUME Types, NEW w \in Watchers,
         \/ PageStep(w) \/ BecomeVisible(w) \/ Act(w) \/ DropStream(w)
         \/ \E q \in Queues : SelectQueue(w, q)
         \/ \E i \in 1..MaxFetches : FailFetch(w, i)
  PROVE  Types'
<1> USE DEF Types, Committed
<1>0. fetches[w] \in Seq(Requests) /\ DOMAIN fetches[w] = 1..Len(fetches[w])
  <2>1. fetches[w] \in Seq(Requests)
    OBVIOUS
  <2> QED BY <2>1
<1>1. CASE OpenStream(w)
  <2>1. Greeting \in Seq({"ready", "signal"})
    BY DEF Greeting
  <2>2. wire' \in [Watchers -> Seq({"ready", "signal"})]
    BY <1>1, <2>1 DEF OpenStream
  <2> QED BY <1>1, <2>2 DEF OpenStream
<1>2. CASE Reconnect(w)
  BY <1>2 DEF Reconnect
<1>3. CASE HandleEvent(w)
  <2>1. Tail(wire[w]) \in Seq({"ready", "signal"})
    BY <1>3, HeadTailProperties DEF HandleEvent
  <2>2. Append(fetches[w], Asked(selected[w])) \in Seq(Requests)
    BY AskedType
  <2> QED BY <1>3, <2>1, <2>2 DEF HandleEvent, Fetching
<1>4. CASE BecomeVisible(w)
  <2>1. Append(fetches[w], Asked(selected[w])) \in Seq(Requests)
    BY AskedType
  <2> QED BY <1>4, <2>1 DEF BecomeVisible, Fetching
<1>5. CASE DropStream(w)
  BY <1>5, RealtimeConstants DEF DropStream, Fault
<1>6. ASSUME NEW q \in Queues, SelectQueue(w, q) PROVE Types'
  <2>1. Append(fetches[w], Asked(q)) \in Seq(Requests)
    BY AskedType
  <2> QED BY <1>6, <2>1 DEF SelectQueue, Fetching
<1>7. ASSUME NEW i \in 1..MaxFetches, AnswerFetch(w, i) PROVE Types'
  <2>1. i \in 1..Len(fetches[w])
    BY <1>0, <1>7 DEF AnswerFetch
  <2>2. fetches[w][i] \in Requests
    BY <1>0, <2>1
  <2>3. version[fetches[w][i].queue] \in Replies
    BY <2>2 DEF Counters, Requests, Replies
  <2>4. [fetches[w] EXCEPT ![i].reply = version[fetches[w][i].queue]] \in Seq(Requests)
    BY <1>0, <2>1, <2>3, RepliedType
  <2> QED BY <1>7, <2>4 DEF AnswerFetch
<1>8. ASSUME NEW i \in 1..MaxFetches, FailFetch(w, i) PROVE Types'
  <2>1. i \in 1..Len(fetches[w])
    BY <1>0, <1>8 DEF FailFetch
  <2>2. [fetches[w] EXCEPT ![i].reply = Failed] \in Seq(Requests)
    BY <1>0, <2>1, RepliedType DEF Replies
  <2> QED BY <1>8, <2>2, RealtimeConstants DEF FailFetch, Fault
<1>9. ASSUME NEW i \in 1..MaxFetches, ReceiveReply(w, i) PROVE Types'
  <2>1. i \in 1..Len(fetches[w])
    BY <1>0, <1>9 DEF ReceiveReply
  <2>2. fetches[w][i] \in Requests
    BY <1>0, <2>1
  <2>3. /\ fetches[w][i].queue \in Queues
        /\ fetches[w][i].reply # Failed => fetches[w][i].reply \in Nat
    BY <1>9, <2>2 DEF ReceiveReply, Requests, Replies
  <2>4. shown' \in [Watchers -> [queue : Queues, version : Nat] \cup {Nothing}]
    BY <1>9, <2>3 DEF ReceiveReply
  <2>5. Without(fetches[w], i) \in Seq(Requests)
    BY <1>0, <2>1, WithoutType
  <2>6. strayed' \in [Watchers -> BOOLEAN] /\ error' \in [Watchers -> BOOLEAN]
    BY <1>9 DEF ReceiveReply
  <2> QED BY <1>9, <2>4, <2>5, <2>6 DEF ReceiveReply
<1>10. CASE Act(w)
  BY <1>10 DEF Act
<1>11. CASE AnswerAct(w)
  <2>1. acting[w] \in Queues
    BY <1>11 DEF AnswerAct
  <2> DEFINE f == [Asked(acting[w]) EXCEPT !.act = TRUE]
  <2>2. f \in Requests
    BY <2>1 DEF Asked, Requests, Replies
  <2> HIDE DEF f
  <2>3. Append(fetches[w], f) \in Seq(Requests)
    BY <1>0, <2>2
  <2>4. fetches' \in [Watchers -> Seq(Requests)] /\ acting' \in [Watchers -> Queues \cup {NoQueue}]
    BY <1>11, <2>3 DEF AnswerAct, f
  <2> QED BY <1>11, <2>4 DEF AnswerAct
<1> QED BY <1>1, <1>2, <1>3, <1>4, <1>5, <1>6, <1>7, <1>8, <1>9, <1>10, <1>11 DEF PageStep

LEMMA TypesRestart ==
  ASSUME Types, RestartServer
  PROVE  Types'
<1> USE DEF RestartServer
<1>1. /\ wire' \in [Watchers -> Seq({"ready", "signal"})]
      /\ stream' \in [Watchers -> {"connecting", "open", "waiting"}]
      /\ unpublished' \in Counters /\ \A q \in Queues : unpublished'[q] = 0
  BY DEF Types, Counters
<1>2. ASSUME NEW w \in Watchers PROVE fetches'[w] \in Seq(Requests)
  <2>1. fetches[w] \in Seq(Requests)
    BY DEF Types
  <2>2. Len(fetches[w]) \in Nat /\ DOMAIN fetches[w] = 1..Len(fetches[w])
    BY <2>1
  <2>3. \A i \in 1..Len(fetches[w]) : fetches[w][i] \in Requests
    BY <2>1
  <2>4. \A i \in 1..Len(fetches[w]) : [fetches[w][i] EXCEPT !.reply = Failed] \in Requests
    BY <2>3 DEF Requests, Replies
  <2>5. fetches'[w] \in [1..Len(fetches[w]) -> Requests]
    BY <2>2, <2>3, <2>4
  <2>6. \E n \in Nat : fetches'[w] \in [1..n -> Requests]
    BY <2>2, <2>5
  <2> HIDE DEF RestartServer
  <2> QED BY <2>6, SeqDef, Zenon
<1>3. fetches' \in [Watchers -> Seq(Requests)]
  BY <1>2
<1>4. faults' \in 0..MaxFaults
  BY RealtimeConstants DEF Fault, Types
<1>5. \A q \in Queues : version[q] \in Nat
  BY DEF Types, Counters
<1>6. UNCHANGED <<version, signalled, customers, selected, shown, error, acting, strayed>>
  BY DEF Committed
<1> HIDE DEF RestartServer
<1> QED BY <1>1, <1>3, <1>4, <1>5, <1>6 DEF Types

LEMMA TypesNext == Types /\ [Next]_vars => Types'
<1> SUFFICES ASSUME Types, [Next]_vars PROVE Types'
  OBVIOUS
<1>1. CASE UNCHANGED vars
  BY <1>1 DEF vars, Types
<1>2. CASE Next
  BY <1>2, TypesCommit, TypesPublish, TypesPage, TypesRestart DEF Next
<1> QED BY <1>1, <1>2

\* Versions, signals, streams, requests and what is shown keep their types.
THEOREM RealtimeTypes == Spec => []TypeOK
<1> QED BY TypesStrong, TypesInit, TypesNext, PTL DEF Spec
-----------------------------------------------------------------------------
\* A quiet page.

\* The i-th request of a page is its last one for the queue it is on.
LastFor(w, i) ==
  /\ i \in DOMAIN fetches[w]
  /\ fetches[w][i].queue = selected[w]
  /\ \A k \in DOMAIN fetches[w] : k > i => fetches[w][k].queue # selected[w]

\* A request that leaves nothing signalled to be missed, if no reply strays: it is still to
\* be answered, or failed, or was answered after the last commit that is signalled.
Fresh(w, f) == \/ f.overtaken
               \/ f.reply \in {Unanswered, Failed}
               \/ f.reply >= signalled[selected[w]]

\* What the page comes to show misses no signal, unless a reply strays: its last request for
\* its queue decides, and if it has none, what it shows already.
HasSignalled(w) ==
  /\ \A i \in DOMAIN fetches[w] : LastFor(w, i) => Fresh(w, fetches[w][i])
  /\ \/ \E i \in DOMAIN fetches[w] : fetches[w][i].queue = selected[w]
     \/ error[w] \/ strayed[w] \/ ShowsSignalled(w)

\* A connected page misses no signal, unless one is still on its way.
RealtimeInv ==
  \A w \in Watchers :
    stream[w] = "open" => \/ unpublished[selected[w]] > 0
                          \/ wire[w] # <<>>
                          \/ HasSignalled(w)

LEMMA RealtimeInvInit == Init => RealtimeInv
  BY DEF Init, RealtimeInv

\* A page that nothing touches misses no more than it did.
LEMMA Untouched ==
  ASSUME NEW w \in Watchers, HasSignalled(w),
         selected'[w] = selected[w], fetches'[w] = fetches[w], shown'[w] = shown[w],
         error'[w] = error[w], strayed'[w] = strayed[w],
         signalled'[selected[w]] = signalled[selected[w]]
  PROVE  HasSignalled(w)'
BY DEF HasSignalled, LastFor, Fresh, ShowsSignalled

\* A request for the selected queue misses nothing, and one for another queue changes nothing.
LEMMA AskedAgain ==
  ASSUME NEW w \in Watchers, fetches[w] \in Seq(Requests), NEW f \in Requests,
         fetches'[w] = Append(fetches[w], f), f.reply = Unanswered,
         UNCHANGED <<signalled, selected, shown, error, strayed>>,
         f.queue = selected[w] \/ HasSignalled(w)
  PROVE  HasSignalled(w)'
<1>1. PICK n \in Nat : n = Len(fetches[w])
  OBVIOUS
<1>2. /\ DOMAIN fetches[w] = 1..n /\ DOMAIN fetches'[w] = 1..(n + 1)
      /\ fetches'[w][n + 1] = f
      /\ \A k \in 1..n : fetches'[w][k] = fetches[w][k]
  BY <1>1
<1>3. CASE f.queue = selected[w]
  <2>1. ASSUME NEW i \in DOMAIN fetches'[w], LastFor(w, i)' PROVE fetches'[w][i] = f
    <3>1. i = n + 1
      <4>1. n + 1 \in DOMAIN fetches'[w] /\ fetches'[w][n + 1].queue = selected'[w]
        BY <1>2, <1>3
      <4> QED BY <1>2, <2>1, <4>1 DEF LastFor
    <3> QED BY <1>2, <3>1
  <2>2. n + 1 \in DOMAIN fetches'[w] /\ fetches'[w][n + 1].queue = selected'[w]
    BY <1>2, <1>3
  <2> QED BY <2>1, <2>2 DEF HasSignalled, Fresh
<1>4. CASE f.queue # selected[w]
  <2>1. ASSUME NEW i \in DOMAIN fetches'[w], LastFor(w, i)'
        PROVE  Fresh(w, fetches[w][i])' /\ fetches'[w][i] = fetches[w][i]
    <3>1. i \in 1..n /\ fetches'[w][i] = fetches[w][i]
      BY <1>2, <1>4, <2>1 DEF LastFor
    <3>2. LastFor(w, i)
      <4>1. ASSUME NEW k \in 1..n, k > i PROVE fetches[w][k].queue # selected[w]
        <5>1. k \in DOMAIN fetches'[w] /\ fetches'[w][k] = fetches[w][k]
          BY <1>2
        <5> QED BY <2>1, <4>1, <5>1 DEF LastFor
      <4>2. fetches[w][i].queue = selected[w]
        BY <2>1, <3>1 DEF LastFor
      <4> QED BY <1>2, <3>1, <4>1, <4>2 DEF LastFor
    <3> QED BY <1>2, <1>4, <3>1, <3>2 DEF HasSignalled, Fresh
  <2>2. \/ \E i \in DOMAIN fetches'[w] : fetches'[w][i].queue = selected'[w]
        \/ error'[w] \/ strayed'[w] \/ ShowsSignalled(w)'
    BY <1>2, <1>4 DEF HasSignalled, ShowsSignalled
  <2> QED BY <2>1, <2>2 DEF HasSignalled, Fresh
<1> QED BY <1>3, <1>4

\* A commit that signals owes the signal until it is published.
LEMMA RealtimeInvCommit ==
  ASSUME Types, RealtimeInv, NEW q \in Queues, NEW target \in Queues,
         CommitTransition(q) \/ CommitTransfer(q, target) \/ CommitUpdate(q)
  PROVE  RealtimeInv'
<1> SUFFICES ASSUME NEW w \in Watchers
             PROVE  stream'[w] = "open" => \/ unpublished'[selected'[w]] > 0
                                           \/ wire'[w] # <<>>
                                           \/ HasSignalled(w)'
  BY DEF RealtimeInv
<1>1. UNCHANGED <<selected, stream, wire, fetches, shown, error, strayed>>
  BY DEF CommitTransition, CommitTransfer, CommitUpdate, Page
<1>2. \/ signalled'[selected[w]] = signalled[selected[w]] /\ unpublished'[selected[w]] = unpublished[selected[w]]
      \/ unpublished'[selected[w]] > 0
  BY DEF CommitTransition, CommitTransfer, CommitUpdate, Types, Counters
<1> QED BY <1>1, <1>2, Untouched DEF RealtimeInv

\* What is published reaches every page that is connected to the queue.
LEMMA RealtimeInvPublish ==
  ASSUME Types, RealtimeInv, NEW q \in Queues, Publish(q)
  PROVE  RealtimeInv'
<1> SUFFICES ASSUME NEW w \in Watchers
             PROVE  stream'[w] = "open" => \/ unpublished'[selected'[w]] > 0
                                           \/ wire'[w] # <<>>
                                           \/ HasSignalled(w)'
  BY DEF RealtimeInv
<1>1. UNCHANGED <<signalled, selected, stream, fetches, shown, error, strayed>>
  BY DEF Publish, Committed
<1>2. CASE stream[w] = "open" /\ selected[w] = q
  <2>1. wire[w] \in Seq({"ready", "signal"}) /\ wire'[w] = Append(wire[w], "signal")
    BY <1>2 DEF Publish, Types
  <2>2. wire'[w] # <<>>
    BY <2>1
  <2> QED BY <2>2
<1>3. CASE ~(stream[w] = "open" /\ selected[w] = q)
  <2>1. stream[w] = "open" => wire'[w] = wire[w] /\ unpublished'[selected[w]] = unpublished[selected[w]]
    BY <1>3 DEF Publish, Types, Counters
  <2> QED BY <1>1, <2>1, Untouched DEF RealtimeInv
<1> QED BY <1>2, <1>3

\* A request of w is answered from the queue's state, or fails.
SetsReply(w, i, r) ==
  /\ fetches'[w] = [fetches[w] EXCEPT ![i].reply = r]
  /\ r \in {Unanswered, Failed} \/ r = version[fetches[w][i].queue]
  /\ UNCHANGED <<signalled, selected, shown, error, strayed>>

LEMMA Replied ==
  ASSUME Types, NEW w \in Watchers, HasSignalled(w), NEW i \in 1..Len(fetches[w]), NEW r \in Replies,
         SetsReply(w, i, r)
  PROVE  HasSignalled(w)'
<1>1. PICK n \in Nat : n = Len(fetches[w]) /\ fetches[w] \in Seq(Requests)
  BY DEF Types
<1>2. /\ DOMAIN fetches[w] = 1..n /\ DOMAIN fetches'[w] = 1..n
      /\ \A k \in 1..n : fetches[w][k] \in Requests
      /\ fetches'[w][i] = [fetches[w][i] EXCEPT !.reply = r]
      /\ \A k \in 1..n : k # i => fetches'[w][k] = fetches[w][k]
  BY <1>1, RepliedType DEF SetsReply
<1>3. fetches'[w][i].queue = fetches[w][i].queue /\ fetches'[w][i].reply = r
  BY <1>1, <1>2 DEF Requests
<1>4. \A k \in 1..n : fetches'[w][k].queue = fetches[w][k].queue
  BY <1>2, <1>3
<1>5. ASSUME NEW k \in DOMAIN fetches'[w], LastFor(w, k)' PROVE Fresh(w, fetches[w][k])'
  <2>1. LastFor(w, k)
    BY <1>2, <1>4, <1>5 DEF LastFor, SetsReply
  <2>2. version[selected[w]] >= signalled[selected[w]]
    BY DEF Types, Counters
  <2>3. CASE k = i
    BY <1>3, <2>1, <2>2, <2>3 DEF SetsReply, LastFor, Fresh
  <2>4. CASE k # i
    BY <1>2, <2>1, <2>4 DEF SetsReply, HasSignalled, Fresh
  <2> QED BY <2>3, <2>4
<1>6. \/ \E k \in DOMAIN fetches'[w] : fetches'[w][k].queue = selected'[w]
      \/ error'[w] \/ strayed'[w] \/ ShowsSignalled(w)'
  BY <1>2, <1>4 DEF HasSignalled, ShowsSignalled, SetsReply
<1> QED BY <1>5, <1>6 DEF HasSignalled

\* A reply that arrives is the last word if it answers the last request for the selected
\* queue and no other is left; otherwise it strays, or the requests left decide as before.
LEMMA Received ==
  ASSUME Types, NEW w \in Watchers, HasSignalled(w), NEW i \in 1..MaxFetches, ReceiveReply(w, i)
  PROVE  HasSignalled(w)'
<1>1. PICK n \in Nat : n = Len(fetches[w]) /\ fetches[w] \in Seq(Requests)
  BY DEF Types
<1>2. DOMAIN fetches[w] = 1..n /\ i \in 1..n
  BY <1>1 DEF ReceiveReply
<1>3. /\ DOMAIN fetches'[w] = 1..(n - 1)
      /\ UNCHANGED <<signalled, selected>>
      /\ strayed'[w] = (fetches[w][i].overtaken \/ fetches[w][i].queue # selected[w])
      /\ error'[w] = (fetches[w][i].reply = Failed)
      /\ fetches[w][i].reply # Failed =>
           shown'[w] = [queue |-> fetches[w][i].queue, version |-> fetches[w][i].reply]
      /\ fetches[w][i].reply # Unanswered
      /\ \A j \in 1..(n - 1) :
           LET f == fetches'[w][j]
           IN  IF j < i THEN f.queue = fetches[w][j].queue /\ f.reply = fetches[w][j].reply
                             /\ f.overtaken = (fetches[w][j].overtaken \/ fetches[w][j].queue = fetches[w][i].queue)
               ELSE f = fetches[w][j + 1]
  <2>1. fetches'[w] = Without(fetches[w], i)
    BY DEF ReceiveReply, Types
  <2>2. /\ fetches'[w] \in Seq(Requests) /\ Len(fetches'[w]) = n - 1
        /\ \A j \in 1..(n - 1) :
             LET f == fetches'[w][j]
             IN  IF j < i THEN f.queue = fetches[w][j].queue /\ f.reply = fetches[w][j].reply
                               /\ f.overtaken = (fetches[w][j].overtaken \/ fetches[w][j].queue = fetches[w][i].queue)
                 ELSE f = fetches[w][j + 1]
    BY <1>1, <1>2, <2>1, WithoutType
  <2>3. DOMAIN fetches'[w] = 1..(n - 1)
    BY <2>2
  <2> QED BY <2>2, <2>3 DEF ReceiveReply, Types, Committed
<1>4. ASSUME NEW j \in DOMAIN fetches'[w], LastFor(w, j)' PROVE Fresh(w, fetches[w][j])'
  <2> DEFINE old == IF j < i THEN j ELSE j + 1
  <2>1. /\ j \in 1..(n - 1) /\ old \in 1..n /\ old # i
        /\ fetches[w][old].queue = selected[w]
        /\ fetches'[w][j].queue = fetches[w][old].queue
        /\ fetches'[w][j].reply = fetches[w][old].reply
        /\ fetches[w][old].overtaken => fetches'[w][j].overtaken
    <3>1. j \in 1..(n - 1) /\ fetches'[w][j].queue = selected[w]
      BY <1>3, <1>4 DEF LastFor
    <3>2. CASE j < i
      <4>1. old = j /\ j \in 1..n
        BY <1>2, <3>1, <3>2
      <4>2. /\ fetches'[w][j].queue = fetches[w][j].queue
            /\ fetches'[w][j].reply = fetches[w][j].reply
            /\ fetches[w][j].overtaken => fetches'[w][j].overtaken
        BY <1>3, <3>1, <3>2
      <4>3. j # i
        BY <1>2, <3>1, <3>2
      <4> QED BY <3>1, <4>1, <4>2, <4>3
    <3>3. CASE ~(j < i)
      <4>1. old = j + 1 /\ j + 1 \in 1..n /\ j + 1 # i
        BY <1>2, <3>1, <3>3
      <4>2. fetches'[w][j] = fetches[w][j + 1]
        BY <1>3, <3>1, <3>3
      <4> QED BY <3>1, <4>1, <4>2
    <3> QED BY <3>2, <3>3
  <2>2. CASE LastFor(w, old)
    BY <1>2, <1>3, <2>1, <2>2 DEF HasSignalled, Fresh
  <2>3. CASE ~LastFor(w, old)
    <3>1. PICK k \in 1..n : k > old /\ fetches[w][k].queue = selected[w]
      BY <1>2, <2>1, <2>3 DEF LastFor
    <3>2. CASE k = i
      <4>1. j < i /\ fetches[w][j].queue = fetches[w][i].queue
        BY <2>1, <3>1, <3>2
      <4> QED BY <1>3, <2>1, <4>1 DEF Fresh
    <3>3. CASE k # i
      <4> DEFINE new == IF k < i THEN k ELSE k - 1
      <4>1. new \in 1..(n - 1) /\ new > j
        BY <1>2, <2>1, <3>1, <3>3
      <4>2. fetches'[w][new].queue = selected'[w]
        <5>1. CASE k < i
          BY <1>2, <1>3, <3>1, <4>1, <5>1
        <5>2. CASE ~(k < i)
          <6>1. ~(new < i) /\ new + 1 = k
            BY <1>2, <3>1, <3>3, <5>2
          <6> QED BY <1>2, <1>3, <3>1, <4>1, <6>1
        <5> QED BY <5>1, <5>2
      <4> QED BY <1>3, <1>4, <4>1, <4>2 DEF LastFor
    <3> QED BY <3>2, <3>3
  <2> QED BY <2>2, <2>3
<1>5. ASSUME \A j \in DOMAIN fetches'[w] : fetches'[w][j].queue # selected'[w]
      PROVE  error'[w] \/ strayed'[w] \/ ShowsSignalled(w)'
  <2>1. ASSUME NEW k \in 1..n, k # i PROVE fetches[w][k].queue # selected[w]
    <3> DEFINE new == IF k < i THEN k ELSE k - 1
    <3>1. new \in 1..(n - 1)
      BY <1>2, <2>1
    <3>2. fetches'[w][new].queue = fetches[w][k].queue
      <4>1. CASE k < i
        BY <1>3, <3>1, <4>1
      <4>2. CASE ~(k < i)
        <5>1. ~(new < i) /\ new + 1 = k
          BY <1>2, <2>1, <4>2
        <5> QED BY <1>3, <3>1, <5>1
      <4> QED BY <4>1, <4>2
    <3> QED BY <1>3, <1>5, <3>1, <3>2
  <2>2. CASE fetches[w][i].queue = selected[w]
    <3>1. LastFor(w, i)
      BY <1>2, <2>1, <2>2 DEF LastFor
    <3>2. Fresh(w, fetches[w][i])
      BY <1>2, <3>1 DEF HasSignalled
    <3>3. CASE fetches[w][i].overtaken \/ fetches[w][i].reply = Failed
      BY <1>3, <3>3
    <3>4. CASE fetches[w][i].reply # Failed /\ fetches[w][i].reply >= signalled[selected[w]]
      <4>1. shown'[w].queue = selected[w] /\ shown'[w].version = fetches[w][i].reply
        BY <1>3, <2>2, <3>4
      <4> QED BY <1>3, <3>4, <4>1 DEF ShowsSignalled
    <3> QED BY <1>3, <3>2, <3>3, <3>4 DEF Fresh
  <2>3. CASE fetches[w][i].queue # selected[w]
    BY <1>3, <2>3
  <2> QED BY <2>2, <2>3
<1> QED BY <1>4, <1>5 DEF HasSignalled

\* A step of one page, or of what it asked for.
LEMMA RealtimeInvPage ==
  ASSUME Types, RealtimeInv, NEW w \in Watchers,
         \/ PageStep(w) \/ BecomeVisible(w) \/ Act(w) \/ DropStream(w)
         \/ \E q \in Queues : SelectQueue(w, q)
         \/ \E i \in 1..MaxFetches : FailFetch(w, i)
  PROVE  RealtimeInv'
<1> DEFINE Missed(v) == stream[v] = "open" => \/ unpublished[selected[v]] > 0
                                              \/ wire[v] # <<>>
                                              \/ HasSignalled(v)
<1>1. fetches[w] \in Seq(Requests) /\ selected[w] \in Queues
  BY DEF Types
<1>2. UNCHANGED <<signalled, unpublished>>
  BY DEF PageStep, OpenStream, Reconnect, HandleEvent, AnswerFetch, ReceiveReply, BecomeVisible,
         DropStream, SelectQueue, FailFetch, Act, AnswerAct, Committed
<1>3. ASSUME NEW v \in Watchers, v # w PROVE Missed(v)'
  <2>1. /\ selected'[v] = selected[v] /\ fetches'[v] = fetches[v] /\ shown'[v] = shown[v]
        /\ error'[v] = error[v] /\ strayed'[v] = strayed[v]
        /\ stream'[v] = stream[v] /\ wire'[v] = wire[v]
    BY <1>3 DEF PageStep, OpenStream, Reconnect, HandleEvent, AnswerFetch, ReceiveReply, Types,
                BecomeVisible, DropStream, SelectQueue, FailFetch, Act, AnswerAct, Fetching
  <2> QED BY <1>2, <2>1, Untouched DEF RealtimeInv
<1>4. CASE OpenStream(w)
  <2>1. stream'[w] = "open" => wire'[w] # <<>>
    <3>1. Greeting # <<>>
      BY DEF Greeting
    <3>2. stream'[w] = "open" => wire'[w] = Greeting
      BY <1>4 DEF OpenStream, Types
    <3> QED BY <3>1, <3>2
  <2> QED BY <1>3, <2>1 DEF RealtimeInv
<1>5. CASE Reconnect(w) \/ DropStream(w) \/ \E q \in Queues : SelectQueue(w, q)
  <2>1. stream'[w] # "open"
    BY <1>5 DEF Reconnect, DropStream, SelectQueue, Types
  <2> QED BY <1>3, <2>1 DEF RealtimeInv
<1>6. CASE HandleEvent(w) \/ BecomeVisible(w)
  <2>1. /\ fetches'[w] = Append(fetches[w], Asked(selected[w]))
        /\ UNCHANGED <<signalled, selected, shown, error, strayed>>
    BY <1>1, <1>6 DEF HandleEvent, BecomeVisible, Fetching, Types, Committed
  <2>2. /\ Asked(selected[w]) \in Requests
        /\ Asked(selected[w]).queue = selected[w] /\ Asked(selected[w]).reply = Unanswered
    BY <1>1 DEF Asked, Requests, Replies
  <2>3. HasSignalled(w)'
    BY <1>1, <2>1, <2>2, AskedAgain
  <2> QED BY <1>3, <2>3 DEF RealtimeInv
<1>7. ASSUME NEW i \in 1..MaxFetches, AnswerFetch(w, i) \/ FailFetch(w, i) PROVE RealtimeInv'
  <2>1. /\ i \in 1..Len(fetches[w])
        /\ UNCHANGED <<signalled, selected, stream, wire, shown, error, strayed>>
    BY <1>1, <1>7 DEF AnswerFetch, FailFetch, Committed
  <2>2. fetches[w][i] \in Requests
    BY <1>1, <2>1
  <2>3. PICK r \in Replies : SetsReply(w, i, r)
    <3>1. CASE AnswerFetch(w, i)
      <4>1. version[fetches[w][i].queue] \in Replies
        BY <2>2 DEF Types, Counters, Requests, Replies
      <4> QED BY <2>1, <3>1, <4>1 DEF AnswerFetch, Types, SetsReply
    <3>2. CASE FailFetch(w, i)
      <4>1. Failed \in Replies
        BY DEF Replies
      <4> QED BY <2>1, <3>2, <4>1 DEF FailFetch, Types, SetsReply
    <3> QED BY <1>7, <3>1, <3>2
  <2>4. HasSignalled(w) => HasSignalled(w)'
    BY <2>1, <2>3, Replied
  <2> QED BY <1>2, <1>3, <2>1, <2>4 DEF RealtimeInv
<1>8. ASSUME NEW i \in 1..MaxFetches, ReceiveReply(w, i) PROVE RealtimeInv'
  <2>1. HasSignalled(w) => HasSignalled(w)'
    BY <1>8, Received
  <2>2. UNCHANGED <<selected, stream, wire>>
    BY <1>8 DEF ReceiveReply
  <2> QED BY <1>2, <1>3, <2>1, <2>2 DEF RealtimeInv
<1>9. CASE Act(w)
  <2>1. UNCHANGED <<signalled, selected, stream, wire, fetches, shown, error, strayed>>
    BY <1>9 DEF Act, Committed
  <2> QED BY <1>2, <1>3, <2>1, Untouched DEF RealtimeInv
<1>10. CASE AnswerAct(w)
  <2>1. UNCHANGED <<signalled, selected, stream, wire, shown, strayed>> /\ acting[w] \in Queues
    BY <1>10 DEF AnswerAct, Committed, Types
  <2>2. CASE error' = [error EXCEPT ![w] = TRUE] /\ UNCHANGED fetches
    <3>1. error'[w]
      BY <2>2 DEF Types
    <3>2. HasSignalled(w) => HasSignalled(w)'
      BY <2>1, <2>2, <3>1 DEF HasSignalled, LastFor, Fresh
    <3> QED BY <1>2, <1>3, <2>1, <3>2 DEF RealtimeInv
  <2>3. CASE UNCHANGED error /\ fetches'[w] = Append(fetches[w], [Asked(acting[w]) EXCEPT !.act = TRUE])
    <3> DEFINE f == [Asked(acting[w]) EXCEPT !.act = TRUE]
    <3>1. f \in Requests /\ f.reply = Unanswered
      BY <2>1 DEF Asked, Requests, Replies
    <3> HIDE DEF f
    <3>2. fetches'[w] = Append(fetches[w], f)
      BY <2>3 DEF f
    <3>3. HasSignalled(w) => HasSignalled(w)'
      BY <1>1, <2>1, <2>3, <3>1, <3>2, AskedAgain
    <3> QED BY <1>2, <1>3, <2>1, <3>3 DEF RealtimeInv
  <2> QED BY <1>10, <2>2, <2>3 DEF AnswerAct, Types
<1> QED BY <1>4, <1>5, <1>6, <1>7, <1>8, <1>9, <1>10 DEF PageStep

\* A restart disconnects every page.
LEMMA RealtimeInvRestart ==
  ASSUME Types, RealtimeInv, RestartServer
  PROVE  RealtimeInv'
BY DEF RealtimeInv, RestartServer, Types

LEMMA RealtimeInvNext == Types /\ RealtimeInv /\ [Next]_vars => RealtimeInv'
<1> SUFFICES ASSUME Types, RealtimeInv, [Next]_vars PROVE RealtimeInv'
  OBVIOUS
<1>1. CASE UNCHANGED vars
  BY <1>1 DEF vars, RealtimeInv, HasSignalled, LastFor, Fresh, ShowsSignalled
<1>2. CASE Next
  BY <1>2, RealtimeInvCommit, RealtimeInvPublish, RealtimeInvPage, RealtimeInvRestart DEF Next
<1> QED BY <1>1, <1>2

\* A connected page that expects nothing shows the selected queue with every change that was
\* signalled, or an error, whatever was dropped, lost, restarted, clicked or selected before,
\* unless the last reply to arrive is one that strayed, which the page does not notice.
THEOREM QuietPageIsCurrent == Spec => []QuietShowsCurrent
<1>1. Types /\ RealtimeInv => QuietShowsCurrent
  <2> SUFFICES ASSUME Types, RealtimeInv, NEW w \in Watchers, Quiet(w)
               PROVE  ShowsSignalled(w) \/ error[w] \/ strayed[w]
    BY DEF QuietShowsCurrent
  <2>1. HasSignalled(w)
    BY DEF Types, Counters, RealtimeInv, Quiet
  <2>2. DOMAIN fetches[w] = {}
    BY DEF Quiet
  <2> QED BY <2>1, <2>2 DEF HasSignalled
<1>2. Spec => []Types
  BY TypesInit, TypesNext, PTL DEF Spec
<1>3. Types /\ RealtimeInv /\ [Next]_vars => RealtimeInv'
  BY RealtimeInvNext
<1> QED BY <1>1, <1>2, <1>3, RealtimeInvInit, PTL DEF Spec
=============================================================================
