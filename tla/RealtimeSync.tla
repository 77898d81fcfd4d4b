---------------------------- MODULE RealtimeSync ----------------------------
(***************************************************************************)
(* How an open page follows a queue: the signals services publish after    *)
(* they commit (realtime/bus.ts), the event stream that carries them       *)
(* (app/api/queues/[queueId]/stream/route.ts), and the page that reads the *)
(* queue again on each of them (components/useQueueStream.ts,              *)
(* app/staff/page.tsx).                                                    *)
(*                                                                         *)
(* The state of a queue is a version number: each commit makes a new one.  *)
(***************************************************************************)
EXTENDS Integers, Sequences

CONSTANTS Queues,
          Watchers,          \* open pages, each following one queue at a time
          Operations,        \* what is committed: "transition", "transferTicket", "updateQueue"
          MaxVersion,        \* bound: versions of each queue
          MaxFetches,        \* bound: requests of one page in flight
          MaxFaults          \* bound: dropped connections, restarts and failed requests

ASSUME RealtimeConstants ==
  /\ Operations \subseteq {"transition", "transferTicket", "updateQueue"}
  /\ MaxVersion \in [Queues -> Nat]
  /\ {MaxFetches, MaxFaults} \subseteq Nat

VARIABLES version,       \* committed state of each queue
          signalled,     \* its version at the last commit that publishes a signal
          unpublished,   \* commits of each queue whose signal is still to be published
          customers,     \* the pages of users without ticket:read:organization
          selected,      \* the queue each page is on
          stream,        \* the page's EventSource
          wire,          \* events sent on it and not yet handled
          fetches,       \* the page's requests in flight, oldest first
          shown,         \* what the page shows: a queue and the version of it
          error,         \* whether the page shows an error
          acting,        \* the queue whose state the page reads after the POST under way, if any
          strayed,       \* whether what arrived last is of a queue no longer selected, or
                         \* was overtaken by the reply to a later request for its queue
          faults         \* faults so far

vars == <<version, signalled, unpublished, customers, selected, stream, wire, fetches, shown,
          error, acting, strayed, faults>>

\* What only commits change.
Committed == <<version, signalled, customers>>

Unanswered == -1
Failed == -2
NoQueue == "none"

\* A request for the state of q: its reply so far, whether an act of the page waits for it,
\* and whether the reply to a later request for q has arrived before its own.
Asked(q) == [queue |-> q, reply |-> Unanswered, act |-> FALSE, overtaken |-> FALSE]
Nothing == [queue |-> NoQueue, version |-> Unanswered]

\* A page has just been opened on some queue: it reads it and connects to its stream.
Init ==
  /\ version = [q \in Queues |-> 0]
  /\ signalled = [q \in Queues |-> 0]
  /\ unpublished = [q \in Queues |-> 0]
  /\ customers \in SUBSET Watchers
  /\ selected \in [Watchers -> Queues]
  /\ stream = [w \in Watchers |-> "connecting"]
  /\ wire = [w \in Watchers |-> <<>>]
  /\ fetches = [w \in Watchers |-> <<Asked(selected[w])>>]
  /\ shown = [w \in Watchers |-> Nothing]
  /\ error = [w \in Watchers |-> FALSE]
  /\ acting = [w \in Watchers |-> NoQueue]
  /\ strayed = [w \in Watchers |-> FALSE]
  /\ faults = 0

-----------------------------------------------------------------------------
\* The server.

Page == <<customers, selected, stream, wire, fetches, shown, error, acting, strayed>>

\* One state change of a queue, whose signal is published after the commit.
CommitTransition(q) ==
  /\ "transition" \in Operations
  /\ version[q] < MaxVersion[q]
  /\ version' = [version EXCEPT ![q] = @ + 1]
  /\ signalled' = [signalled EXCEPT ![q] = version'[q]]
  /\ unpublished' = [unpublished EXCEPT ![q] = @ + 1]
  /\ UNCHANGED <<Page, faults>>

\* transferTicket changes two queues and publishes for the queue of the moved ticket.
CommitTransfer(q, target) ==
  /\ "transferTicket" \in Operations
  /\ q # target
  /\ version[q] < MaxVersion[q] /\ version[target] < MaxVersion[target]
  /\ version' = [version EXCEPT ![q] = @ + 1, ![target] = @ + 1]
  /\ signalled' = [signalled EXCEPT ![target] = version'[target]]
  /\ unpublished' = [unpublished EXCEPT ![target] = @ + 1]
  /\ UNCHANGED <<Page, faults>>

\* updateQueue can change the status and publishes nothing.
CommitUpdate(q) ==
  /\ "updateQueue" \in Operations
  /\ version[q] < MaxVersion[q]
  /\ version' = [version EXCEPT ![q] = @ + 1]
  /\ UNCHANGED <<signalled, unpublished, Page, faults>>

\* publishQueueEvent: every listener of the queue writes a chunk to its stream.
Publish(q) ==
  /\ unpublished[q] > 0
  /\ unpublished' = [unpublished EXCEPT ![q] = @ - 1]
  /\ wire' = [w \in Watchers |->
                IF stream[w] = "open" /\ selected[w] = q THEN Append(wire[w], "signal") ELSE wire[w]]
  /\ UNCHANGED <<Committed, selected, stream, fetches, shown, error, acting, strayed, faults>>

Unready_Greeting == <<>>

\* What a new stream starts with.
Greeting == <<"ready">>

\* GET /api/queues/{id}/stream: greets and subscribes in one go, or answers 403.
OpenStream(w) ==
  /\ stream[w] = "connecting"
  /\ \/ /\ w \notin customers
        /\ stream' = [stream EXCEPT ![w] = "open"]
        /\ wire' = [wire EXCEPT ![w] = Greeting]
     \/ /\ w \in customers
        /\ stream' = [stream EXCEPT ![w] = "waiting"]
        /\ UNCHANGED wire
  /\ UNCHANGED <<Committed, unpublished, selected, fetches, shown, error, acting, strayed, faults>>

\* The server reads the queue for a request.
AnswerFetch(w, i) ==
  /\ i \in DOMAIN fetches[w]
  /\ fetches[w][i].reply = Unanswered
  /\ fetches' = [fetches EXCEPT ![w][i].reply = version[fetches[w][i].queue]]
  /\ UNCHANGED <<Committed, unpublished, selected, stream, wire, shown, error, acting, strayed, faults>>

-----------------------------------------------------------------------------
\* The page.

\* The read of the selected queue, one more request in flight.
CanFetch(w) == Len(fetches[w]) < MaxFetches
Fetching(w, q) == fetches' = [fetches EXCEPT ![w] = Append(@, Asked(q))]

Deaf_HandleEvent(w) ==
  /\ stream[w] = "open" /\ wire[w] # <<>> /\ CanFetch(w)
  /\ wire' = [wire EXCEPT ![w] = Tail(@)]
  /\ IF Head(wire[w]) = "ready" THEN UNCHANGED fetches ELSE Fetching(w, selected[w])
  /\ UNCHANGED <<Committed, unpublished, selected, stream, shown, error, acting, strayed, faults>>

\* "ready" and every signal do the same: the page reads the queue again.
HandleEvent(w) ==
  /\ stream[w] = "open" /\ wire[w] # <<>> /\ CanFetch(w)
  /\ wire' = [wire EXCEPT ![w] = Tail(@)]
  /\ Fetching(w, selected[w])
  /\ UNCHANGED <<Committed, unpublished, selected, stream, shown, error, acting, strayed, faults>>

\* The tab becomes visible again.
BecomeVisible(w) ==
  /\ CanFetch(w)
  /\ Fetching(w, selected[w])
  /\ UNCHANGED <<Committed, unpublished, selected, stream, wire, shown, error, acting, strayed, faults>>

\* The three seconds after an error are over.
Reconnect(w) ==
  /\ stream[w] = "waiting"
  /\ stream' = [stream EXCEPT ![w] = "connecting"]
  /\ UNCHANGED <<Committed, unpublished, selected, wire, fetches, shown, error, acting, strayed, faults>>

\* The user picks another queue: its stream is opened instead, the queue is read, and
\* what was shown, or was asked, of the other one stays.
SelectQueue(w, q) ==
  /\ q # selected[w] /\ CanFetch(w)
  /\ selected' = [selected EXCEPT ![w] = q]
  /\ stream' = [stream EXCEPT ![w] = "connecting"]
  /\ wire' = [wire EXCEPT ![w] = <<>>]
  /\ Fetching(w, q)
  /\ UNCHANGED <<Committed, unpublished, shown, error, acting, strayed, faults>>

\* The buttons are disabled from a click until the read that follows its POST is shown.
Busy(w) == acting[w] # NoQueue \/ \E i \in DOMAIN fetches[w] : fetches[w][i].act

\* A button of the staff page is clicked: its POST is sent. What the POST commits is one of
\* the commits above.
Act(w) ==
  /\ w \notin customers /\ ~Busy(w) /\ shown[w] # Nothing
  /\ acting' = [acting EXCEPT ![w] = selected[w]]
  /\ UNCHANGED <<Committed, unpublished, selected, stream, wire, fetches, shown, error, strayed, faults>>

\* The POST is refused, or fails, which is shown as an error; or the page goes on to read
\* the queue that was selected at the click, whichever is selected by now.
AnswerAct(w) ==
  /\ acting[w] # NoQueue /\ CanFetch(w)
  /\ acting' = [acting EXCEPT ![w] = NoQueue]
  /\ \/ error' = [error EXCEPT ![w] = TRUE] /\ UNCHANGED fetches
     \/ /\ fetches' = [fetches EXCEPT ![w] = Append(@, [Asked(acting[w]) EXCEPT !.act = TRUE])]
        /\ UNCHANGED error
  /\ UNCHANGED <<Committed, unpublished, selected, stream, wire, shown, strayed, faults>>

\* The requests of s without the i-th, whose reply overtakes those to earlier requests for
\* the same queue.
Without(s, i) ==
  [j \in 1..(Len(s) - 1) |->
     IF j < i THEN [s[j] EXCEPT !.overtaken = @ \/ s[j].queue = s[i].queue] ELSE s[j + 1]]

\* A reply arrives, perhaps before that of an earlier request, and is shown whichever queue
\* it is of; a failure is shown as an error next to what was shown before.
ReceiveReply(w, i) ==
  /\ i \in DOMAIN fetches[w]
  /\ fetches[w][i].reply # Unanswered
  /\ error' = [error EXCEPT ![w] = fetches[w][i].reply = Failed]
  /\ shown' = IF fetches[w][i].reply = Failed THEN shown
              ELSE [shown EXCEPT ![w] = [queue |-> fetches[w][i].queue, version |-> fetches[w][i].reply]]
  /\ strayed' = [strayed EXCEPT ![w] = fetches[w][i].overtaken \/ fetches[w][i].queue # selected[w]]
  /\ fetches' = [fetches EXCEPT ![w] = Without(@, i)]
  /\ UNCHANGED <<Committed, unpublished, selected, stream, wire, acting, faults>>

-----------------------------------------------------------------------------
\* Faults.

Fault == faults < MaxFaults /\ faults' = faults + 1

\* A request fails on its way, or times out.
FailFetch(w, i) ==
  /\ Fault
  /\ i \in DOMAIN fetches[w]
  /\ fetches' = [fetches EXCEPT ![w][i].reply = Failed]
  /\ UNCHANGED <<Committed, unpublished, selected, stream, wire, shown, error, acting, strayed>>

\* The connection drops: what it carried is lost and the page waits to reconnect.
DropStream(w) ==
  /\ Fault
  /\ stream[w] = "open"
  /\ stream' = [stream EXCEPT ![w] = "waiting"]
  /\ wire' = [wire EXCEPT ![w] = <<>>]
  /\ UNCHANGED <<Committed, unpublished, selected, fetches, shown, error, acting, strayed>>

\* The server process restarts: signals not yet published are lost, and every stream
\* and every request it had not answered.
RestartServer ==
  /\ Fault
  /\ unpublished' = [q \in Queues |-> 0]
  /\ stream' = [w \in Watchers |-> IF stream[w] = "open" THEN "waiting" ELSE stream[w]]
  /\ wire' = [w \in Watchers |-> <<>>]
  /\ fetches' = [w \in Watchers |-> [i \in DOMAIN fetches[w] |->
                   IF fetches[w][i].reply = Unanswered THEN [fetches[w][i] EXCEPT !.reply = Failed]
                   ELSE fetches[w][i]]]
  /\ UNCHANGED <<Committed, selected, shown, error, acting, strayed>>

-----------------------------------------------------------------------------
\* What happens by itself, each step sooner or later.
PageStep(w) ==
  \/ OpenStream(w) \/ Reconnect(w) \/ HandleEvent(w) \/ AnswerAct(w)
  \/ \E i \in 1..MaxFetches : AnswerFetch(w, i) \/ ReceiveReply(w, i)

Next ==
  \/ \E q \in Queues : \/ CommitTransition(q) \/ CommitUpdate(q) \/ Publish(q)
                       \/ \E target \in Queues : CommitTransfer(q, target)
  \/ \E w \in Watchers : \/ PageStep(w) \/ BecomeVisible(w) \/ Act(w) \/ DropStream(w)
                         \/ \E q \in Queues : SelectQueue(w, q)
                         \/ \E i \in 1..MaxFetches : FailFetch(w, i)
  \/ RestartServer

Spec == Init /\ [][Next]_vars

\* A service that has committed goes on to publish; timers fire; requests are answered or
\* time out after 20 s (lib/api-client.ts); the browser delivers what arrives.
FairSpec ==
  /\ Spec
  /\ \A q \in Queues : WF_vars(Publish(q))
  /\ \A w \in Watchers :
       /\ WF_vars(OpenStream(w)) /\ WF_vars(Reconnect(w)) /\ WF_vars(HandleEvent(w))
       /\ WF_vars(AnswerAct(w))
       /\ \A i \in 1..MaxFetches : WF_vars(AnswerFetch(w, i)) /\ WF_vars(ReceiveReply(w, i))

-----------------------------------------------------------------------------
\* The page shows the selected queue, and nothing it was signalled is missing.
ShowsSignalled(w) == /\ shown[w].queue = selected[w]
                     /\ shown[w].version >= signalled[selected[w]]
ShowsCurrent(w) == shown[w] = [queue |-> selected[w], version |-> version[selected[w]]]

\* Nothing is on its way to the page and it has no reason to expect anything.
Quiet(w) == /\ stream[w] = "open" /\ wire[w] = <<>> /\ fetches[w] = <<>>
            /\ unpublished[selected[w]] = 0
            /\ acting[w] = NoQueue

\* Types.
TypeOK ==
  /\ \A q \in Queues : {version[q], signalled[q], unpublished[q]} \subseteq 0..MaxVersion[q]
  /\ customers \subseteq Watchers
  /\ selected \in [Watchers -> Queues]
  /\ stream \in [Watchers -> {"connecting", "open", "waiting"}]
  /\ wire \in [Watchers -> Seq({"ready", "signal"})]
  /\ fetches \in [Watchers -> Seq([queue : Queues, reply : Nat \cup {Unanswered, Failed},
                                  act : BOOLEAN, overtaken : BOOLEAN])]
  /\ shown \in [Watchers -> [queue : Queues, version : Nat] \cup {Nothing}]
  /\ error \in [Watchers -> BOOLEAN]
  /\ acting \in [Watchers -> Queues \cup {NoQueue}]
  /\ strayed \in [Watchers -> BOOLEAN]
  /\ faults \in 0..MaxFaults

\* A connected page that expects nothing shows the selected queue with every change that
\* was signalled, or an error: none is missed between reading and subscribing, across
\* reconnections, restarts, acts and changes of queue (bus.ts:8-10, useQueueStream.ts:23-27).
\* What the page does not see to is excepted: that the last reply to arrive is the one to
\* show (strayed).
QuietShowsCurrent == \A w \in Watchers : Quiet(w) => ShowsSignalled(w) \/ error[w] \/ strayed[w]

\* Once changes and faults end, a page of the staff that stays on a queue comes to show
\* every change that was signalled, or an error, and goes on showing it, but for replies
\* that stray.
EventuallyCurrent ==
  \A w \in Watchers :
    w \notin customers /\ (\E q \in Queues : <>[](selected[w] = q))
      => <>[](ShowsSignalled(w) \/ error[w] \/ strayed[w])

\* A promise of the comments that the code does not keep, the same with no exception: reading
\* again on "ready" and on each signal recovers what was missed, so that a page that expects
\* nothing shows the state of its queue (useQueueStream.ts:23-25, docs/FRONTEND.md:73-75).
RereadingRecovers == \A w \in Watchers : Quiet(w) => ShowsSignalled(w) \/ error[w]
=============================================================================
