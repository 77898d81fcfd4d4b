------------------------------- MODULE WebPages -------------------------------
(***************************************************************************)
(* The pages of the web client that read lists and states from the server, *)
(* let the user choose what they show, and let him change it.  Every page  *)
(* is written as React components: effects read when the page opens or a   *)
(* choice changes, a click starts a change that reads again when it is     *)
(* answered, and replies arrive in any order.  What is read is a version   *)
(* of a part of the server's state; who may do what, and messages, are     *)
(* left out.                                                               *)
(* A definition named <What>_<definition> is <definition> with a bug in it *)
(* that the properties are shown to catch; nothing else uses it.           *)
(***************************************************************************)
EXTENDS Naturals, FiniteSets, Sequences

CONSTANTS
  Nothing,     \* no choice, or nothing to show yet
  Offers,      \* what the server lists under each choice, in order
  Events,      \* bound, per page: how often the user changes something, or the language
  MaxReadings  \* bound, per page: readings under way when more are asked for

\* A change the user can make: the parts it changes on the server, the readings it asks
\* for once it is answered, the parts it shows from the answer itself, the flag that
\* disables its button while one is under way, the page it goes to, and whether its
\* button is there before what the page opens with has been read.
Change(name, alters, reads) ==
  [name |-> name, alters |-> alters, reads |-> reads, shows |-> {},
   lock |-> "busy", goes |-> Nothing, early |-> FALSE]

-----------------------------------------------------------------------------
\* The manager's page: its cards.

\* Four requests, shown together when all are answered; branches stands for the branches,
\* the counters in them and the members, which every change of one of them reads again.
loadOrganization == {"branches", "operations"}
loadQueues == {"queues"}

\* The saved data are not read again: the list of organizations keeps the old name.
organizationCard == {Change("saveOrganization", {"organizations"}, {})}

\* uploadLogo, removeLogo.
logoCard == {[Change("changeLogo", {"organizations"}, {}) EXCEPT !.shows = {"organizations"},
                                                                !.lock = "logoBusy"]}

branchesCard == {Change("createBranch", {"branches", "operations"}, {loadOrganization})}

\* A counter is created, removed, activated or deactivated.
countersCard == {Change("changeCounter", {"branches"}, {loadOrganization})}

\* A queue is created, opened, paused or closed.
queuesCard == {Change("changeQueue", {"queues", "operations"}, {loadQueues})}

\* A member is added or removed, or has his role changed.
membersCard == {Change("changeMember", {"branches"}, {loadOrganization})}

-----------------------------------------------------------------------------
\* The other pages' changes.

\* act: every button of the counter; the list of queues, with its counts, is not read again.
act == Change("act", {"state", "queues"}, {{"state"}})

\* Its button waits; those of other payments do not, and are left out.
billingProof == Change("submitProof", {"billing"}, {{"billing"}})

account == {"tickets", "notifications", "preferences"}

\* Nothing disables these two buttons; a second click on the same one is left out.
leave == [Change("leave", {"tickets", "notifications"}, {account}) EXCEPT !.lock = "leave"]
markAllRead == [Change("markAllRead", {"notifications"}, {account}) EXCEPT !.lock = "read"]
savePreferences ==
  [Change("savePreferences", {"preferences"}, {}) EXCEPT !.shows = {"preferences"},
                                                         !.lock = "prefsSaving"]

\* The overview, the alerts and the audit log are read again by the refresh button only.
AdminChange(name) == Change(name, {"tenants", "overview", "audit"}, {{"tenants"}})
changeStatus == AdminChange("changeStatus")
confirmDelete == AdminChange("confirmDelete")

createAtm == Change("createAtm", {"atms"}, {{"atms"}})
\* Its status, whether it is active, or that it is deleted.
editAtm == Change("editAtm", {"atms"}, {{"atms"}})

submitReport == Change("submitReport", {"atms"}, {{"atms"}})

join == [Change("join", {"queue", "mine"}, {}) EXCEPT !.lock = "joining", !.goes = "conta"]

takeTicket == Change("takeTicket", {"board"}, {{"board"}})

\* The forms that sign in ask for the session once they are answered, and wait for it.
SignIn(name) ==
  [Change(name, {"session"}, {{"session"}}) EXCEPT !.lock = name, !.early = TRUE]
login == SignIn("login")
register == SignIn("register")
registerOrganization == SignIn("registerOrganization")

\* Whatever the server answers, nobody is shown as signed in.
logout == [Change("logout", {"session"}, {}) EXCEPT !.shows = {"session"}, !.lock = "logout"]

-----------------------------------------------------------------------------
\* A page: the readings asked for when it opens, when a selector changes, when a stream or
\* a timer calls, and by buttons that change nothing; the parts whose late replies it drops;
\* the parts whose renewal counts as a change of the selector they offer; its changes.
Page(opens, follows, guarded) ==
  [opens |-> opens, follows |-> follows, guarded |-> guarded, signals |-> {}, searches |-> {},
   renews |-> {}, translated |-> TRUE, actions |-> {}]

NoSelector == [k \in {} |-> {}]

managerPage ==
  [Page({{"organizations"}},
        [organization |-> {loadOrganization}, branch |-> {loadQueues}],
        {"organizations"})
   EXCEPT !.renews = {"organizations"},
          !.actions = UNION {organizationCard, logoCard, branchesCard, countersCard,
                             queuesCard, membersCard}]

staffPage ==
  [Page({{"organizations"}},
        [organization |-> {{"branches"}}, branch |-> {{"queues"}}, queue |-> {{"state"}}],
        {"organizations", "branches", "queues"})
   EXCEPT !.signals = {{"state"}}, !.actions = {act}]

billingPage ==
  [Page({{"organizations"}}, [organization |-> {{"billing"}}], {"organizations"})
   EXCEPT !.actions = {billingProof}]

analyticsPage ==
  Page({{"organizations"}}, [organization |-> {{"analytics"}}], {"organizations", "analytics"})

accountPage ==
  [Page({account}, NoSelector, {})
   EXCEPT !.signals = {account}, !.actions = {leave, markAllRead, savePreferences}]

refresh == {{"tenants"}, {"audit"}, {"overview"}}

adminPage ==
  [Page({{"tenants", "overview"}}, NoSelector, {"tenants", "overview"})
   EXCEPT !.searches = {{{"tenants"}}, {{"audit"}}, refresh},
          !.actions = {changeStatus, confirmDelete}]

adminAtmsPage ==
  [Page({{"atms"}}, NoSelector, {"atms"}) EXCEPT !.actions = {createAtm, editAtm}]

atmsPage ==
  [Page({{"atms"}}, NoSelector, {})
   EXCEPT !.searches = {{{"atms"}}}, !.actions = {submitReport}]

searchPage == [Page({{"directory"}}, NoSelector, {}) EXCEPT !.searches = {{{"directory"}}}]

organizationPage == Page({{"organization"}}, NoSelector, {"organization"})

queuePage ==
  [Page({{"queue"}, {"mine"}}, NoSelector, {})
   EXCEPT !.signals = {{"queue"}, {"mine"}}, !.actions = {join}]

totemPage ==
  [Page({{"board"}}, NoSelector, {})
   EXCEPT !.signals = {{"board"}}, !.translated = FALSE, !.actions = {takeTicket}]

boardPage ==
  [Page({{"board"}}, NoSelector, {}) EXCEPT !.signals = {{"board"}}, !.translated = FALSE]

\* Not a page but the component around them all, which stays when they change; a page
\* that could not tell who is signed in offers to ask again.
SessionProvider ==
  [Page({{"session"}}, NoSelector, {})
   EXCEPT !.searches = {{{"session"}}}, !.translated = FALSE,
          !.actions = {login, register, registerOrganization, logout}]

Pages ==
  [session |-> SessionProvider, gestor |-> managerPage, staff |-> staffPage,
   subscricao |-> billingPage,
   analytics |-> analyticsPage, conta |-> accountPage, admin |-> adminPage,
   adminAtms |-> adminAtmsPage, atms |-> atmsPage, pesquisar |-> searchPage,
   estabelecimento |-> organizationPage, fila |-> queuePage, totem |-> totemPage,
   ecra |-> boardPage]
-----------------------------------------------------------------------------
VARIABLES
  screen,       \* the page that is open
  selection,    \* what its selectors are set to
  shown,        \* of each part: what it was read for and the moment it shows
  moment,       \* how many of the user's changes the server has applied
  readings,     \* requests that read, each asked for a choice at a moment
  doing,        \* the changes whose buttons are waiting
  owed,         \* of each part: the user's last change of it that was confirmed
  unsure,       \* parts whose last readings failed, or overlapped without a guard
  translations  \* how often the language was changed

pageVars == <<screen, selection, shown, moment, readings, doing, owed, unsure, translations>>

\* The selector a part is read for; "screen" is the page itself, always chosen.
SelectorOf(part) ==
  CASE part \in loadOrganization \cup {"billing", "analytics"} -> "organization"
    [] part = "queues" -> "branch"
    [] part = "state" -> "queue"
    [] OTHER -> "screen"

\* The selector whose options a part lists, on the pages that have it.
OfferedBy == [organizations |-> "organization", branches |-> "branch", queues |-> "queue"]

here == Pages[screen]

PartsOf(page_) ==
  UNION (page_.opens \cup (UNION {page_.follows[k] : k \in DOMAIN page_.follows})
         \cup (UNION page_.searches))

NothingChosen == [organization |-> Nothing, branch |-> Nothing, queue |-> Nothing,
                  screen |-> "open"]

SelectedFor(part, choice) == choice[SelectorOf(part)]

\* Requests for groups of parts, one reading each, for what is chosen.
Requests(groups, choice, by) ==
  {[parts |-> g, of |-> SelectedFor(CHOOSE p \in g : TRUE, choice), asked |-> moment, by |-> by] :
     g \in {h \in groups : \A p \in h : SelectedFor(p, choice) # Nothing}}

-----------------------------------------------------------------------------
\* The effects that run again because a choice changed: those that follow it.
Following(choice) ==
  UNION {here.follows[k] : k \in {j \in DOMAIN here.follows : choice[j] # selection[j]}}

\* An effect that runs again drops the reply of its last run where the code guards it.
Keeping_Wanted(waiting, effects) == waiting
Wanted(waiting, effects) ==
  {r \in waiting : ~(r.by = "effect" /\ r.parts \in effects /\ r.parts \subseteq here.guarded)}

\* Replies to r and n may come in another order than they were asked for, and both count.
Overlap(r, n, p) ==
  /\ p \in r.parts \cap n.parts /\ r # n
  /\ ~(r.by = "effect" /\ n.by = "effect" /\ p \in here.guarded)

\* The page renders with a choice; its effects run, and more is asked for; waiting are the
\* requests under way before; what is shown becomes news, less what has no choice, where
\* the parts patched were not read but taken from an answer.
Render(choice, effects, asks, waiting, news, patched) ==
  LET running == effects \cup Following(choice)
      kept == Wanted(waiting, running)
      new == Requests(running, choice, "effect") \cup asks
      Asked(p) == \E n \in new : p \in n.parts
      Late(p) == \E n \in new : \/ n.of # SelectedFor(p, choice) /\ p \in n.parts
                                \/ \E r \in kept \cup new : Overlap(r, n, p)
  IN /\ selection' = choice
     /\ readings' = kept \cup new
     /\ shown' = [p \in DOMAIN shown |->
                    IF SelectedFor(p, choice) = Nothing THEN Nothing ELSE news[p]]
     /\ unsure' = {p \in DOMAIN shown :
                    CASE Asked(p) -> Late(p)
                      [] p \in patched /\ ~Asked(p) -> \E r \in kept : p \in r.parts
                      [] OTHER -> p \in unsure}

RenderAnew(page_) ==
  /\ screen' = page_ /\ selection' = NothingChosen /\ doing' = {} /\ unsure' = {}
  /\ shown' = [p \in PartsOf(Pages[page_]) |-> Nothing]
  /\ owed' = [p \in PartsOf(Pages[page_]) |-> Nothing]
  /\ readings' = {[parts |-> g, of |-> "open", asked |-> moment, by |-> "effect"] :
                    g \in Pages[page_].opens}

\* What can be chosen: the page itself, and what the server lists.
CanBeChosen == {"open"} \cup UNION {{Offers[o][i] : i \in DOMAIN Offers[o]} : o \in DOMAIN Offers}

ASSUME WebOK == /\ CanBeChosen \subseteq DOMAIN Offers
                /\ \A o \in DOMAIN Offers : Offers[o] \in Seq(CanBeChosen)
                /\ Nothing \notin CanBeChosen \cup DOMAIN Pages \cup [of : CanBeChosen, moment : Nat]

WebInit ==
  /\ screen \in DOMAIN Pages
  /\ selection = NothingChosen
  /\ shown = [p \in PartsOf(here) |-> Nothing]
  /\ moment = 0
  /\ readings = Requests(here.opens, NothingChosen, "effect")
  /\ doing = {}
  /\ owed = [p \in PartsOf(here) |-> Nothing]
  /\ unsure = {}
  /\ translations = 0

-----------------------------------------------------------------------------
\* Replies.

\* What the selector is set to when its list arrives: organizations go to the first; a
\* choice that is still listed stays on the manager's page and for queues.
Chosen(k, options) ==
  CASE options = << >> -> IF k = "organization" THEN selection[k] ELSE Nothing
    [] /\ k = "queue" \/ screen = "gestor"
       /\ k # "organization"
       /\ \E i \in DOMAIN options : options[i] = selection[k] -> selection[k]
    [] OTHER -> options[1]

ChoiceAfter(r) ==
  LET lists == {p \in r.parts \cap DOMAIN OfferedBy : OfferedBy[p] \in DOMAIN here.follows}
      Of(k) == CHOOSE p \in lists : OfferedBy[p] = k
      set == {OfferedBy[p] : p \in lists}
  IN [k \in DOMAIN selection |->
        CASE k \in set -> Chosen(k, Offers[r.of])
          [] k = "queue" /\ "branch" \in set -> Nothing
          [] OTHER -> selection[k]]

\* The effects that depend on a list itself, and run again when it is replaced.
RenewedBy(parts) == UNION {here.follows[OfferedBy[p]] : p \in parts \cap here.renews}

ReplyArrives(r) ==
  /\ \E seen \in [r.parts -> r.asked..moment] :
       Render(ChoiceAfter(r), RenewedBy(r.parts), {}, readings \ {r},
              [p \in DOMAIN shown |->
                 IF p \in r.parts THEN [of |-> r.of, moment |-> seen[p]] ELSE shown[p]], {})
  /\ doing' = {d \in doing : d.change.name # r.by}
  /\ UNCHANGED <<screen, moment, owed, translations>>

ReadingFailed(r) ==
  /\ readings' = readings \ {r}
  /\ unsure' = unsure \cup r.parts
  /\ doing' = {d \in doing : d.change.name # r.by}
  /\ UNCHANGED <<screen, selection, shown, moment, owed, translations>>

-----------------------------------------------------------------------------
\* The user, the stream and the timers.

\* The user, the stream and the timers ask for no more than the bound.
MayGoOn ==
  moment + Cardinality({d \in doing : d.applied = Nothing}) + translations < Events[screen]
Bounded == Cardinality(readings') <= MaxReadings[screen]

\* A page shows its spinner until what it opens with has been read.
Loaded == \A g \in here.opens : \A p \in g : shown[p] # Nothing

\* The options of a selector are those of the list that is shown; the attendant's page has
\* an empty option too.
Options(k) ==
  (UNION {LET list == Offers[shown[p].of] IN {list[i] : i \in DOMAIN list} :
            p \in {q \in DOMAIN OfferedBy \cap DOMAIN shown :
                     OfferedBy[q] = k /\ shown[q] # Nothing}})
  \cup (IF screen = "staff" /\ k # "organization" THEN {Nothing} ELSE {})

Select(k, option) ==
  /\ Loaded
  /\ option # selection[k]
  /\ Render([selection EXCEPT ![k] = option,
                              !.queue = IF k = "branch" /\ option = Nothing THEN Nothing ELSE @],
            {}, {}, readings, shown, {})
  /\ Bounded
  /\ UNCHANGED <<screen, moment, doing, owed, translations>>

\* A search or a refresh button, a signal of the stream, or a tick of the page's timer.
ReadAgain(groups, by) ==
  /\ Render(selection, {}, Requests(groups, selection, by), readings, shown, {})
  /\ readings' # readings
  /\ Bounded
  /\ UNCHANGED <<screen, moment, doing, owed, translations>>

\* tError depends on the language: the effects that name it run again.
setLang ==
  /\ MayGoOn
  /\ translations' = translations + 1
  /\ here.translated
  /\ Render(selection, here.opens \cup UNION {here.follows[k] : k \in DOMAIN here.follows},
            {}, readings, shown, {})
  /\ Bounded
  /\ UNCHANGED <<screen, moment, doing, owed>>

\* run: the operators' page disables its searches and its changes while one is under way.
Searching == screen = "admin" /\ \E r \in readings : r.by = "user"
Busy == screen = "admin" /\ (doing # {} \/ Searching)

\* A click: the request speaks of what is chosen now, whatever is chosen when it is answered.
Begin(c) ==
  /\ Loaded \/ c.early
  /\ MayGoOn
  /\ \A d \in doing : d.change.lock # c.lock
  /\ ~Searching
  /\ \A p \in c.alters : SelectedFor(p, selection) # Nothing
  /\ doing' = doing \cup {[change |-> c, at |-> selection, applied |-> Nothing]}
  /\ UNCHANGED <<screen, selection, shown, moment, readings, owed, unsure, translations>>

Applied(d) ==
  /\ d.applied = Nothing
  /\ moment' = moment + 1
  /\ doing' = (doing \ {d}) \cup {[d EXCEPT !.applied = moment']}
  /\ UNCHANGED <<screen, selection, shown, readings, owed, unsure, translations>>

Rereading(d) == \E r \in readings : r.by = d.change.name

Confirmed(d) ==
  LET c == d.change
      Entry(p) == [of |-> SelectedFor(p, d.at), moment |-> d.applied]
  IN /\ d.applied # Nothing /\ ~Rereading(d)
     /\ IF c.goes # Nothing
        THEN RenderAnew(c.goes)
        ELSE /\ Render(selection, RenewedBy(c.shows), Requests(c.reads, d.at, c.name), readings,
                       [p \in DOMAIN shown |-> IF p \in c.shows THEN Entry(p) ELSE shown[p]],
                       c.shows)
             /\ owed' = [p \in DOMAIN owed |-> IF p \in c.alters THEN Entry(p) ELSE owed[p]]
             /\ doing' = IF c.reads = {} THEN doing \ {d} ELSE doing
             /\ UNCHANGED screen
     /\ UNCHANGED <<moment, translations>>

\* The change was refused, or applied and its answer was lost: an error is shown, or, when
\* signing out, the session is forgotten all the same.
Refused(d) ==
  /\ ~Rereading(d)
  /\ doing' = doing \ {d}
  /\ unsure' = IF d.change.lock = "logout" THEN unsure \cup {"session"} ELSE unsure
  /\ UNCHANGED <<screen, selection, shown, moment, readings, owed, translations>>

WebNext ==
  \/ \E r \in readings : ReplyArrives(r) \/ ReadingFailed(r)
  \/ \E k \in DOMAIN here.follows : \E option \in Options(k) : Select(k, option)
  \/ \E groups \in here.searches : ~Busy /\ ReadAgain(groups, "user")
  \/ here.signals # {} /\ ReadAgain(here.signals, "signal")
  \/ setLang
  \/ \E c \in here.actions : Begin(c)
  \/ \E d \in doing : Applied(d) \/ Confirmed(d) \/ Refused(d)

-----------------------------------------------------------------------------
\* What a change of the page alters and the page does not read again by itself.
LeftStale ==
  CASE screen = "gestor" -> {"organizations", "operations"}
    [] screen = "staff" -> {"queues"}
    [] screen = "admin" -> {"overview", "audit"}
    [] OTHER -> {}

\* The parts that are read without a button for it.
AtOnce == UNION (here.opens \cup UNION {here.follows[k] : k \in DOMAIN here.follows})

Settled(p) ==
  /\ \A r \in readings : p \notin r.parts
  /\ doing = {} /\ p \notin unsure
  /\ SelectedFor(p, selection) # Nothing

\* When nothing is under way, a part whose last reading was answered shows what is selected,
\* not what was selected when it was asked for, and is no older than the last change of it
\* that the page confirmed, unless the page leaves it stale; nothing that follows the
\* selection is left unread.  Excepted are parts with overlapping readings that the page does
\* not guard (unsure).
PageShowsSelection ==
  \A p \in AtOnce : Settled(p) =>
    /\ shown[p] # Nothing
    /\ shown[p].of = SelectedFor(p, selection)
    /\ \/ p \in LeftStale \/ owed[p] = Nothing
       \/ owed[p].of # shown[p].of
       \/ shown[p].moment >= owed[p].moment
=============================================================================
