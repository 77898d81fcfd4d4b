# FilaZero: formal models, checks and proofs

FilaZero (`src/`) is a multi-tenant virtual-queue system: a Next.js server over
PostgreSQL (through Prisma) on which customers take tickets in the queues of an
organization's branches and staff call and serve them. This directory holds TLA+
models of its server, the TLC configurations that check them on small
instances, and proofs, checked by TLAPS, of what they promise for every instance.

Paths below are relative to the repository; `tickets/…` is short for
`src/server/tickets/…` and likewise for the other directories of `src/server`.

## The system

| Part | State it keeps | Operations | What is hard |
| --- | --- | --- | --- |
| Queue engine (`tickets/ticket.service.ts`, `ticket.state.ts`) | `tickets` (status, queue, number, cached position, owner), `queues.ticket_sequence`, `queues.current_ticket_id` | join, guest join, call next, serve, complete, no-show, cancel, leave, recall, transfer | requests overlap statement by statement at READ COMMITTED; some rows are locked, others are read and written later by id alone |
| Queue administration, kiosk (`queues/*.ts`) | `queues.status`, `kiosk_enabled`, public code | create, update, set status, kiosk mode, public board | a status change races joins; notices depend on a status read before the transaction |
| Notifications (`notifications/*.ts`) | `notifications`, the `notification_deliveries` outbox | create (in the caller's transaction), enqueue, claim, deliver, drain, preferences | crash between claim and result, duplicate sends, retries only when something drains |
| Real time (`realtime/bus.ts`, the SSE route, `useQueueStream.ts`) | an in-process event emitter, one subscription per open stream | publish after commit, stream, reconnect and re-read | signals lost while disconnected or on another instance |
| Organization billing (`billing/*.ts`) | `subscriptions`, `transactions`, `payment_proofs`, `invoice_series`, plan quotas | checkout, card intent, webhook, proofs, invoices, receipts | webhooks duplicated and reordered, proofs decided twice, two payments of one organization at once |
| Customer subscriptions (`customer/*.ts`) | `customer_subscriptions`, `customer_payments`, proofs | trial, checkout, confirmation, webhook, proofs | the same, with a free month granted once |
| Accounts and sessions (`auth/*.ts`) | `users`, `sessions`, `password_reset_tokens` | register, login, logout, reset, change of password | a sign-in that overlaps a reset, a token used twice, sessions outliving a password |
| Rate limiting (`security/*.ts`) | `rate_limit_counters` | consume, prune | fixed windows under concurrent and stalled requests |
| Organizations (`organizations/*.ts`, `platform/organization-admin.service.ts`) | organizations, logos, branches, counters, queues, members, global roles | administration, self-registration, suspension, deletion | check-then-act on the last manager, on plan quotas and on paid invoices |
| ATMs (`atms/*.ts`) | `atms`, `atm_reports` | report, administer | reports overwriting one another, an old status that looks fresh |
| Reports (`platform/monitoring.service.ts`, `platform/revenue.service.ts`, `organizations/analytics*.ts`) | none; many queries at once | growth, finances, analytics, PDF export | each query sees another state; months of two time zones; page breaks |
| Billing arithmetic (`billing/billing.rules.ts`, `billing/qr-payment.ts`) | none | renewal dates, the QR code of a bank transfer | months without a 31st; lengths in bytes; check digits |
| Web client (`src/app`, `src/components`) | per page: what it has read, what is selected, which requests are under way; the session | read, select, change, follow a payment | replies out of order, stale lists, polls of a payment no longer shown |
| The rest | none of its own | e-mail, CSV and XLSX exports, metrics, HTTP helpers, RBAC tables, translations | pure I/O and formatting |

Parts interact through the database only: a service runs one transaction, which
may write `notifications` and outbox rows; after it commits it publishes one
event on the in-process bus and schedules a drain of the outbox. Nothing holds a
lock across requests.

`PROJECT.json` lists every component with its sources and what is modelled, and
every hazard with its line and the properties that would catch it.

## The queue engine

`QueueEngine.tla` models every operation that changes a ticket or a queue. A
member of `Procs` is one request being served; its transaction is a sequence of
actions, one per statement, told apart by the label `txn[p].pc`:

    joinQueue        JoinQueue        -> InsertTicket -> Commit
    callNext         CallNext         -> PickNext -> PointAt -> ranking -> Commit
    startServing     StartServing     -> UpdateTicket -> PointAt -> Commit
    complete/…       CompleteService… -> UpdateTicket -> ClearCurrent -> ranking -> Commit
    recallTicket     RecallTicket     -> UpdateTicket -> Commit
    transferTicket   ReadForTransfer  -> LockTarget -> MoveTicket -> ClearCurrent
                                      -> ranking of the source -> ranking of the target -> Commit
    setQueueStatus   SetQueueStatus   -> WriteStatus -> Commit
    ranking          ReadPositions -> RankWaiting -> WriteRank (once a row) -> NotifyPromoted

Between any two of these another request may take a step, and any transaction
may `Abort` at any of them (a failed check, a unique violation, a deadlock
victim, a timeout, a crash). `updateQueue` and `setQueueKioskMode` are single
statements.

PostgreSQL is modelled by what READ COMMITTED gives: `ticket` and `queue` are the
committed rows; `tnew`, `qnew` the newest versions, which differ from the
committed ones only for a row whose lock (`tlock`, `qlock`) a transaction owns.
A read sees committed rows and the transaction's own; a write waits for the lock
and then changes the newest version, whatever the transaction had read before.
The partial unique index on active tickets and the unique current-ticket column
are guards of the writes (`ActiveTwin`, `CurrentTaken`): they collide with
committed rows and wait for uncommitted ones. The unique index on ticket numbers
is not a guard: that it is never needed is a property (`UniqueNumbers`).

The operations on one ticket read it without a lock and update it later by its
id. The model keeps that: `UpdateTicket` writes whatever the row has become.

`TicketState.tla` is the transition table. Two abstract specifications say what
the engine promises: `TicketLifecycle.tla` (tickets called in order of arrival,
one in progress per queue, transitions by the table) and `TicketDispenser.tla`
(a queue counts up by one for each slip it issues).

### Runs

| Run | Instance | Shows |
| --- | --- | --- |
| `engine_concurrent` | 2 overlapping requests, 2 customers and guests, 2 queues, 2 tickets, 2 numbers a queue | types; unique numbers; one active ticket per customer and queue; a called ticket was waiting in that queue; no two customers called in one queue; the engine implements `TicketDispenser` |
| `engine_sequential` | 1 request at a time, 2 customers, 3 tickets, 3 numbers a queue | the current pointer is exactly the customer in progress; cached positions are the live ones; exactly the promoted customers are told; the engine implements `TicketLifecycle` |
| `engine_entries` | 2 overlapping requests that enter or leave queues or change their status or kiosk | only an OPEN queue admits |
| `transfer_revives` | transfers against cancellations | **violated**: a cancelled ticket goes back to WAITING |

The bounds: two overlapping requests are enough for every race between a read
and a write of one row, since the code never takes a decision on more than one
other request's row; two queues are what a transfer needs; two tickets under
concurrency and three in sequence let a ticket be ahead of, behind and between
others. `MaxTickets` and `MaxSeq` only bound how many tickets are ever issued.
Customers, queues and requests are interchangeable, which the symmetry uses; the
checked properties are all safety properties, for which it is sound. The engine
has no loop of its own and promises no progress (a request that waits is ended by
a timeout), so no fairness is assumed and no liveness is claimed.

`OneCalled` speaks of CALLED tickets only: `startServing`, overlapping a transfer
or a cancellation, writes over what they wrote, so that a second customer can be
SERVING in a queue, which is the unconditional update of finding 1.
`engine_sequential` and `engine_concurrent` leave a queue's status as it was
created; `engine_entries` changes it. Overlapping requests leave out `leaveQueue`
and `markNoShow`, which write what `cancelTicket` writes in the same steps. Who is
told of a status change is in the model (`StatusNotices`) but no property is
claimed of it: see the list under Findings.

## The notification outbox

`NotificationOutbox.tla` models messages sent out of the application. A queue
operation creates a notification and, for each channel its recipient opted in to,
a PENDING row of `notification_deliveries` in its own transaction
(`CreateNotification`), which commits or rolls back; every operation schedules a
drain after it commits, and nothing else ever drains. A drain claims a batch with
one `UPDATE … FOR UPDATE SKIP LOCKED`, here in two steps, locking
(`LockPending`) and committing (`ClaimPending`), because other drains run in
between; then each of its rows is skipped, sent, recorded or given back. A
provider can accept a message while its answer is lost, the update to SENT can
throw, and a drain can `Die` anywhere: its locks go, its rows stay in PROCESSING.

| Run | Instance | Shows |
| --- | --- | --- |
| `outbox` | 2 events and 1 other operation, again and again, so 3 overlapping drains; 2 channels of which one is configured; batches of 1; 2 attempts; fair | no message for an event that did not commit; no more messages than attempts; only a death leaves a row behind; a settled row stays settled; every delivery is settled in the end, whatever the provider does |

Three drains let a slow one come back after two others. An operation whose rows are
settled comes again under the same name (`Over`), so there is no end of new rows, and a
batch is smaller than the rows that wait: a row is reached because the oldest are claimed
first (`Older`, by the order in which their operations wrote them, `earlier`) and because
a row that fails is given up. Claiming the newest first, TLC finds a row that waits for
ever. The bound `Consents` gives each notification one row; notifications with two, and
batches with several, are left to the theorems, which are for any.
Fairness: each step of a running drain is weakly fair (`FairSpec`): a promise
chain in a living process goes on, a statement ends and a provider call ends, with
an answer or without. Nothing makes a drain start and nothing keeps it alive.
`EventuallySettled` assumes that queue operations go on (`[]<>` of a scheduled
drain), since retries have no timer, and excepts the rows a dead drain had in
hand; `OnlyDeathOrphans` says that nothing else leaves such rows. Delivery is at
least once, which is why the property is `SentWithinAttempts`: a message the
provider accepted goes out again when its answer is lost or the update to SENT
throws.

## Following a queue in real time

`RealtimeSync.tla` composes the bus, the event stream and the page. The state of a
queue is a version number, one more for every commit; a service publishes a signal
some time after it commits; a page holds a stream (`connecting`, `open`,
`waiting`), a wire with events on their way, and requests in flight, each answered
with the version at the time the server reads it. `ready` and every signal make
the page read again. Connections drop, the server restarts (signals not yet
published are lost), requests fail, and the user changes queue, comes back to the tab
or clicks a button (`Act`), whose POST is followed by a read of the queue that was
selected at the click (`AnswerAct`). Replies arrive in any order, and each is shown.

| Run | Instance | Shows |
| --- | --- | --- |
| `realtime` | 1 page of the staff or of a customer, 2 queues that change once each, every kind of commit, 2 requests in flight, 1 fault; fair | a connected page that expects nothing shows every change that was signalled of its queue, or an error, unless the last reply strayed; when changes and faults end a page of the staff comes to show that, and goes on |

One page is enough: pages share nothing but the server's state. A change of each queue
and two requests let a signal overtake a reply and a fault hit any of them. A reply
*strays* when that of a later request for the same queue arrived before it, or when its
queue is no longer the selected one (`strayed`, a ghost): the page shows it all the same,
as is listed under Findings. Properties speak of the version last *signalled*:
`transferTicket` signals one of the two queues it changes and `updateQueue` none, and
what they leave unsignalled is not promised. Fairness: a service publishes, the browser
reconnects after three seconds, delivers what arrives, and a request is answered or
fails within its timeout.

## Payments

`Payments.tla` models paying for a subscription, for an organization or, without
fiscal documents and receipts, for a customer (`Surface`). A member of `Handlers`
serves one request, one statement at a time:

    startCheckout, startCardIntent, startCustomerCheckout, startCustomerCardIntent
                     -> CallProvider -> RecordSession | RecordRefusal
    webhook          Deliver | DeliverCustomer -> WriteFailed -> Answer
                     Deliver -> Claim -> ReadPeriod -> ExtendSubscription
                       -> AllocateInvoiceNumber -> PreviousInvoiceHash -> CommitPayment
                       -> CheckReceipt -> SendReceipt -> RecordReceipt -> Answer
                     DeliverCustomer -> Claim -> ReadPeriod -> ExtendSubscription
                       -> CommitCustomerPayment -> Answer
    proof            submitPaymentProof -> WriteProof
                     submitCustomerProof -> WriteCustomerProof
    assignPlan, the trials   one statement each

The committed rows are the variables; what a webhook's transaction has written is
in its handler until `CommitPayment`, and the row locks it holds follow from where
it is (`HoldsTransaction`, `HoldsSubscription`, `HoldsSeries`). The reads of
the transaction and of the subscription take no lock, as in the code. The provider
makes one or several events of each outcome, delivers them in any order, again and
again, and stops when it is answered 200. A card can be declined and then charged;
a payment requested by telephone can be paid although the answer to the request
was lost. Any request can end half way (`Abort`).

`InvoiceLedger.tla` is what invoicing promises: one document a payment, numbered
one after the other in each series. `Payments` implements it with the documents
found by their numbers.

| Run | Instance | Shows |
| --- | --- | --- |
| `payments_concurrent` | an organization: 2 overlapping requests, 2 payments, 2 series, 1 abort, plan assignments | an unbroken chain; one receipt; an acknowledged success is applied; `Payments` implements `InvoiceLedger` |
| `payments_sequential` | an organization or a customer: 1 request at a time, 1 card and 1 telephone payment, proofs, declined cards, lost answers, 3 instants, 1 abort, fair | a payment buys an interval from the date it is applied at, and from the end of the period that was there; what is paid stays paid; what the provider collected is applied in the end, unless it was refused or declined first |

`Operations` chooses which of plan assignment, proofs, declined payments and lost
answers an instance has; a run leaves out what breaks its property, as listed
under Findings. Two payments and two requests are enough for every race: a webhook
decides on one transaction, one subscription and one series. `MaxTime` lets a
period expire, `MaxAborts` bounds what fails. Fairness in `payments_sequential`: a
request that has started goes on, and the provider delivers an event again until
it is acknowledged (strong fairness, because handlers are busy in between).

## Public endpoints: the limiter, accounts, ATMs

`RateLimit.tla` is the fixed-window counter: `Consume` raises the row of a key and
window atomically, and deletes the rows that `Expired`, by the clock of the
request, which may have stalled. `Accounts.tla` is one account behind it: each
request of register, login, logout, forgot, reset and change of password passes
its limits (`ChecksOf`, `Count`) and then its statements (`VerifyPassword`,
`CreateSession`, `FindOutstanding`, `IssueToken`, `CheckToken`, `SetPassword`).
`AtmNetwork.tla` is the machines' reported status: citizens report behind the
limiter, staff without it, operators edit. `PublicEndpoints.tla` composes them
over one clock and one table of counters; as they share no row or key, a behaviour
follows one of them.

| Run | Instance | Shows |
| --- | --- | --- |
| `public_endpoints` | 2 overlapping requests and 4 in all, 3 sessions, 3 tokens; 2 overlapping reports and 3 in all, 1 machine; 4 instants | no window admits more than its rule; a live session stands for the present password, but for a sign-in the change overtook; a machine shows only what was said of it and is still fresh |

Two requests make a sign-in and a reset overlap at each statement, the third and
fourth prepare the session and the token they meet. Four instants are two windows
with an edge between them, and let a session, a token and a status grow old.

## Organizations and members

`Tenants.tla` holds the rows (organizations with their subscription, logo, branches,
counters, queues, members, and the users' global roles), the access checks of
`context.ts` and the quotas of `plan-guard.ts`. `Memberships.tla` adds addMember,
updateMember and removeMember, each read before the transaction a step of its own;
`Organizations.tla` adds the creation, suspension and deletion of organizations,
branches, counters and queues, the logo, and self-registration. What a request
read is in its `handler`; foreign keys and unique indexes are guards of the writes.

| Run | Instance | Shows |
| --- | --- | --- |
| `organizations` | 2 overlapping requests and 3 in all; 2 organizations, 3 users, quotas of 2; four beginnings, each with the requests that meet | quotas are exceeded by no more than the requests that overlap; an organization keeps a manager, and a role covers the memberships, unless they changed under the request; nothing outlives its organization |

`Beginnings` splits the instance: members; places of a plan; organizations coming
and going; logos. In each, everything that can meet is asked for. The two ghost
variables `outpaced` and `outrun` mark where a decision was taken on what
another request has changed since: there the code promises nothing, and TLC finds
the violation without them (see Findings). `QuotasHold` counts, with the rows, the
requests that have found room and not yet used it (`Cleared`), which makes it
inductive.

## Back office

`BackOffice.tla` composes seven parts that share no state, so that a behaviour
follows one of them (`area`):

- `PlatformReports.tla` over `Calendar.tla`: the operator's growth report (one
  query, buckets by month) and finances (queries that run at once while payments
  are requested, put under review, applied or fail).
- `AnalyticsReport.tla`: the queries of an organization's report, each on the rows
  committed when it starts, and how they are put together.
- `AnalyticsPdf.tla`: the pen of the exported document, its page breaks, tables
  with repeated headers, charts and footers. A text has the height of its font over
  its baseline and a quarter of it under.
- `Renewals.tla` over `Calendar.tla`: `addInterval` applied once per payment.
- `BankQr.tla`: the payload of a transfer's QR code and a reader that takes it
  apart element by element.
- `WebPages.tla`: the pages as React runs them. A `Page` is data: what it reads
  when it opens, what follows each selector, which late replies it drops, what a
  stream or a timer reads again, and its changes (`Change`), each with the parts it
  alters, reads again or shows from its answer. The actions are the same for all:
  a reply, a failed reading, a selection, a search, a signal, a change of language,
  a click, its effect on the server and its answer. A part of the server's state is
  a version: the number of the user's changes applied when it was read. The
  session's provider, with the forms that sign in and with signing out, is one of
  the pages (`SessionProvider`).
- `CheckoutPages.tla`: the checkout of an organization and the subscription page of
  a customer: method, submission, card form, polling with its clean-up, proof.

| Run | Instance | Shows |
| --- | --- | --- |
| `back_office` | see below | the parts of a report differ by no more than what changed while it was read (`FinancesAgree`, `ReportAddsUp`); the document draws each part under those before it, letters included, but for the first row's in the band of its header, and heads the rows of every page; paid periods keep the day of their start; a QR code reads back as it was asked for; a settled page shows what is selected, and nothing older than what it confirmed, where it reads again (`PageShowsSelection`); a payment page confirms the payment it shows (`ConfirmedMeansPaid`) |
| `month_buckets` | the growth report on a server in UTC | **violated**: every organization is counted in one month |

Bounds: reports are asked for in mid-month, in the first hour of a month in UTC, in
its last (Luanda's next month) and at the end of February, with two payments. The
analytics period has a step before it, two days of two steps, and one change under
way. Tables of 0, 1, 9, 17, 18 and 40 rows end just before, at and after a page's
end. Periods start on any day of 900 and are paid 30 times, so that every month
follows every day and a leap day is crossed. Texts of the QR code reach the
longest element and beyond it, start and end with blanks, or are nothing else;
accounts are bare numbers with check digits of one figure and of two, an IBAN, one
with wrong check digits, one too short and none. Pages list two organizations, one without branches, two branches and
one queue, so that a list can be empty; the user makes two changes (one on the two
pages with three selectors) and two readings are under way when more are asked for
(three for the operators' page, whose refresh asks for three at once): two overlap,
and a third is asked for while they do. Two purchases let a poll of the first be
answered under the second. No fairness: a user may stop.

`PageShowsSelection` speaks of *settled* parts: nothing under way, the last reading
answered, and no overlap of readings which the page does not guard (`unsure`).
`LeftStale` lists, for three pages, what their changes alter and they do not read
again by themselves. Both are observations of the code, listed below.

## Findings

Two disagreements between the code and what its comments and documents say have a
run whose counterexample TLC prints.

1. `transfer_revives`: `transferTicket` (ticket.service.ts:481) writes `WAITING` by
   id after an unlocked check, so it revives a ticket finished in between, which
   docs/DATABASE.md:143 and README.md:192 exclude. `startServing` (line 858) and its
   siblings update by id in the same way, not `WHERE status = …` as
   ticket.service.ts:12 and docs/ARCHITECTURE.md:134 say.
2. `month_buckets`: the growth report (monitoring.service.ts:165) takes the months
   of Luanda from the first days of the server's months. On a server in UTC, which
   is what the images give, all six come out empty.

Three more are stated in the modules, and TLC violates each in the run that is named:

- `RereadingRecovers` in `realtime`: the staff page (app/staff/page.tsx:158) shows the
  last reply to arrive, which may be older than what it showed, or of another queue (the
  read after an act, line 178, is of the queue selected at the click).
  useQueueStream.ts:23-25 and docs/FRONTEND.md:73-75 say that reading again recovers what
  was missed.
- `PaidNeverDeleted` in `organizations`: an organization with paid transactions is
  deleted, if the operator forces it (organization-admin.service.ts:226). The comment at
  lines 190-192, docs/BILLING.md:127-129 and docs/API.md:147-148 say that it never is and
  can only be suspended.
- `HistoryNotLost` in `organizations`: a payment that succeeds between the count of paid
  transactions (organization-admin.service.ts:223) and the deletion is removed without a
  copy, where lines 234-236 keep one "so the financial history is not silently lost".

The following are in the models and limit what the passing runs claim. Those that
say so come back as counterexamples when a run is changed as described.

Queues, messages, stream:

- `transferTicket` (ticket.service.ts:531) signals one of the two queues it changes,
  and `updateQueue` (queue.service.ts:238) none.
- `setQueueStatus` (queue.service.ts:270) decides whom to tell on a status read
  before its transaction, and `updateQueue` tells nobody.
- A customer's page is refused the stream (stream/route.ts:39) and reconnects for
  ever; docs/ARCHITECTURE.md:155 lists the stream for it.
- No timer drains the outbox: a failed delivery waits for the next event.

Payments:

- With two handlers, `payments_sequential` violates `PaidStaysPaid`: a failed event
  (billing.service.ts:446), a lost answer (line 174) and a proof
  (proof.service.ts:103) each write a status by id over a payment that succeeded in
  between. After a proof the next event issues a second document.
- With two handlers it violates `PaymentBuysPeriod` as well: two payments of one payer
  at once extend the same period end (billing.service.ts:484).
- A card declined once and then charged stays FAILED and its success is acknowledged
  as a duplicate (billing.service.ts:469): with a card and `"declined"` among its operations
  `payments_concurrent` violates `AckedMeansApplied`, and `CollectedIsApplied`
  excepts it.
- A receipt that was not sent is never sent again: only the request that applied the
  payment tries (billing.service.ts:597), though receipt.service.ts:6 says it can be retried.
- A checkout session that completes before its payment is reported as failed.
- An invoice shows the subscription's current period, not the one it paid for.
- `addInterval` lets a day overflow: a period that starts on the 31st can end on the
  3rd of the month after next, once; `RenewalsKeepTheDay` allows these three days.
- A transfer whose beneficiary code and reference are too long has no QR code, and
  nothing says so; neither has one with a blank name (`QrReadsBack` names the cases).
  The reference is tested trimmed and written untrimmed.

Organizations:

- Two managers who remove or demote each other at once leave none
  (member.service.ts:276); a promotion decided on an older role takes a newer one
  away (line 135). The ghosts of `Organizations` mark these cases.
- A membership made active again is not counted against the plan
  (member.service.ts:220), and two memberships without a branch are not duplicates
  for the unique index.
- An organization the operator creates has no manager and nobody who could name one.

Reports:

- Neither report is read in a transaction: its parts can differ by what changed
  meanwhile. The finances' oldest month starts in UTC while rows are grouped by
  Luanda's months.
- The heading of a section of the PDF can stay alone at the end of a page: 60 points
  are asked for, and a heading with a table's header needs more. The last column
  ends 4 points right of the text.
- The baseline of a table's first row is 4 points under the header's shaded band, so
  its capitals (about 6.5 points) are drawn into it (analytics-pdf.ts:148, 167), under
  the header's text: its last baseline is 6 points over the edge of the band.
  `LayoutSound` allows exactly this; what hangs from the header's letters is not counted.

Pages:

- Overlapping readings without a guard, so that the last reply to arrive is shown:
  the manager's page, the counter's state, the account, the list of machines, the
  search, the queue and its board.
- A change is followed by a reading of what was selected at the click, not of what is
  selected when it is answered; forms keep ids of the organization selected before.
- The manager's page does not read the organizations again after saving one, so a
  later change of its logo resets the form to the old name; its operations card is
  not read again after a queue changes.
- A change of language runs the effects again and resets the selection to the first
  organization.
- The account's page can put old preferences back when it is read again while they
  are saved, and switching one writes over an unsaved telephone number.
- When `/api/tickets/me` fails, the queue's page offers to join again.
- A change whose second reading fails is shown as a failed change (admin, its ATMs);
  closing the deletion dialog by its backdrop (admin/page.tsx:793) keeps what was
  typed in it.
- Checkout: once a card was chosen, the other methods have no button to go on; a card
  that is still processing counts as paid; the receipt of an earlier proof can appear
  under a new payment. The customer's page (subscricao/page.tsx:104) confirms at once
  when the subscription was active before, which is why `ConfirmedMeansPaid` speaks
  of the subscription there.
- The kiosk takes a second ticket when the answer to the first was lost.
- Any error but an unreachable server signs the user out (SessionProvider.tsx:39), and
  a reading under way when he signs out signs him in again on the screen.

## Proofs

TLC checks an instance; the theorems below hold for any number of customers, queues,
tickets, requests, payments, drains, organizations, machines or pages, for texts,
tables and periods of any length, and for any values of the constants that satisfy the
assumption named in the module they are about. Each rests on an inductive invariant,
which TLC has checked too; a lemma per action shows that it is kept.

### The queue engine, under any interleaving

From `ConstantsOK`: the null values are not customers, requests or queues, and the
bounds are natural numbers.

| Module | Theorem | States |
| --- | --- | --- |
| `QueueEngineProofs` | `TypeCorrect` | `[]TypeOK` |
| | `NumbersInOrder`, `NumbersUnique` | `[]NumberInv`, `[]UniqueNumbers` |
| | `DispenserImplemented` | `ImplementsDispenser` |
| | `OneActiveTicket` | `[]OneActivePerUserPerQueue` |
| | `OneTicketCalled` | `[]OneCalled` |
| | `CalledOnlyWhenWaiting` | `CalledFromWaiting` |
| | `OpenQueuesAdmit` | `OnlyOpenQueuesAdmit` |
| | `OnlyTransfersRevive` | `TerminalNeverWaits`, if no request is a `transferTicket` |

`UniqueNumbers` is not inductive: nothing in it says where the next number comes
from. `NumberInv` adds that a committed number is within its queue's sequence;
that a sequence incremented but not committed belongs to a request holding the
queue's lock, which has either not yet given the number to a ticket or holds
that ticket's lock too; and that a row with no lock owner has one version. Most
steps are *quiet* (`QuietStep`): they lock rows and write other columns, and one
lemma covers them all. The others take a number (`TakeNumberPreserves`), give it
to a ticket (`GiveNumberPreserves`) or end a transaction (`CommitPreserves`,
`AbortPreserves`). `CommitIssues` shows that a commit issues nothing or exactly
one number, which is both why numbers stay in order and why the engine refines
the dispenser.

What is called rests on four more invariants. `ActiveInv`: the partial unique
index looks at committed and newest versions, so no two of either kind collide.
`CallInv`: a version that is CALLED where the committed row is not belongs to a
`callNext` that holds the lock of its queue, in which nothing committed is CALLED.
`OpenInv`: a queue whose sequence is ahead of the committed one is OPEN. `RestInv`:
without transfers no version of a ticket is younger than the row it replaces;
`OnlyTransfersRevive` is the converse of finding 1, that nothing else in the
engine revives a ticket.

### The queue engine, one request at a time

`QueueSerialProofs` proves what `engine_sequential` checks, from `OneRequest`: no two
members of `Procs` differ. Overlapping requests break these properties (finding 1).

| Theorem | States |
| --- | --- |
| `PointerIsInProgress` | `[]CurrentIsInProgress` |
| `PositionsCached` | `[]CachedPositions` |
| `PositionNoticesSent` | `PositionNoticesExact` |
| `LifecycleImplemented` | `ImplementsLifecycle` |

None of the four holds of the rows a transaction is writing: the ticket, the pointer
and the positions follow one another over several statements. `SerialInv` says at
each label how far they have come: what the transaction has done to the tickets is
one action of the life cycle (`Lawful`); the pointers are right but for the queue the
next statement will set or clear (`PointersOK`); positions are live but in the queues
still to be ranked (`Stale`), where they are as they were (`PositionsOK`); those who
gained are told, but in those queues (`NoticesOK`); and before the first write, what
the request decided on still holds (`DecidedOK`). At `commit` nothing is stale, so a
commit publishes one lawful change with its notices (`CommitPublishes`).

### Messages, payments, tenants, public endpoints

| Module | Theorem | States |
| --- | --- | --- |
| `OutboxProofs` | `NothingAnnouncedEarly` | `[]NoPhantomMessage` |
| | `SentAsOftenAsTried` | `[]SentWithinAttempts`, and never more than `MAX_ATTEMPTS` |
| | `NothingElseOrphans` | `[]OnlyDeathOrphans` |
| | `SettledStays` | `SettledForGood` |
| `PaymentsProofs` | `PaidIsFinal` | `Orderly => PaidStaysPaid` |
| | `OneReceipt` | `Orderly => []ReceiptAtMostOnce` |
| | `ChainHolds` | `Orderly => []ChainUnbroken` |
| | `LedgerImplemented` | `Orderly => ImplementsLedger` |
| | `AcknowledgedIsPaid` | `Undisturbed => []AckedMeansApplied` |
| | `PaymentsBuyPeriods` | `PaymentBuysPeriod`, one request at a time and without plan assignments |
| `OrganizationsProofs` | `TenantsInOrder` | `[]TenantInv` |
| | `NothingOrphaned` | `[]NoOrphans` |
| | `ManagersKept` | `[]ManagerKept` |
| | `RolesCover` | `[]RoleCoversMemberships` |
| | `QuotasKept` | `[]QuotasHold` |
| `PublicEndpointsProofs` | `LimitKept` | `[]WithinLimit` |
| | `SessionsStand` | `[]SessionsProvePassword` |
| | `ShownOnlyAsSaid` | `[]ShownWasSaid` |

`OutboxProofs`, `PaymentsProofs` and `PublicEndpointsProofs` prove the types as well
(`OutboxTyped`, `PaymentsTyped`, `EndpointsTyped`).

*Outbox*, from `OutboxConstants`. The properties need to know who may touch a row.
`OutboxInv` adds that a pending row has an attempt left and one in PROCESSING is in
the hands of a drain, or a drain died (`RowOK`); that a row is locked or claimed by one
drain, which counted the attempt before it called the provider (`ClaimOK`, `HoldOK`,
`DrainOK`); and that nothing is drained before a commit (`RequestOK`).

*Payments*, from `PaymentConstants` and `NoEventIsNone`. `PaymentsInv` describes each
handler by its label (`Fine`), keeps two handlers `Apart` where a lock does (one
transaction, one subscription, one series), and relates each payment to its document
and its receipt (`RowOK`) and each series to its numbers (`SeriesOK`). The hypothesis
`Orderly` is `Undisturbed` (no proofs, no declined payments, no lost answers: what
`payments_concurrent` leaves out as well) or one request at a time. It cannot go: a
failure, a proof and a refusal that comes too late write a status by id after an
unlocked read, and undo a payment that succeeded in between (see Findings).
`AcknowledgedIsPaid` needs `Undisturbed` for a card that was declined first.
`PaymentsBuyPeriods` compares the subscription when a payment becomes paid with the one
before that step. Its invariant (`Granted`) relates a request to what it has read: past
the read of the period, the subscription is still as it read it, and what it will write
ends an interval after the date it read and after the end of the period that was there.
One request at a time is what makes that hold, and plan assignments are left out, as
`payments_sequential` does.

*Organizations*, from `TenantConstants`. `TenantInv` adds to the types that memberships
are of users and, for each request, what it still knows of the rows it read or locked
(`RequestOK`). `ManagersKept`, `RolesCover` and `QuotasKept` each add what the handler
has seen and who has outpaced it; the ghosts mark where the code promises nothing.

*Public endpoints*, from `LimiterConstants`, `AccountConstants` and `AtmConstants`. A
limit alone is not inductive: a row that has counted less than it admitted would admit
too many. `LimiterInv` adds `CountedWhileOpen`, that the row of a window which is not
over has counted all that was admitted in it, whether a count prunes or not and however
late its request is. `SessionInv` adds that a registration finds no session live and a
sign-in that was not overtaken has verified the present password. `AtmInv` adds that
a status was said even after it has gone stale, since an edit changes the row without
a word.

### Real time

| Module | Theorem | States |
| --- | --- | --- |
| `RealtimeProofs` | `RealtimeTypes` | `[]TypeOK` |
| | `QuietPageIsCurrent` | `[]QuietShowsCurrent` |

From `RealtimeConstants`, for any pages, queues, versions, requests in flight and faults.
The property speaks of a page that expects nothing; while it does, somebody must have
the news. `RealtimeInv` says who, for a connected page: a signal that is still to be
published (`unpublished`) or on its wire, or else the last request it sent for the
selected queue (`HasSignalled`), which is unanswered, or failed, or was answered after the
last commit that is signalled, or is overtaken already; and if none is under way, the page
shows that version, or an error, or a reply that strayed. Requests of the other queue do
not matter: `Received` shows that a reply either is the last word, or strays, or leaves
the last request for the selected queue as it was or overtaken.

### Back office

| Module | Theorem | States |
| --- | --- | --- |
| `BackOfficeProofs` | `ConfirmedIsPaid` | `[]ConfirmedMeansPaid` |
| | `PagesShowSelection` | `[]PageShowsSelection` |
| | `FinancesStayClose` | `[]FinancesAgree` |
| | `ReportsAddUp` | `[]ReportAddsUp` |
| | `DocumentLaidOut` | `[]LayoutSound` |
| | `RenewalsLastLongEnough` | `[]RenewalsKeepTheDay` |
| | `TransfersReadBack` | `[]QrReadsBack` |

*Checkout*, from `CheckoutOK`: no purchase is the null value. `CheckoutInv`: every poll
under way is of the payment that is shown, because the clean-up of React's effect drops
the others, and one that was told "yes" could have been; while a transaction is being
created, nothing is confirmed.

*Pages*, from `WebOK`: what the server lists can be chosen, and `Nothing` is none of it.
First, that each page is made soundly (`PageSound`): a part is read by one effect, which
guards all it reads or nothing, and what a change alters is read again, shown from its
answer, or named in `LeftStale`. One lemma per page; the rest of the proof never looks at
a page again. `WebInv` then says of every part that is not `unsure` (`Sure`): at most
one reading of it is under way, for what is selected and asked for after its last
confirmed change; or none, and it shows just that. All that React does goes through
`Render`, and so does the proof: `RenderKeeps` says what a render keeps, whatever was
asked for, dropped or patched, and each action shows that it meets its hypotheses.

*Finances*, from `ReportsOK`: finitely many transactions, and the months asked for are in
the calendar. `FinancesInv`: the answer of each query is the one for some set of
payments (`PaidBefore`) which lacks nothing but what was paid since the report was asked for, and
that of the pending ones for a set (`PendingBefore`) which differs from theirs by no more
than what has changed since. Sums over such sets differ by no more than that; one payment
may be in both, or in neither (`PaidOrPending`). A month has all its payments when the
window starts before it does.

*Analytics*, from `AnalyticsOK`: finitely many tickets, queues and branches.
`AnalyticsInv`: each result that is in, summed up, is no further from what is committed
now, and from what else is in, than rows have changed since the first query. That the
groups of a query add up to the rows it counts, whatever it groups by (`Grouped`,
`PerformanceOf`), is the part that rests on the lemmas about sums.

*Document*, from `LayoutOK`: tables of any length. `PdfInv` relates what is still to be
drawn to what is drawn. `InOrder` says what may follow what: rows follow a header or a
row, a chart and a peak their title, a row or the table's end a header or a row. `Room`
says what the tests for space have left for the next item; `Laid`, that everything drawn is
above the pen by the gap its kind leaves, within the margins and in order, and that rows
have a header on their page; `Clear`, that a text of any size has its place at the pen,
wherever no row is next.

*Renewals*, from `RenewalsOK` and `CalendarOK`: the months paid for are in the calendar.
`RenewalInv`: a period ends on the day of the month the first one started on, at its
hour, until a month is too short; from then on, on the first, second or third day of
the month after it, and there it stays. So the overflow is paid out once
and at most three days long.

*Bank QR codes*, from `QrOK`: accounts of any digits, with AO or without, texts of code points below 2048
(two bytes of UTF-8 at most), an acquirer's identifier that is given, and amounts of 31
bits, as their column has them. `TransferInv`: the payload is the encoding of its
elements one after the other, the cursor stands where the first of those not read yet
begins, and what was read are the elements before it. It needs that the IBAN made for
an account number is always valid (`CheckDigitsAreRight`: `toAngolaIban` is translated,
and remainders by 97 are computed digit by digit), that trimming leaves something of a
text that is not blank (`TrimTyped`), that the encoding of a
concatenation is the concatenation of the encodings and a header encodes to itself
(`TlvEncoded`), that only the account, or a text that is blank or too long, keeps a code
from being made (`BuildableUnlessExcused`), and that a reader at the start of an element finds
its tag, a length within the payload and its value (`ElementAhead`).

Sums, the calendar and what is folded over texts are recursive, over finite sets, months
and positions. What the proofs need of them is proved in the same module, by induction
over a set that is given as such (`P == {n \in Nat : ...}`, or the well-founded order of
subsets), not over a predicate: sums do not depend on the order (`SumOf`), and every day
up to the end of the calendar is in one month, which is later for later days.

## What is not proved or not modelled

Liveness (`EventuallySettled`, `EventuallyCurrent`, `CollectedIsApplied`) is
model-checked only: proving it needs fairness and ENABLED, which the prover does
not handle. Every invariant and action property of a passing run is proved. The
theorems say no more than the models: that a lock is held until a commit, that an index
is unique and that a statement reads committed rows is PostgreSQL's promise, and is
assumed.

Not modelled:

- E-mail and message providers: pure I/O; the outcome of a call is a choice in the
  modules that make one.
- Cryptography of fiscal signatures and the drawing of an invoice, which is one fixed
  page; which document is chained to which is in `Payments`.
- CSV and XLSX exports, metrics, alerts and the operators' lists: single reads and
  formatting.
- The public board, search and directory on the server: single reads, modelled as
  what the pages read.
- HTTP helpers, RBAC tables, serializers and validation schemas: stateless. Who may
  call an operation is a guard in the modules where a decision depends on it.
- Translations, styles, the camera and static pages.

### Plan

Left are the hazards that no property covers yet (`PROJECT.json` says why), and code
points above 2047 in the QR codes.

## Conventions

A definition named `<What>_<definition>` is `<definition>` with a plausible bug
in it; `PROJECT.json` names, for each property of each passing run, one that
breaks it. MC modules hold only the instances of a specification. Every run is
`tlc -config <cfg> <module>`; every proof is `tlapm <module>`.
