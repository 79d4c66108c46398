# Climavent backend: formal models

TLA+ models of this repository (a NestJS, Sequelize and PostgreSQL marketplace
for climate equipment; `src/src/` is the application): order fulfilment, the
quotations before it, the people who deliver and install, the sessions of
everybody's accounts, and the chats of customers with stores.  They are
written from the code, one action per handler or, where
a handler lets others run between two of its database accesses, one action per
access.

## What the system consists of

| Component | State | Operations | What is hard |
|---|---|---|---|
| Deliveries (`deliveries/deliveries.service.ts`) | `deliveries` rows: status, mode, courier, fee, hand-over code, tracking link, arrival | create, publish, unpublish, decideFee, assign, claim, accept, reject/release, pickup, start, arrived, deliver, fail, handover, retry, return, cancel, cancel with the order | backoffice, courier, customer, timer and order cancellation act on one row; some handlers read without the lock and write later |
| Board timers (`tickOpen`, `tickFeeOffers`) | `opened_at`, `publish_radius_km`, `open_warned_at`, `fee_proposed_at`, `fee_reminded_at` | grow the radius, warn once, remind once, expire | stale instances, overlapping runs |
| Couriers, vehicles, shifts, rates (`couriers.service.ts`, `courier-vehicles.service.ts`, `courier-work.service.ts`, `load.ts`) | couriers, vehicles, shifts, payouts | online/offline, approve, start/end shift, settle cash | cash on hand against deliveries, vehicle fit |
| Orders (`orders/`) | `orders.status`, packing stage per store, order items | create, update (status by hand), setStoreStage, syncOrderStatus | status derived from deliveries, jobs and stages after their commits |
| Quotes (`orders/quotes.service.ts`, `quote-sections.ts`, `quote-section.jobs.ts`) | `orders.kind`, `order_quotes`, `order_quote_sections`, prices of lines | send, issueSiteQuote, accept with a follow-up order, reject, requestAgain, sweep of silent stores | reads before the transaction; replicas sweep together and die half way |
| Service jobs (`service_jobs/`) | jobs: status, schedule, worker, crew, executors, price, code | assign, schedule, accept, start, arrive, begin, price, complete, fail, warranty, review | prices asked and answered on site while the job is completed, retried or re-priced |
| Crews (`crews/`), service catalogue | crews, members, invitations, trust score, services | invite, revoke, join, remove, admin edits | membership ends while executors are chosen; counters derived from jobs |
| Courier applications (`courier_applications/`) | applications, documents, invitations | create, resubmit, withdraw, requestInfo, reject, approve, hourly clean-up | stale instances of applicants against decisions and the clean-up |
| Seller applications | application status, documents, deadlines | submit, review, approve, expire | timers against reviewers |
| Accounts, sessions, OTP (`users/`, `otp/`, `store_auth/`, `store_staff/`) | refresh tokens, codes and attempts, `token_version` | code, verify, login, refresh, change password, sign out, delete | no lock anywhere: tokens raced, answers lost, tokens used again |
| Chats (`chats/`) | messages, files, a read cursor per side | upload, send, read, hourly sweep of unsent files | sends repeated after lost answers; a sweep that removes while a send takes |
| Catalogue, reviews, banners, settings, files | single rows | CRUD | little concurrency |

Components meet in the database and through direct calls: the order service
calls `cancelDeliveriesForOrder` and `cancelJobsForOrder` after it has written
a cancelled status, deliveries and jobs call `syncOrderStatus` after their own
commit, timers (`setInterval`) call the same services as the HTTP handlers.
Push messages and websocket signals leave the system and return nothing.

What makes each component correct:

- *deliveries*: the courier, fee, code and link columns stay in step with the
  status; status changes follow `TRANSITIONS`; no amount is collected for which
  no yes was recorded; who answers for the goods changes by agreement;
- *board timers*: one reminder per proposal, an expiry that leaves the row whole,
  a warning in the end, no reach taken back;
- *orders*: the status is the one its parts imply, a cancelled order has no
  live parts, a finished one becomes `done`;
- *jobs*: work starts only on a confirmed time and an accepted price, the
  customer pays what was agreed, only the job's own people work on it;
- *quotes*: an accepted order is priced and has its offers, a silent store is
  given up and told once;
- *applications*: a decision is whole (account, papers, membership), papers
  under review are kept, an invitation serves one person;
- *sessions*: one code opens one session, a session has one token, reuse (of a
  customer's token) and a new password (of a store account) end sessions, and a
  customer's session ends by nothing but what is meant to end it;
- *chats*: a message is there once with its files, what was read stays read.

## Modules

- `DeliveryRules` - `deliveries/constants.ts`: statuses, modes and the table
  `TRANSITIONS`, and the status changes it allows.
- `Delivery` - the rows of one order under all handlers of
  `deliveries.service.ts` that change them.
- `Custody` - what deliveries promise: who answers for the goods; no calls, no
  locks, no fees.
- `Delivery_proofs` - the theorems about `Delivery`.
- `OrderFlow` - one order's status against its packing stages, deliveries and
  service jobs (`orders/order-progress.ts`, `orders.service.ts`, and what
  `deliveries.service.ts` and `jobs.service.ts` do to them).
- `OrderFlow_proofs` - the theorems about `OrderFlow`.
- `OpenBoard` - the board of open deliveries and its timer
  (`deliveries.module.ts`, `tickOpen`, `tickFeeOffers`), with time.
- `ServiceJobs` - the rows of `service_jobs` under `jobs.service.ts`,
  `service-orders.ts` and the crew's membership.
- `CourierApplications` - applications, documents and invitations
  (`courier-applications.service.ts`, `crews.service.ts`).
- `Quotes` - a request for quotation, its follow-up and its sections
  (`quotes.service.ts`, `quote-sections.ts`, `quote-section.jobs.ts`).
- `Sessions` - one account, its codes and refresh tokens (`users.service.ts`,
  `user-mobile-session.ts`, `store_auth.service.ts`, `mobile-session.ts`).
- `Chats` - one chat with its messages, read cursors and files
  (`chats.service.ts`, `chat-files.service.ts`, `chat-files.jobs.ts`).
- `ChatLog` - what a chat promises to those who look at it: no requests, no
  transactions, no sweep.
- `OpenBoard_proofs`, `ServiceJobs_proofs`, `CourierApplications_proofs`,
  `Quotes_proofs`, `Sessions_proofs`, `Chats_proofs` - the theorems about these
  modules.
- `MCDelivery`, `MCOrderFlow`, `MCOpenBoard`, `MCServiceJobs`,
  `MCCourierApplications`, `MCQuotes`, `MCSessions`, `MCChats` - instances for
  TLC.

### Delivery

`row[d]` holds the columns handlers decide on.  A hand-over code is its number
in the history of codes of the row (`code` is the stored one, `issued` the last
generated), so that "the code of this trip" and "a code the customer was shown
earlier" differ; `track` is the courier for whose trip the stored tracking
token was made, `arrived` the code of the trip on which `arrived_at` was set.
These three are the identity of a hash or timestamp, not its value.  `agreed` is
history, not a column: the amount that stood in the row when the customer's yes
was recorded.

A handler that works in one transaction under `SELECT ... FOR UPDATE` is one
action.  `handover`, `courierDeliver`, `courierPickup`, `courierFail`,
`trackingLink`, `decideFee` and `cancelDeliveriesForOrder` read first and come
back later; each is a call record in `calls[p]` with one action per access, and
`Drop` ends a call anywhere (a failed re-check, a failed upload, a restart:
nothing of a request survives in memory).

| Code | Actions |
|---|---|
| `publish` | `PublishForStore`, `ProposeToCustomer` |
| `unpublish`, `assign`, `cancel`, `returned`, `retry` | `Unpublish`, `Assign`, `Cancel`, `Returned`, `Retry` |
| `tickFeeOffers` (expiry) | `ExpireFee` |
| `claim` | `Claim` |
| `courierAction` | `Accept`, `Reject` (own courier), `Release` (platform), `Start` |
| `courierArrived` | `Arrived` |
| `handover` | `HandoverBegin`, `HandoverCode`, `HandoverApply` |
| `courierDeliver` | `DeliverBegin`, `DeliverCode`, `DeliverApply` |
| `courierPickup`, `courierFail` | `PickupBegin`/`PickupApply`, `FailBegin`/`FailApply` |
| `trackingLink` | `LinkBegin`, `LinkWrite` |
| `decideFee` | `DecideBegin`, `DecideAccept`, `DecideReject` |
| `cancelDeliveriesForOrder` | `CancelOrderBegin`, `CancelOrderRow` |

Left out: addresses, windows, loads and photos (`update`, `savePickupInfo`,
`courierIncident`, `location` change only those), the eligibility of a courier
to claim or be assigned (any courier may be eligible), amounts of cash on
delivery, pushes.  `create` commits the initial row.

`Custody` is the abstract specification.  `Delivery` implements it under the
mapping `phases`, `holders`: pending and open are waiting (nobody's), assigned
is offered (still replaceable), accepted is bound, picked up and on the way are
carried, failed is missed, the three closed statuses are closed.  The calls in
flight and all other columns are invisible; the order's cancellation of a closed
row is a stutter.

Definitions marked `Mutant` are wrong versions of a handler; no specification
uses them.  They document which mistake each property would catch.

### OrderFlow

`OrderFlow` looks at the same rows from the order: of a delivery or job it
keeps the phase `syncOrderStatus` tells apart (`pending` stands for pending,
open, assigned and accepted; a job's `on_the_way` also for arrived).  A handler
that moves a row commits first and calls `syncOrderStatus` afterwards; `owed`
counts the commits whose call is still to come, `Sync` is the call (it locks the
order, so it is one action), `LoseSync` the call that never happens because the
process stopped or the database refused - the code does not make up for it.

| Code | Actions |
|---|---|
| `syncOrderStatus` | `Sync`, `LoseSync`; `Target` and `Synced` are its computation |
| `courierPickup`, `start`, `courierDeliver` and `handover`, `courierFail`, `retry`, `cancel`, `returned` | `PickupDelivery`, `StartDelivery`, `Deliver`, `FailDelivery`, `RetryDelivery`, `CancelDelivery`, `ReturnDelivery` |
| `create` | `CreateBegin` (order read), `CreateCommit`, `Refuse` |
| `workerStart`, `workerBegin`, `workerComplete`, `workerFail`, `retry`, `cancel`/`customerCancel`, `update` of a job | `StartJob`, `BeginJob`, `CompleteJob`, `FailJob`, `RetryJob`, `CancelJob`, `LinkJob` |
| `setStoreStage` | `StageBegin` (checks under the order's lock), `StageWrite`, `AutoPickup` |
| `updateOrderById` | `UpdateBegin`, `UpdateWrite`, then the sweep |
| `createServiceLinesAndJobs` | `CreateJobs` |
| `cancelDeliveriesForOrder`, `cancelJobsForOrder` | `ListDeliveries`, `SweepDelivery`, `DeliveriesSwept`, `SweepFails`; `ListJobs`, `SweepJob`, `JobsSwept` |

`setStoreStage` holds the order's row lock between its two actions
(`OrderLocked`), so `Sync`, `UpdateWrite` and `CreateCommit` (a foreign key to
the order) wait.  `disturbed` is a history variable: it becomes true when a
sync or a cancellation is lost, or a status is written by hand; properties about
the computed status are about orders it is false for.  `createOrder` accepts
`shipping`, `done` and `cancelled` as a first status (a message in it says `new`
or `paid`): such an order counts as set by hand.  It commits the order before its
jobs, so everything else may happen in between, and `CreateJobs` may never come
(the request fails after the order is there).  Jobs added to an order that was
cancelled in between stay live, as no sweep comes again: this too sets
`disturbed`.

Left out: the contents of an order, warranty jobs (`parent_job_id`, which the
computation ignores), jobs without a worker's step (assign, accept, reject do
not leave `pending` here).

### OpenBoard

A run of the timer (`run[r]`) reads the open rows once and works through these
instances; `setInterval` starts a run whether or not the previous one has
ended, so several are under way.  Time is the age of a timestamp (`opened`,
`asked`), and `Tick` makes every age one older, those held by runs too: an
instance keeps the timestamp it read, and its age is taken when its turn comes.

| Code | Actions |
|---|---|
| `publish`, `decideFee`, `unpublish` | `PublishForStore`, `ProposeToCustomer`, `DecideFee`, `Unpublish` |
| `claim`, `assign`, `courierAction` reject, `retry`, `cancel` | `Claim`, `Assign`, `Release`/`Reject`, `Retry`, `Cancel` |
| `DeliveriesJobs.tickOpen` | `StartRun`, `EndRun`, `RunFails` (errors are logged) |
| `tickOpen` | `Widen` (radius), then, after `notifyOpen`, `Warn` |
| `tickFeeOffers` | `ListProposals`, `Expire`, `Remind` |

`taken` stands for every status with a courier: the trip itself is `Delivery`.
`reminded` is a history variable.

### ServiceJobs

`job[j]` holds the columns the handlers decide on: `cod` is `cod_amount`,
`before` is `cod_before_price`, `final` and `answer` are `final_amount` and its
status.  Handlers under `SELECT ... FOR UPDATE` are one action; `Locked` is the
lock `workerSetCrew` holds between its two accesses.

| Code | Actions |
|---|---|
| `update`, `assign`, `assignCrew`, `schedule`, `cancel`, `retry` | `UpdateCod`, `AssignWorker`, `AssignCrew`, `Schedule`, `Cancel`, `Retry` |
| `workerSetCrew`, `removeMember`, `joinCrewByInvite` | `SetCrewBegin`, `SetCrewWrite`; `RemoveMember`; `JoinCrew` |
| `workerAccept`, `Reject`, `Start`, `Arrive`, `Begin`, `Fail`, `Price` | actions of these names |
| `workerComplete` | `CompleteBegin` (unlocked read), `CompareCode`, `CompleteApply` |
| `customerCancel`, `customerSchedule`, `answerPrice` | `CustomerCancel`, `CustomerSchedule`, `AnswerPrice` |
| `refreshJobAmounts` in the acceptance of a quotation | `KpBegin` (unlocked read), `KpWrite` (`sum`: what the offer says of each job) |
| `ensureQuoteKind`, and `create` of an order | `BecomeQuote` |
| `cancelJobsForOrder` | `SweepBegin`, `SweepJob` |

`base` and `done` are history variables: the cash agreed before anything on
site, and how often the job was added to `stores.jobs_done`.

`unpriced` is `orders.kind = 'quote'`.  A job may have its price already while
its order is a quotation (another store's lines are not priced), an order may
become a quotation again when a line without a price is added to it, and then be
accepted again at other amounts (`Offers`), though workers are at work on other
jobs or on the job itself: `refreshJobAmounts` leaves those alone.  The jobs of
one store in one order are meant.  An acceptance that moves them to a follow-up
order, itself a quotation, changes none of their columns and is a `Drop`.  Of two
acceptances one transaction waits for the other at the order's row; that both may
have passed the check before it is a subject of `Quotes`, here the check and the
beginning of the transaction are one step.

### CourierApplications

An applicant's handler checks first (the phone is free, documents are free, the
status allows it) and writes later, through the instance it read: two actions
joined by `calls[p]`.  Decisions lock the row; `approve` is two actions under
the lock, as it reads the invitation and writes later.  An account for the
phone may also be opened elsewhere (`AccountElsewhere`, the superadmin's form of
`couriers.service.ts`).

| Code | Actions |
|---|---|
| `uploadDocument`, `runMaintenance` | `UploadDocument`, `Maintenance` (orphans), `Purge` (each refused application) |
| `create`, `createFromInvite` | `CreateBegin`, `CreateCommit` with `LinkInvite`, `LinkDocuments` |
| `resubmit`, `withdraw` | `ResubmitBegin`/`ResubmitCommit`, `WithdrawBegin`/`WithdrawCommit` |
| `requestInfo`, `reject`, `approve` | `RequestInfo`, `RejectApplication`, `ApproveBegin`/`ApproveCommit` with `JoinCrewByInvite` |
| `createInvite`, `revokeInvite`, `update` of a crew | `CreateInviteBegin`/`Commit`, `RevokeInviteBegin`/`Commit`, `UpdateCrew` |
| time limits | `DocumentAges`, `ApplicationAges`, `InviteExpires` |

### Quotes

The lines of one store in a request stand or fall together, so `at[s]` is the
order they are in and `price[s]` their price; an offer is a record in `quotes`.
`order[o].total` says whether the order has a total.  `send`, `issueSiteQuote`,
`accept`, `reject` and `requestAgain` each check the order before their
transaction: two actions each, and `send` and `issueSiteQuote` a third that
marks the ready sections.  `Unique` is the unique index on order, store and
version.

| Code | Actions |
|---|---|
| `send`, `issueSiteQuote` | `SendBegin`, `Send`, `SendMark`; `IssueBegin`, `Issue`, `SendMark` |
| `accept` | `AcceptBegin`, `Accept` (`Move` takes unpriced lines to the follow-up order) |
| `reject`, `requestAgain`, `isQuoteExpired` | `RejectBegin`/`Reject`, `AgainBegin`/`Again`, `Expire` |
| `sweepSections` | `SweepInsert`, `SweepRead`, `SweepRow` (`MarkTimeout`, `MarkReminder`), `SweepDies` |

Ages of a section are 0 (fresh), 1 (due for the reminder) and 2 (due to be given
up).  `order[o].recent` says that the order is younger than three timeouts:
`SweepInsert` asks for it, `OrderAges` ends it.

### Sessions

Nothing is locked here, so an action is one access to the database.  A token is
its number and its row keeps the number of its replacement (`next`) and of the
first token of its chain (`root`: history, what a session is).  `held[d]` is the
token device `d` has; `Drop` loses an answer, so a device may come again with a
token that was already replaced.  `closed` is history: the sessions ended by
reuse or by a new password, `lowered` whether a change of the password has written
a lower version over a higher one.

`changePassword` reads the version, hashes passwords for a while and writes what
it read plus one, without a lock: `ChangePassword`, `Bump` and `EndAll`, and two
changes may be anywhere between these.  If both have read the same version they
write the same, so that a session begun between the two writes is still of the
account's version after the second one, and ends only by `EndAll`, which may not
come; it is no earlier session for `PasswordEndsSessions`.  If one has been
overtaken by two others it writes a lower version, with which old tokens are
valid again: from then on (`lowered`) the property asks nothing.

| Code | Actions |
|---|---|
| `loginUser`, `newOtp` | `Login`, `SendCode` |
| `verifyOtpClient` | `VerifyBegin`, `Reserve` (attempt), `Claim` (code used), `Activate`, `Issue` |
| `refreshMobileSession` | `Refresh`, `CheckAccount`, `Create`, `Swap`, `Discard`, `FindAgain`, `Reply`; `Upgrade`, `Spend` for the legacy token |
| `StoreAuthService.refresh` | `Refresh`, `Close`, `Take`, `Link` |
| `login`, `changePassword` of a store account | `StoreLogin`; `ChangePassword`, `Bump`, `EndAll` |
| `signOutUser`, `deleteUser` | `SignOut`, `DeleteUser`, `DeleteStale` |
| time limits | `ExpireCode`, `ExpireToken`, `CloseWindow` |

Left out: the block of a customer and `revokeSessions` by an admin
(`users.service.ts`), which raise the version as a new password does for store
accounts, access tokens, and the fields of a profile.

### Chats

`send` is one transaction, and what it has written is seen by others only when
it ends: a message is `open` until then, and `Locked(f)` is a file such a
transaction has taken, which other statements see without a message and wait
for.  Numbers come from a sequence, outside of any transaction, so they are
visible out of order.  `send[k]` is what an app asks for with its
`client_msg_id` (`Keyed`) or without one, and `SendBegin` may repeat it for
ever; `Answer` may lose the response.  A file keeps its row and its object apart
(`state`, `whole`): the object store takes part in no transaction.  `told` and
`answered` are history variables.

`ChatLog` is the abstract specification: a message is posted in one step, with
its files, which are its author's and in no other message, and with its author's
cursor on it; files go from new through loose to sent or gone, and nothing posted
changes.  `Chats` implements it under `posts` (the messages whose transaction has
committed, with the rows of `chat_attachments` that name them) and `shelf` (a row
that an open transaction has taken is still loose): `Commit` is the posting, and
numbers, rows that are locked or rolled back, age and the object store are
invisible.

| Code | Actions |
|---|---|
| `ChatFilesService.upload` | `Upload` |
| `ChatsService.send` | `SendBegin`, `Number`, `Place` (ON CONFLICT), `Link` (`ChatFilesService.link`), `Commit`, `Deliver`; `SendFails` |
| `read` | `Read` |
| `ChatFilesJobs.tick`, `sweepOrphans`, `removeR2` | `TickBegin`, `SweepRead`, `SweepRemove`, `SweepDelete`, `SweepFails` |
| the process, time | `Crash`, `Age` |

## Runs

`MCDelivery.cfg` checks one row with two couriers and two requests in flight:
two couriers let one replace the other, two requests let any two unlocked
handlers overlap each other and all locked ones, two fees let a proposal be
replaced by a different one, two tries reach the blocked code, three codes allow
a second trip after a failed one.  Rows do not influence each other except
through `cancelDeliveriesForOrder`, which treats each alone, so one row
suffices for properties about single rows; the theorems hold for any number.
Couriers and requests are symmetric.  Deadlock is not checked: a closed row
with every code used has no further step.

What holds:

- `TripHasCodeAndLink`: whoever drives has a new code and a link;
- `FeeConsent`: an amount that reaches the board or a courier is the very one for
  which a yes was recorded, and nothing since has changed it.  Whether it is the
  amount the customer had seen is another question, and the code's answer is no:
  see `AnswerMeetsItsProposal` below;
- `BoardIsSettled`: nothing is on the board that the customer is being asked about;
- `TableOrOrderCancelled`: what no step may do;
- `ImplementsCustody`: the refinement of `Custody`.

`MCOrderFlow.cfg` checks one store with two delivery rows (a second delivery
after a cancelled, returned or completed one), one job, one request between two
of its accesses and two owed syncs, so that a stage change, a creation, an update
or a cancellation is overlapped by syncs, couriers and workers; no symmetry, as it
checks liveness.  Two requests that overlap each other are in
`MCOrderFlow_CancelledHasNoLiveDelivery.cfg`, and in the proofs, which cover the
safety properties for any number of requests.  `Chosen` has one status
written by hand, one that may only be echoed, one old name and `cancelled`:
other values take the same branches.  Deadlock is not checked: a closed order
may have nothing left to do.

- `InstallAfterDelivery`: no work before its goods are handed over;
- `OnTheWayIsShown`, `StatusFollowsStages`: the status its parts support;
- `FinishedStays`: no late sync re-opens an order;
- `JobsFollowCancellation`, `DoneWhenAllDelivered` (liveness).

Fairness: weak fairness of `Sync` and of each request's next step.  A handler
that has committed goes on to the call of `syncOrderStatus`, and a request in
progress to its next statement, as long as the process runs; that it may not is
`LoseSync`, `SweepFails` and `Drop`, which set `disturbed`.  Weak fairness is
enough for `Sync` because the order's lock, which delays it, cannot be taken
again by `setStoreStage` once a delivery of the only store was picked up.  No
fairness is assumed of customers, couriers, workers or stores.

`MCOpenBoard.cfg` has one row (rows share nothing but the run that lists them),
a courier inside and one outside the first radius, and two overlapping runs.
The radius grows 1, 2, 4 with every unit of time, the warning is due at 3, the
reminder at 1 and the expiry at 2: ages from `MaxAge` = 3 on are not told apart,
so every limit is reached, and instances older than a whole life of a proposal
occur.  No symmetry: the run checks liveness.  `FairSpec` is weak fairness of
the interval, of the steps of a run and of time: `setInterval` never stops while
the service runs and nothing in a run waits for another.  Nobody is assumed to
publish, answer, claim or release.  A service whose runs fail for ever
(`FailsForever`) can promise nothing; the liveness properties say so.

- `BoardIsWhole`: expiry and requests leave what is open published, timed and
  settled;
- `RemindedOnce`: overlapping runs remind of a proposal once;
- `ReachNotTakenBack`: no old instance takes back a reach that is due;
- `EndsAtFullReach`, `SilentIsWarned`, `ProposalEnds` (liveness): although a
  stale instance may mark a row that was released and re-opened as warned, the
  store comes to be warned, the reach to grow, a proposal to end.

`MCServiceJobs.cfg` has one job (jobs of an order meet only in the sweep and the
acceptance, which treat each alone), the leader of a crew and another worker,
two requests in flight, two prices asked on site (one below and one above the
quoted one), an offer above the quoted price and one try of the code (a second
one repeats the branch of the first).

- `FirstTermsKept`, `FreshVisit`, `PaysOnlyByConsent`: the cash the customer is
  asked for is the one agreed, through re-pricing, failed visits and retries.
  Before the visit, where partner and quotation may still set it, and on a
  cancelled job, `PaysOnlyByConsent` asks nothing;
- `VisitAtAgreedTime`: nobody is on the way at a time one side did not agree to;
- `ExecutorsOfACrew`: no worker keeps a job taken back or given to another;
- `CountedOnce`: two completions of one job count once.

`MCCourierApplications.cfg` has two applications for the same phone, two
documents, one invitation and two requests in flight: enough for a second use of
an invitation, a second application after a refusal, and each two-step handler
against each decision.  Rows and requests are symmetric (no liveness).

- `HiredIsWhole`: an approved application has its account and its papers;
- `InviteServesOne`, `JoinsByStandingInvite`: the invitation's one use, while it
  stands;
- `PapersKept`: the clean-up spares papers under review.

`MCQuotes.cfg` has two stores (one may be ready when the other is not), one
follow-up order, two offers per store, two requests in flight and two sweeping
replicas.  `AgedOrBusy` leaves out three of them together: requests interleave
with each other while sections and orders are fresh, and with a sweep, or two
sweeps with each other, once one has aged.  `MCQuotes_Sweep.cfg` has one sweeping process that may die, one request and
fairness.  `FairSpec`: time passes, the timer sweeps again and again, and a sweep
is not for ever cut off before the same row.  Nothing makes an order grow old
(`OrderAges` is not fair), but it may at any time: lines that have no section by
then are never given up, which `SlowStoreIsGivenUp` excuses by name.

- `AcceptedIsPriced`, `AcceptedHasDocument`: late offers and second acceptances
  leave an accepted order priced, with its offers;
- `ToldOnce`, `SlowStoreIsGivenUp` (liveness).

`MCSessions.cfg` has two devices and two requests between statements, three
tokens, one code with two attempts and versions up to two: two sign-ins and a
renewal, or one sign-in and two renewals, so that a token can be replaced,
used again within the window and after it; two right guesses may both be past the
count of attempts, and two changes of the password overlap or one is overtaken by
two others.  `OfTwoTokens` leaves a second guess, and a second raise of the version,
to the behaviours with two tokens at most.  Devices and requests are symmetric.

- `CodeOpensOneSession`: racing guesses spend attempts, one opens a session;
- `OneTokenPerSession`;
- `ReuseEndsSessions`, of customers only: `mobile-session.ts:12-14` and
  `store_auth.service.ts:130-132` say the same of store accounts, which the
  property does not cover;
- `PasswordEndsSessions`, of store accounts, within the limits named above;
- `SessionsGoOn`: lost answers and requests that arrive together do not end the
  session of a customer's device that has a refresh token of its own (a row of
  `user_refresh_tokens`).  A device with the one legacy token is not covered: its
  token is taken back before the new one is issued (`users.service.ts:546-547`),
  so there a lost answer does end the session (`Spend`).  Neither are store
  accounts, which have no window for a repeated renewal.

`MCChats.cfg` has a customer and a user of the store, a message with a
`client_msg_id` and one without, two files, two requests in flight and two
numbers: two requests for one message, or one for each that take the same file
or commit out of order, and a sweep of one file at a time that meets each of
them.  Constraints leave out what the code keeps apart: cursors are moved by
`read` only while there are no files (`ReadsOrFiles`), files are the customer's,
and so is the message that is repeated (`CustomersFiles`, `CustomersRepeat`; the
sides are alike).  Files and requests are
symmetric.

- `MessageOnce`: one message of a repeated request, told once at most, and there
  if the app was answered;
- `SentFileIsWhole`: a message keeps its files;
- `CursorsStand`: what was read stays read, and is there;
- `ImplementsChatLog`: the refinement of `ChatLog`.

In every run deadlock is unchecked where a closed row has nothing left to do or
a bounded counter is used up; `MCCourierApplications` and `MCOpenBoard` check it.

What the code does not keep, each found by a run of its own:

- `CancelledHasNoLiveDelivery`: a delivery created from a status read before
  the cancellation stays live;
- `AnswerMeetsItsProposal`: `decideFee` refuses an answer when the proposal "has
  changed", but looks only at its state: a yes meant for 10 is recorded for 20 if
  the store has replaced the proposal in between;
- `CompletedAtAgreedPrice`: a job is completed although a price asked for
  between the two transactions of `workerComplete` is unanswered.

Other behaviours of the code that the models contain and no property denies:

- cancelling an order may set a delivered row to cancelled, which
  `constants.ts:36` does not list (`CancelOrderRow`);
- the store's `handover` may complete a row that became a platform delivery
  after its first check (`HandoverApply`);
- a tracking link requested before a release survives into the next courier's
  trip (`LinkWrite`), and `arrived_at` of a failed trip into the second one;
- an accepted quotation applies to the latest lines, whatever the customer saw
  (`Accept`);
- a timer's run that read a proposal expires whatever proposal is there when its
  turn comes, a fresh one too (`Expire`);
- a request whose order grows older than three timeouts before its lines have a
  section is never given up (`SweepInsert`);
- jobs created for an order that was cancelled after its commit stay live
  (`CreateJobs`);
- overlapping changes of a password write the same version, or a lower one
  (`Bump`);
- cancelling or returning the last open delivery does not recompute the order,
  which then never becomes done (`CancelDelivery`, `ReturnDelivery`);
- `resubmit` may set an application decided meanwhile back to pending, and
  `withdraw` to withdrawn (`ResubmitCommit`, `WithdrawCommit`);
- a stale instance of `tickOpen` may widen an opening that is not due yet or
  count it as warned (`Widen`, `Warn`);
- a file that is sent more than a day after its upload, between the sweep's read
  and its deletion, keeps its row and loses its object (`SweepRemove`): the
  property asks for the object of younger files only;
- a side's cursor passes messages of the other side that commit later with a
  smaller number, and those never count as unread (`Commit`);
- a process that ends between the commit and `deliver` tells nobody, and the
  repeated request does not either (`SendBegin`); one that ends between the put
  of an object and the insertion of its row leaves the object for good.

## Proofs

`Delivery_proofs` proves, for any rows, couriers, requests, fees and limits
(`ConstantsAssumption`: there is a row, limits are positive, the null values
are no members), every invariant of the run and the action property
`TableOrOrderCancelled`, and that `Delivery` implements `Custody`;
`NoSwapAfterAccept`, which the refinement implies, is proved beside it and has no
run of its own.

Every property is about one row and every step changes one row, so the
inductive invariant `IInv` is `RowOK` of each row with the types.  `FeeConsent`
is not inductive alone: a row is assigned from `pending`, where an amount may
wait for an answer (`assign` refuses), or may have been accepted before a
failed trip and its retry; `RowOK` therefore says which fee states may carry an
amount in every status, and that an accepted one is the `agreed` one.  `TripHasCodeAndLink` needs that a request about to
write a link has read a courier (`LinkCalls`).  `StoreStepOK`, `CourierStepOK`,
`BeginCallOK`, `CodeCheckOK`, `ApplyOK` and `CancelOrderOK` take the groups of
handlers one by one, `StepOK` joins them.  The action properties are one
predicate, `MoveOK`, on a row before and after, proved along the same split;
`EveryMove` says that a step changes one row at most, by such a move.  The
refinement follows from it: between two rows that are `RowOK`, a move is one of
the eight custody steps or shows no change (`MoveIsCustodyMove`), and the mapped
functions change where the row does (`CustodyStep`).

`OrderFlow_proofs` proves every invariant of `MCOrderFlow.cfg` and
`FinishedStays`, for any stores, deliveries, jobs, requests and bounds
(`ConstantsAssumption`, `ChosenAssumption`).  Types need `CallsOK`: what a
request has in hand at each of its steps.  The computation of the status is
used through four lemmas (`SyncedFinal`, `SyncedOnTheWay`, `Aim`,
`SyncedPacking`), a step through what it may do to a delivery (`OverStays`), a
job (`JobChange`), the status (`OrderChange`) and the owed syncs (`OwedChange`);
each theorem then is a short case split.

`OpenBoard_proofs` proves `BoardIsWhole` and `RemindedOnce` for any rows, runs,
distances and limits (`BoardAssumption`).  Runs write from instances that may be
of any age, so `IInv` says of rows (`RowOK`) that a proposal is on a pending
platform row or a cancelled one and an open row has a radius of at least the
first one, and of instances (`RunOK`) that their radius is 0 or at least that
one: an old instance can then not write what no open row may have.
`ReachCorrect`, the action property `ReachNotTakenBack`, needs `AgesOK` as well:
what a run holds of a row was read of its present opening or of an earlier one,
so it is at least as old, and a radius written from it is no smaller than what
the opening's own age calls for.  That the radius grows with the age is
`WantGrows`; that powers of two grow (`PowersGrow`) would be an induction and is
had from counting instead: a set has no fewer subsets than a part of it
(`FS_SUBSET`, `FS_Subset` of the library, of which the first rests there on a
step of arithmetic the library states without proof).

`ServiceJobs_proofs` proves every property of its run, among them the action
property `PaysOnlyByConsent`, for any jobs, workers, requests and prices
(`JobsAssumption`).  `RowOK` of each job is `TermsOK` (which of the three amounts
are there in which status, and which one is the agreed one), `VisitOK` and
`CountOK`.  An acceptance writes what it computed from an unlocked read, so
`TermsOK` says of a job on its list (`Offered`) that its visit has not begun:
`CallOK` adds that one acceptance at a time holds the order, which is a quotation
until it commits, and nobody sets out for the jobs of a quotation.  It also says
that the lock of `workerSetCrew` keeps the job with the crew.

`CourierApplications_proofs` proves every property of its run for any
applications, documents, invitations, phones and requests
(`ApplicationsAssumption`).  `HiredIsWhole` needs `InviteOK` (an invitation is
linked from both sides) and `PapersOK`; `PapersOK` needs `AgedOK` and `CallOK`:
the clean-up lists aged applications only, an aged one is refused and no request
works on it, and a request to re-submit has read papers that are still there.

`Chats_proofs` proves every property of its run, `CursorsStand` among them, for
any users, sends, files, requests and numbers (`ChatsAssumption`).
`CallOK` says how far each transaction is and what its number holds,
`NumbersApart` that no two hold the same, `MessageOK` and `FileOK` tie a file to
the one message that names it, `SweepOK` keeps what a sweep removes among aged
files: an object is then missing only of those.  `FileStep` joins the steps that
leave messages alone, `RollStep` those that undo a transaction.  `ChatIsLog` is
the refinement of `ChatLog`.  It needs `Own` besides (a message's files are its
author's, and a file that the sweep has read exists); steps inside a transaction,
of the sweep's reading and of a crash change nothing that others see (`Hidden`),
and `SendBegin`, `Place`, `Deliver`, `Upload`, `Read`, `SweepDelete` and `Commit`
each are a step of the log or a stutter.

`Quotes_proofs` proves every invariant of its runs for any stores, orders,
prices, requests and replicas (`QuotesAssumption`, with `Null` being no price,
order or section).  `accept` works from what it read before its transaction, so
neither `AcceptedIsPriced` nor `AcceptedHasDocument` is inductive.  `AcceptOK`
says what stays true of an acceptance under way: what was ready is ready still
and has its document, unless another acceptance has moved it, and one line at
least is in no acceptance's way to a follow-up order, so that an accepted order
is never emptied.  The latest version of an offer is the greatest of a set of
numbers (`LeastElement`, from the well-foundedness of the naturals, and
`GreatestElement`).  `ToldOnce` needs `ToldOK` (a push goes with the column that
says so) and `RunOK` (what a sweep remembers are sections there are).

`Sessions_proofs` proves every property of its run for any devices, requests and
bounds (`SessionsAssumption`). Nothing is locked, so all depends on what a
request carries from one access to the next.  `Lasting` is what no other request
can make untrue of it, `Delicate` what only the steps of a request that holds
the same row could, and `Apart` that there is no such request: no two have the
same heir in hand, and of a store's session one at most is renewed.  `SessionsOK`
(one usable token among the linked ones of a session, none of a session that was
ended) is then kept by every access; `CodesOK` follows the one request that
verified a code until it has opened its session, and `Unborn` says that nobody
else touches that session before its first token arrives.  `PasswordCorrect`
assumes nothing of two changes at once: a change that finds the version raised
since it read ends no further session, and `Newest` is the version nothing is
known above, the account's own unless it was lowered.  `GoOnCorrect` needs
`HeldOK`: a revoked token without an heir is the end of its session for
whichever device has it.

Only model-checked: liveness (`JobsFollowCancellation`, `DoneWhenAllDelivered`,
`EndsAtFullReach`, `SilentIsWarned`, `ProposalEnds`, `SlowStoreIsGivenUp`), which
needs fairness and `ENABLED`, beyond the prover; and the three violations.  Every
other property of a run is proved.

## Plan

In place: `Delivery` with `Custody`, `OrderFlow`, `OpenBoard`, `ServiceJobs`,
`CourierApplications`, `Quotes`, `Sessions`, `Chats`.  What remains, in order:

1. What sessions promise as a specification of its own (a session that is over is
   never open again), implemented by `Sessions` as `ChatLog` is by `Chats`.
2. Couriers' shifts, cash and payouts; fees and vehicle fit as operators.
3. Seller applications and their timers.

## Not modelled

- Shifts, cash on hand, payouts, vehicle fit and fee tariffs: `Delivery` lets any
  courier be eligible and any fee be proposed.
- Seller applications: a stage of the plan.
- Of chats: sockets and who gets a push, typing, the windows of the rate limits,
  checks of products and replies, thumbnails, and files kept in the database
  (`storage = 'db'`), whose bytes are deleted with their row.
- The pool of database connections, which `claim` uses twice in one request.
- Reviews, trust scores and levels: recomputed from other tables.
- Catalogue, products, banners, likes, stores, settings, cart: edits of single
  rows without a protocol between actors.
- Pushes, SMS, mail, files and websockets: output that comes back to no state.
- Guards and scopes: every modelled request is one its guard lets through.
