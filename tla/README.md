# Verification of the Chamba backend

TLA+ models of the backend in `src/`, the TLC configurations that check them on
small instances, and proofs of their main invariants for every value of the
constants. Paths below are relative to the repository; `M/` stands for
`src/src/modules/`.

Chamba is a marketplace for jobs: clients publish requests, workers near them
are alerted and make offers, the client accepts one, pays for it in cash or in
the app, and confirms the work. The backend is NestJS over PostgreSQL (TypeORM,
mostly raw SQL) with Redis (attempt counters, BullMQ) and Socket.IO. Any number
of replicas may run, and every `await` is a point where other handlers, other
replicas, the cron jobs and other people act. **That is what the modules
model:** one action is one SQL statement, or one transaction that locks what it
reads; a handler is several of them, and everything else happens in between.

## 1. Inventory

### Components, their state and operations

| component | source | state | operations |
|---|---|---|---|
| Requests, offers, jobs | `M/mobile/services/mobile-{offers,requests,requests-cron,admin}.service.ts`, `M/mobile/shared/mobile-request.repository.ts` | `job_requests.{status,budget,worker_arrived,client_confirmed_arrival,settled_amount}`, `job_offers.{status,amount,expires_at}` | publish, offer, counter-offer, discard, decline, reactivate, accept, mark and confirm arrival, complete, cancel (client, worker, admin), expire, the timeout cron |
| Payments | `M/payments/` | `payments` rows; the provider's charge | checkout, status polling, the check inside `acceptOffer`, `flagRefunds`, refund workflow |
| Bot simulation | `M/bots/` | schema `chamba_simulation`: settings row, profiles, scenarios | configure, provision, edit, start, pause, stop, run once, tick |
| Notification waves | `seedOffersForRequest`, `M/queues/`, `wave-dispatch.processor.service.ts` | BullMQ jobs or timers; `notifications` rows | slice by distance, deliver wave 0, enqueue, execute, retry |
| Notifications, push, sockets | `M/notifications/`, `M/realtime/`, `src/src/infrastructure/push/` | `notifications`, `push_tokens`, presence | deliver: inbox row, socket with acknowledgement, FCM |
| Agencies: fleet | `M/agency/services/agency.service.ts` | `users.{agency_id,is_agency_worker}`, invitations, terms | invite, consume the code, unlink, block, offer for a worker, remove an agency |
| Agencies: books | `M/agency/services/agency-operations.service.ts` | rates, `agency_job_ledger`, payouts, settlements | sync the ledger, pay out, settle |
| Accounts | `mobile-account.service.ts`, `M/users/` | `users`, a cached copy of each | request and cancel deletion, nightly purge, admin edits |
| Sessions and access | `M/access/`, `M/auth/`, `mobile.service.ts` | tokens, Redis counters | log in, reset, revoke |
| Pictures | `mobile-worker-portfolio`, `uploadProfilePhoto`, `uploadRequestPhoto`, `storage.service.ts` | `worker_portfolio_photos`, `profile_photo_public_id`, `job_request_photos`; images at Cloudinary | upload, show, replace, remove |
| Conversations, disputes, reviews | `mobile-chat`, `mobile-disputes`, `createReview` | messages, disputes, `worker_reviews`, averages | send, upload, close, resolve, review |
| Others | catalogue, geography, payment methods, Stripe, leads, dashboard, infrastructure | configuration rows | one statement each |

### How they interact

- Through the tables. `acceptOffer` reads the payments of the offer inside its
  transaction; `flagRefunds` reads the requests and the offers; an agency writes
  offers through the same `upsertOffer` as its worker; the ledger reads completed
  jobs.
- Through the cron jobs, on every replica: request timeouts (5 min), refunds
  (1 min), the tick of the simulation (5 s), the nightly purge of accounts.
- Through Redis: counters of attempts and two-minute copies of user rows, on
  which the edits of the administration rest while raw SQL writes the rows. `save()`
  of such a copy writes every column of the entity in which it differs from the row:
  the agency, the average rating and the profile photo of two minutes ago come back.
- Through the queue `worker-notification-waves` or in-process timers.
- Through broadcasts after the commit: a room is told a status that may have
  changed by then.

### What is hard here

1. **Check, then write by id.** Many handlers `SELECT`, decide, and `UPDATE`
   later. Some statements repeat the guard, some do not.
2. **The answer of the driver.** TypeORM answers a raw `UPDATE ... RETURNING`
   with `[rows, count]`. Code that tests `result[0]` sees an array, which is never
   falsy: such a guard is dead (the timeout cron, the account purge), and such a
   loop runs over the wrong list (`closePendingOffers`).
3. **A second authority**, the payment provider, whose state is known only by
   asking, in the middle of transactions or long after them; and a store of images
   that no transaction includes.
4. **Replicas**, crashes, retries, stalled jobs and lost timers.
5. **Things that must happen in the end:** timeouts, refunds, scenarios.

`PROJECT.json` lists the hazards of the code at their lines, with the properties
that cover each or the reason why none does.

### What makes each component correct

- *Jobs:* one winner per request and one job per worker; a completed job was
  confirmed, and settled at the accepted price; a closed request stays closed; the
  room is told the truth; no request stays open for ever.
- *Payments:* no row is paid that the provider did not receive; an acceptance in
  the app was paid at its amount; a refund is final; of several payments exactly
  one is kept; money taken for nothing is given back.
- *Simulation:* a bot has one job; stop is a fence; the limit holds; the map is
  right; everything ends.
- *Waves:* nearest first, nobody skipped by a wave that counts as done, alerts
  bounded by the attempts, one row in the inbox.
- *Delivery:* a push goes only to a device a recipient had; none of his devices is
  passed over, and none is knowingly told twice.
- *Screens:* whoever looks, the same worker has the job, for the same amount, once.
- *Fleet:* a worker enters an agency only with consent and from none; guesses of a
  code are bounded; an agency acts only for those who were its own.
- *Books:* frozen entries stay frozen, at a rate the agency set, billed once, owed
  by one side, and payable after the worker left.
- *Accounts:* what is erased was wished and leaves nothing; who is verified was seen.
- *Pictures:* what is shown exists, what is not shown is gone.
- *Old copies of users:* they bring back what was there, and nothing that never was.
- *Access:* guesses are bounded, locks end, closed sessions stay closed, a recovery
  sets one password.
- *Conversations:* nothing is said in a job that has ended; no photo is kept without
  use; marks and pages pass over nothing; the average counts every review.

## 2. Plan

| order | module | status |
|---|---|---|
| 1 | `JobMarket`, its abstraction `Assignment`, `JobMarketProofs` | done |
| 2 | `Payments`, `PaymentsProofs` | done, for the provider that is polled |
| 3 | `BotSimulation`, `BotSimulationProofs` | done |
| 4 | `Waves`, proved in `NotificationProofs` | done, for one request |
| 5 | `UserCopies`, `Fleet`, its abstraction `Membership`, `FleetProofs` | done |
| 6 | `AgencyBooks`, `AgencyBooksProofs` | done, without settlements |
| 7 | `Accounts`, with `Gallery` on top, proved in `AccountsProofs` | done |
| 8 | `Access`, proved in `AccountsProofs` | done |
| 9 | `Conversation`, `ConversationProofs` | done |
| 10 | `JobViews` on top of `JobMarket`, proved in `JobMarketProofs` | done |
| 11 | `Delivery`, proved in `NotificationProofs` | done, for alerts to people |
| 12 | `Acceptance`: the statements of `acceptOffer` with its row locks, refining the single action `Accept` of `JobMarket` | next |
| 13 | `Payments` and `JobMarket` composed over `Acceptance` | planned |

`Payments` and `JobMarket` meet in the life of one request: `Payments` has the
request's and offers' states as far as payments read them; that is why they wait
for `Acceptance`. The abstract specifications are exclusive assignment
and membership by consent, both
stated and proved. Every recursive
computation is a fold or a cardinality, so that each module can be proved about.
New instances should answer new questions: where one instance can carry the
properties of two, it does.

## 3. The modules

In every module `step` and `args` (or a stage, or an open transaction) say where a
handler stands and what it has read. A handler may stop anywhere (an error, a lost
connection, a restart): in some modules an `Abort` or `Crash` says so, elsewhere it
stays where it is for ever, which leaves the same tables behind. Operators marked
`Mutation` are bugs: each property has one that it finds. Variables called history
are written and never read by an action; they let a property speak of the past, and
name the exceptions that the code makes.

| system | modules | abstract | instance | proofs |
|---|---|---|---|---|
| jobs and their screens | `JobMarket`, `JobViews` | `Assignment` | `MCJobMarket` | `JobMarketProofs` |
| payments | `Payments` | | `MCPayments` | `PaymentsProofs` |
| simulation | `BotSimulation` | | `MCBotSimulation` | `BotSimulationProofs` |
| waves | `Waves` | | `MCWaves` | `NotificationProofs` |
| delivery | `Delivery` | | `MCDelivery` | `NotificationProofs` |
| fleet | `Fleet`, `UserCopies` | `Membership` | `MCFleet` | `FleetProofs` |
| books | `AgencyBooks` | | `MCAgencyBooks` | `AgencyBooksProofs` |
| accounts and pictures | `Accounts`, `Gallery` | | `MCAccounts` | `AccountsProofs` |
| access | `Access` | | `MCAccess` | `AccountsProofs` |
| conversations | `Conversation`, `UserCopies` | | `MCConversation` | `ConversationProofs` |

`Handlers` declares what `Accounts` and `Access` share: the users and the calls in
flight. Two proof modules read two models side by side that have no variable of
their tables in common, `Waves` and `Delivery`, `Gallery` and `Access`; which is why
the definitions of the first and the last carry its name (`WavesNext`, `AccessNext`).

### JobMarket

`status`, `budget`, `arrived`, `confirmed` and `settled` are columns of
`job_requests`; `offer[r][w]` and `price[r][w]` are the only row of worker `w` on
request `r` (unique key); `announced` is the last status sent to the request's
room; `cron` is the pass in progress; `overwritten` is history: the requests hit
by a write that rests on a stale read. `lapsed` is a pending offer whose
`expires_at` has passed.

| actions | code |
|---|---|
| `UpsertOffer`, `ReadOffer`, `WriteOffer`, `TouchRequest` | `upsertOffer`: four statements, the last two by id |
| `CounterOffer`, `WriteCounter` | `clientCounterOffer` |
| `Accept`, `TellAssigned` | `acceptOffer` and its broadcast |
| `DiscardOffer`, `DeclineOffer`, `ReactivateOffer` | the worker's own offers |
| `WorkerMarkArrived`, `ClientConfirmArrival`, `CompleteJob`, `WriteCompleted`, `TellCompleted` | the job |
| `CancelJob`, `WriteCancelled`, `AdminWriteCancelled`, `CancelClose` | `cancelJob`, `adminCancelJob` |
| `CronSelect`, `CronCancel`, `CronClose`, `CronAbort` | `handleRequestTimeouts` and `cancelRequest` |
| `Lapse`, `ExpireStaleOffers` | time, and the write that a mere read of offers makes |

`Accept` is one action: the transaction locks the request, the offer and the
worker before it reads, and the partial unique index on accepted offers refuses a
second winner. `UpsertOffer` joins the first expiry and the reads that decide
about the call. Only one pass of the cron is in flight at a time. Whether the
worker is verified and whether the offer is paid can only refuse an acceptance.

Three writes are guarded by the id alone although they follow a check:
`upsertOffer` (`:234`), `clientCounterOffer` (`:914`), `adminCancelJob` (`:1082`).
`overwritten` records when one of them really hits a row that has moved on. The
invariants on winners and exclusivity survive even that; the others are stated of
the requests that are `Intact`, which says exactly how they are lost.

`Assignment` is what the marketplace promises about who works on what: a worker
takes a job only with empty hands and a job changes hands through nobody.
`JobMarket` implements it with `jobs[w]` = the assigned requests whose accepted
offer is `w`'s.

### JobViews

State functions over `JobMarket`, one for each query: `GetOffers`, `RequestStatus`,
`Tracking`, `ClientHistory` (client); `Inbox`, `WorkerHistory`, `WorkerRadar`
(worker); `ActiveJobs`, `PublicJobs` (agencies, visitors); `RequestDetail`,
`CancellationStats` (administration). Each keeps the joins and conditions of its
SQL: a `LEFT JOIN` on the accepted offer is the set `Accepted(r)`, so that a request
with two winners would have two lines. All workers are ready and near enough; the
limits on the number of rows are left out. Sums over rows are `SumFunction` of the
community modules. What the screens agree on is a property
of the writers, which is why it is checked in the runs of `JobMarket`.

### Payments

The offers of one request (no statement of the service crosses requests), the
rows of `payments`, and `charge`, the provider's own state of each charge.
`Checkout` … `SaveCheckout`/`FailCheckout` are the statements of `checkout`;
`GetPayment` and `AskProvider` are `getForClient` and `refreshStatus` with
`setStatus`; `AcceptOffer`, `AcceptAsk`, `CommitAccept` are `acceptOffer` around
`assertOfferPaid`, which asks the provider on another connection while the
transaction holds its locks (`OfferLocked`, `RequestLocked`); `FlagRefunds` and
the `Admin...` actions are the refunds. `CompleteJob`, `Cancel`, `LateCounter`,
`CloseOffer` and `ToggleMethod` are what the rest of the backend does to the
request meanwhile.

The registry has one provider, the card: no webhook and no expiry. Of the loop of
`assertOfferPaid` the model has the turn of the last payment asked; the earlier
turns write what `AskProvider` writes. Of several paid payments the code takes the
newest or the first confirmed; here any may be it.

### BotSimulation

Every transaction of `bots.service.ts` locks the settings row first (`Lock`), goes
on with what it read then (`tx`), and reads everything else at its commit:
PostgreSQL's READ COMMITTED. `Configure`, `Provision`, `EditProfile`, `Start`,
`Pause`, `Stop`, `RunOnce` and `Tick` are those transactions; `Tick` moves what
was due when the lock was taken, ends a pause that has waited long enough and
starts one scenario. Coordinates are reduced to `place`, the scenario on whose
site a bot stands; specialties and the enabled flag to `pairs`; `due_at` and
`next_start_at` to booleans that time turns on. The two unique indexes of active
bots are left out on purpose: `OneJobPerBot` shows that they never have to refuse.

### Waves

One request from its row to `request.published`. `CreateRequest`, `QueryWorkers`,
`Schedule` and `Publish` are `createRequest` with `seedOffersForRequest`;
`Start`, `ReadStatus`, `Select`, `Deliver`, `FinishWave` are an execution of a wave,
which is the same code in `processWave` and in `dispatchWorkerNotificationWave`.
`queued` is the flag `USE_QUEUE_DISPATCH`, chosen at the start so that both modes
are checked. `Throw` ends an execution at any statement, before or after the row of
the worker in turn is saved: the queue tries the whole wave again (3 attempts),
a timer does not, and in wave 0 it ends the creation of the request. `Restart`
kills the creating process with its timers, `Stall` the process that works on a
job. `wave` is any slicing in which earlier waves are full. `excused` is history:
who was not able, or whose request was closed, when the wave looked.

Left out: the delays (a wave may start at any time, so every delay is covered),
the tokens, acknowledgements and retries of the push, which are in `Delivery` (here
it happens or throws).

### Delivery

A device stands for its push token. `row` is `push_tokens.user_id`, `dead` the tokens
FCM does not know any more, `socket` the connection of the app on the device and
whether it may present. `Register`, `Revoke`, `RevokeAll` are `upsertPushToken`,
`revokePushToken` and the clean-up of `softDelete`; `Connect`, `Presence`, `Silence`,
`Disconnect` the gateway; `Uninstall` is FCM's.

A delivery is `Notify` (the `notify...` methods, which save the inbox row and call
`deliver`) or `Announce` (the broadcasts of the administration, by push only).
`FetchSockets` and `Answer` are `presentNotification`, with an acknowledgement that
comes in time or not, whatever was shown; `ReadTokens` is the query after it;
`PushAnswered`, `PushLost` and `Forget` are an attempt of `deliverTokens`, which
answers, or throws with anybody reached, and the deletion of the tokens it found
invalid; `Fails` is any statement that throws. Between all of these a device may
change hands.

History: `home` is who registered a device last and did not revoke it, `mine` and
`whole` whom a delivery was for at some time and all the time, `pushed`, `tray`,
`told`, `twice` and `refused` what became of it.

Left out: what reads the inbox, the rooms of agencies and threads, the test push, the
two minutes after which an alert is worthless, and several sockets of one device.

### UserCopies

The path of an edit of a user by the administration, for whichever columns another
module models: `ReadUser`, `FillCopy` (`findOne`), `LoadForSave`, `SaveSucceeds`,
`SaveFails`, `ClearCopy` (`update`, `reviewWorkerVerification`), `CopyExpires`.
`Saved(e, r)` is what becomes of the row `r`: the copy in the columns in which it
differed when `save()` loaded the row, the row in the others. `Fleet` instantiates
it with the agency and its flag, `Conversation` with the average rating; `Accounts`,
where an edit also sets what it saves, has the path spelled out, and `Gallery` adds
the profile photo to it.

### Fleet

`member` and `flag` are `users.{agency_id,is_agency_worker}`, `invite` the row of
`agency_worker_invites` for an agency and a worker, `inbox` the notifications that
carry codes, `offeredBy` the agency in whose name the worker's offer was last made.
`AskToLink`, `InsertInvite`, `TellCode` are `linkWorker` without a code;
`LinkWithCode`, `ReadInvite`, `CountWrong`, `DeleteInvite`, `Link` the same with
one, through `consumeLinkInvite`; `CreateWorker`, `InsertWorker` are `createWorker`;
`SendOffer`, `UpsertOffer` `sendOffer`; the others are single statements: unlinking,
blocking, messages, switching an agency off, removing it. `given` is what workers
told: an agency learns a code from nobody else.

The code is checked, consumed and used in three statements, and the write of the
membership repeats only part of the checks. `Membership` is what all of it amounts
to for the worker, and `Fleet` implements it with `consent` = the pairs in `given`
and `been` = `was`, history: who ever was of an agency.

`WriteSave` is the edit that is saved with an old copy of the worker's row. It enters
him again where he was without a code, takes him from an agency, or writes one of the
two columns only. `Membership` says so (`Restore`: to an agency one was in, or to
none), and `overwritten` is history: over whom it happened.

### AgencyBooks

One screen's worth of accounting: `rate` of an agency and `terms` of a worker,
jobs with their state, winner, agency (`by`) and platform fee, the payment in the
app, `ledger` = `agency_job_ledger`, and payouts. `Synced` is the statement of
`syncLedger`, which every reader of the ledger runs first: it inserts the rows that
are missing, at the rate of that moment, and afterwards only turns cash to digital.
`GetReports`, `SyncForReport`, `ReadRows`, `ReadFleet` are `getReports`. `Accept`,
`CompleteJob`, `Payment` and `Overwrite` are what the rest of the backend does to
the job; `Overwrite` is the offer that `upsertOffer` writes by id after the
acceptance. A worker may move to any agency, or none, at any moment, so that old
copies of his row need no mention here. The agencies stay: a removed one takes its
ledger with it (`ON DELETE CASCADE`). `AssignedJobs`, `Dashboard`, `ChambaOwes` and `WalletOwes` are further
screens. `chosen` is history: the rates an agency set.

### Accounts

`row` is a user: the deletion date, deleted or erased, the pair of verification
photos (numbered, so that a decision can be about an older pair), the two opinions
and the status. `cache` is Redis. `RequestDeletion`, `RequestCheck`, `RequestWrite`,
`CancelDeletion`, `CancelWrite`, `SubmitVerification`, `VerifyWrite`, `PushToken`,
`PushWrite` are the user's calls; `PurgeDue`, `PurgeCheck`, `Erase` the night. An
edit of the administration is `ReadUser` (from the cache), `FillCache`,
`LoadForSave`, `WriteSave`: TypeORM's `save()` reads the row again and writes the
columns in which the copy, edited, differs from it. `overwritten` is history: such a
write hit a row that had changed since it was read, be it changed back by now;
`late`: something was written for an account that
was gone.

### Gallery

The pictures of the same users, and of the requests of a client, beside the images
that exist at Cloudinary. `AddPhoto`, `Upload`, `SaveAdded`, `Cleanup` are `add` of
the portfolio, with `SaveUnanswered` for a COMMIT whose answer is lost;
`RemovePhoto` is `remove`; `ChangeFace`, `Upload`, `WriteFace`, `Cleanup` are
`uploadProfilePhoto` and `removeProfilePhoto`; `UploadForRequest`, `CreateRequest`,
`DeleteRequestPhoto`, `UnpostPhoto` the photos of a request with the comprobante of
their upload. A step of `Accounts` that erases an account forgets the profile photo
(`ForgetFace`). The steps of an edit carry the photo along: `ReadFace`, `FillFace`,
`LoadFace`, `SaveFace`, `ClearFace`, with `faceCopy` in Redis and `kept` in the edit.
`SaveFace` brings an older photo back, whose image is usually deleted by then, and
leaves the image of the newer one to nobody. `strays`, `lost`, `twice` and `revived`
are history: images nobody will delete, images deleted although their row was
committed, images shown by two requests, and those an edit brought back.

### Access

`secret` is the password or its hash (`plain` when it is not hashed yet), `cutoff`
is `tokens_valid_after` in whole seconds, `count` and `ttl` the counter in Redis and
whether it expires. Time is a number of seconds, because the dates of tokens are.
`Login`, `CheckPassword`, `LoginReset`, `LoginRehash`, `IssueSession` are `login`;
`OfficeLogin` and `OfficeCheck` those of agencies and administrators; `FailIncr`,
`FailExpire` `recordFailure`; `GoogleLogin`, `GoogleLink`, `CompletePasswordReset`,
`ResetWrite`, `ResetClear`, `ChangePassword`, `ChangeWrite` the rest. Redis may fail
`MaxFaults` times. `tries`, `closed` and `used` are history: wrong passwords compared
since the counter exists, sessions that were to be closed, recoveries that were used.

### Conversation

The chat of jobs, complaints and reviews. The transaction that stores a message is
`LockJob` and `InsertMessage`, and `holder` is the row lock it takes on the job,
which `EndJob` waits for. `SendPhoto`, `CheckPhoto`, `ReviewPhoto`, `UploadPhoto`,
`DeletePhoto` are `sendPhoto` with the flag `busy` of its process; an upload that is
cut off after 45 seconds may have been stored, and then nobody deletes it. NOW() is a clock
of instants, several to a millisecond of JavaScript, since marks and pages compare
one with the other. `AllPages` reads a chat back to its beginning, as the app does.
`CreateReview`, `InsertReview`, `ReadReviews`, `WriteRating` are `createReview`; a
complaint has its messages, its state and `userRead`. `WriteSave` is an edit of the
reviewed worker that is saved with an old copy, and an old average. `Crash` ends all
calls and edits of the process. `seen`, `heard` and `lost` are history; `lost` names
what an answer that did not come, a crash or an old copy leaves behind: photos,
messages of complaints, a review, the average until the next review.

## 4. What TLC checks

| run | instance | shows |
|---|---|---|
| `bidding` | 1 request, 2 workers, 2 handlers, amounts 1..2, fair | the safety of a request under two handlers and the cron; every open request is resolved; the screens agree |
| `two_jobs` | 2 requests, 1 worker, 2 handlers | a worker never has two jobs; `JobMarket` implements `Assignment` |
| `charges` | 1 offer, 2 payments, 2 handlers, amounts 1..2, fair | rows follow the provider, refunds are final, acceptances were paid, one payment is kept, useless money does not stay |
| `replicas` | 1 client, 2 workers, 2 scenarios, 2 transactions, fair | the safety of the simulation; scenarios and pauses end |
| `waves` | 3 workers in waves of 2, 3 attempts, 1 stall, fair | completeness and bounds of the alerts; every wave ends |
| `devices` | 2 users, 2 devices, 1 delivery, 3 attempts | pushes stay at home; every device of the recipient is served, knowingly once |
| `links` | 2 agencies, 1 worker, 2 handlers, 1 edit, 1 attempt, 2 codes | consent, bounded guesses, codes that work once; an old copy puts a worker back where he was and nowhere else; `Fleet` implements `Membership` |
| `ledger` | 2 agencies, 1 worker, 1 job, 2 handlers, rates 0 and 50 | the ledger is frozen, own, true, payable; reports and screens agree with it |
| `deletion` | 1 user, 2 handlers, 2 pairs of photos, 2 images, 2 requests | deletion, verification and pictures, under edits that save old copies |
| `cancelled` | 1 user, 1 handler | **refutes** that a deletion cancelled in time touches nothing |
| `attempts` | 1 user, 1 office, 2 handlers, 2 attempts, 1 fault, fair | bounded guesses, sessions and recoveries that stay closed, locks that end |
| `conversation` | 2 jobs, 1 complaint, 2 handlers, 1 edit, pages of 1, 1 fault, fair | the chat with its photos, marks and pages, reviews, complaints |

Every module states its type invariant, its safety properties and, some of them
together, the properties its run checks: `SettledAsAgreed`, `ScreensAgree`,
`DevicesAreServed`, `CodesAreGuarded`, `FleetAgrees`, `DebtsAreSound`, `PicturesAreKept`,
`NothingStaysBehind` and `NothingIsPassedOver` are conjunctions of named parts that
concern one thing. What a proof module shows for every value of the constants and
what little can break is not run again: type correctness, the order of the stages,
the limit of the simulation, the order of the alerts.

**Bounds.** Every race of the code is between two handlers, or a handler and the
cron, over one request, offer, worker, account or thread: two calls and two of what
they compete for let each of them happen, and two amounts tell a price from a stale
one. `charges` needs two payments of one offer (a reused and a cancelled charge).
`replicas` has room for two scenarios that compete for a client, a limit of 1 or 2, and
one stop; that a worker is not shared either is the other half of the same
condition, and proved. In `waves` the attempts and the stall are the real numbers of the queue; two
waves suffice because later waves touch only what is their own. In `devices` the three
attempts are the real number; one delivery is enough, since deliveries share only the
deletion of dead tokens, and the proofs are about any number of them. `links` and `ledger`
have two agencies because what can go wrong is one agency getting at the other's
worker, code or rate; the limit of guesses is 1, so that the second of two parallel
ones is already too many. `deletion` has two pairs of photos, one decided on and one
sent since, and a portfolio of one photo, which two calls fill at once. `conversation`
has pages of one entry, and two instants in a millisecond, so that pages are cut
everywhere.

Bounds by name: `MaxAmount`, `MaxLimit`, `DailyLimits`, `MaxGeneration`, `MaxWave`,
`MaxStalls`, `MaxCodes`, `MaxPaid`, `MaxDocs`, `MaxImages`, `MaxTime`, `MaxFaults`,
and the constraints of the MC modules, which their comments justify: `NoTimeouts`
(the cron in `two_jobs` works on one request at a time, which `bidding` covers),
`OnePrice` and `InOrder` (of instances that differ in the names of prices, rows,
scenarios and workers, one), and `Few` in `MCFleet`, `MCAgencyBooks`, `MCAccounts`, `MCAccess` and
`MCConversation`, which keep apart concerns that share no variable: the chat and the
reviews, the counting of failures and the sessions, the portfolio and the edits of a
row. Old copies are looked at where they matter and beside little else: in `MCFleet`
with one call at a time, one code and no wrong guess (enough to be registered by one
agency, leave it, join the other, and be put back); in `MCAccounts` with a photo that
is replaced or removed while an edit of something else is saved; in `MCConversation`
with both reviews. There nothing but the exceptions the properties name lets them
hold: without `overwritten`, `revived`, `strays` or `lost` they are violated.
The proofs use none of them. `two_jobs` identifies states that differ only in what
nothing reads (`Guards`). Actors are interchangeable, and the runs without liveness
use that symmetry; those with liveness use none.

**Fairness.** Users promise nothing. The timeout cron is scheduled for ever, and a
pass may be cut short by an error, so its steps are strongly fair: a request that
stays due is selected, and its statement is tried, again and again. `FlagRefunds`
is a single pass, weakly fair. The tick runs on every replica each five seconds
and competes for a lock: strongly fair. In `waves` the queue hands out what is due
and a started statement ends or throws: weak fairness of each wave, while deaths
and errors may happen at every step. In `attempts` and `conversation` a handler that
runs goes on (weak fairness of `LoginContinues` and `CallContinues`; Redis may fail, the process may
crash), and Redis forgets a key that has a date (weak fairness of `CounterExpires`).
Under a constraint TLC looks at the fair behaviours that stay inside it; the events
these two properties wait for are never cut off.

Deadlock is checked, except where the system may really stop: when all codes are
used up, the only account is erased, or time has run to its bound (`links`,
`deletion`, `cancelled`, `attempts`, `conversation`).

### Where the code and its own words differ

- `cancelled`: `mobile-account.service.ts:159` says that an account whose deletion
  was cancelled just in time is not touched. The guarded UPDATE hits no row, but
  `rows[0]` is the array of rows, never falsy: the credentials and the push tokens
  are deleted.

The following need no run to be seen; the models have them as the code does, and the
properties name them as exceptions (`overwritten`, `lost`, `twice`, `revived`).

- `users.service.ts:133` means to save an edit, and saves with it every column in which
  a copy of up to two minutes (`:82`) differs from the row. Whoever the agency unlinked
  is in it again, or in one he left, without a code; the profile photo he replaced is
  shown again although its image is deleted; the average rating is the one before the
  last review. The services that write these columns by SQL never clear the copy.

- `mobile-offers.service.ts:219` says that a resolved offer cannot be revived by
  offering again. The row is read in one statement and updated by id in another
  (`:234`): `acceptOffer` in between makes an accepted offer pending again.
- `mobile-requests-cron.service.ts:255` says that after a parallel acceptance
  nothing is done, and its test (`mobile-requests-cron.service.spec.ts:22`) gives the
  driver's answer as a list of rows. `cancelledRows[0]` is never falsy: the offers
  are closed and the room is told of a cancellation of a request that is assigned.
- `payments.service.ts:182` says that reuse avoids two charges. Two checkouts both
  find nothing and both insert.
- `payments.service.ts:649` says that confirmed money is recorded even if the local
  charge was cancelled. Nobody asks the provider about a row that is not pending
  (`:616`).
- `mobile.service.ts:405` says that whoever knew the old password is locked out by a
  recovery. A login that read the old, unhashed password writes its hash by id
  (`:307`), over the new one.
- `agency.service.ts:626` says that finished jobs use the commission frozen when
  they ended. It is frozen when somebody first reads the ledger
  (`agency-operations.service.ts:365`); and the dashboard (`:588`) uses today's.
- `admin-agencies.service.ts:163` refuses to remove an agency that has workers or
  offers. The foreign keys are `ON DELETE SET NULL` (migration `1783365530130`), so
  the removal is never refused; the workers keep the flag that keeps jobs from them.
- `access.service.ts:51` says that with the comprobante of an upload a photo is the
  request's own and may be deleted. It is good for a day and for any number of
  requests: deleted from one, the photo is gone from the other.
- A deletion erases neither the image of the profile photo nor the portfolio.

## 5. What is proved

The proof modules extend the models, so the theorems are about the same
definitions TLC checks, for any sets of requests, workers, handlers, payments,
bots, agencies, accounts, jobs and for any bounds. Assumed are only the named
assumptions on the constants, which TLC evaluates in every run:

- bounds are natural numbers; amounts, prices, limits, attempts, the sizes of waves
  and pages and the grain of the clock are positive; `MaxAttempts` of `Access` is more
  than 1, and the clock of `Conversation` has an instant after its first;
- the placeholder `None` is not an element of the sets it is used beside
  (`NoneIsNobody`, `NoneIsNothing`, `NoneIsNoRow`, `NoneIsNoArgument`,
  `NoWaveIsNoIndex`);
- finite are: the ids of scenarios (`IdsAreFinite`), the calls at once where guesses are
  counted (`CallsAreFinite`), the rows that `JobViews` adds up (`RowsAreFinite`);
- rates are percentages, clients are not workers, initial pairs are pairs, edits are
  edits.

Each model has one inductive invariant, the type invariant and a strengthening; the
theorems follow from it.

- **JobMarketProofs.** The guards are read in one statement and used in another,
  so the invariant says what is still true when a handler stands between:
  `CallsAreTimely` (whoever is about to complete a job read a confirmation that no
  later step takes back; whoever is about to tell the room does so of what
  happened) and `ConfirmedHasArrived`. Proved: `TypeCorrect`, `WinnerIsUnique`,
  `WorkerIsExclusive`, `SettlementWasConfirmed`, `StatusNamesWinner`,
  `SettlementIsThePrice`, `SettlementIsAsAgreed`, `ArrivalIsOfTheWinner`, `AnnouncementsAreTrue`,
  `ClosedForGood`, and `Refinement`: every step is a step of `Assignment` or
  changes nothing there. For the screens one more invariant is needed, `Undecided` (where
  bids are still taken, nobody has been accepted or turned down).
  `ScreensStayInAgreement` then has three parts: `WinnerIsShown`, `InvitationsAreShown`,
  and `TotalsAreShown`, which compares sums. `SumCounts` reduces a sum to a cardinality: if `f[x]` is the size of a set that belongs to `x` alone, the
  sum of `f` is the size of the union; jobs are counted as such, and amounts as sets of
  coins (`CoinsAreCounted`).
- **PaymentsProofs.** `RowsComeFirst` (nothing is known of a payment without a
  row), `SavingIsFresh` (the payment whose charge is about to be saved has no
  charge yet and belongs to that handler alone: this is why the unguarded
  `UPDATE` does no harm), `AcceptIsPaid` (between the question and the commit
  nobody can change the price, because of the locks) and `OneAcceptance`. Proved:
  `TypeCorrect`, `MoneyIsReal`, `AcceptanceWasPaid`, `RefundsAreFinal`,
  `OnePaymentIsKept`.
- **BotSimulationProofs.** `LockHolds`: one transaction at a time, and what it read
  of the settings and of the due scenarios is still so. Proved: `TypeCorrect`,
  `BotsAreReserved`, `StopIsAFence`, `NoneIsLeftBehind`, `LimitIsKept`,
  `PlacesAreRight`, `StagesAreInOrder`.
- **NotificationProofs.** Of `Waves`: `FirstIsAwaited` (other waves exist only once
  wave 0 is done), `Reached` (whom an execution does not owe the alert any more has it
  or is excused), `RetriesAreCounted` and `RingsAreCounted` (socket events are paid for
  by failures and stalls, one more while an execution has selected its workers).
  Proved: `WavesTypeCorrect`, `RingsAreBounded`, `OneRowPerWorker`, `NearestAreFirst`,
  `DoneWavesAreDelivered`, `PublishedRequestsAreAlerted`. Of `Delivery`: `RowsAreHome`
  (the table says who has a device, unless FCM does not know it), `EarlyIsShown` (before
  the tokens are read, what is known to be shown is so), `LateIsPending` (afterwards the
  batch is exactly who may still be told: whoever it lacks was served or refused,
  whoever it holds is not known to be served) and `BatchIsMine`. Proved: `TypeCorrect`,
  `PushesStay`, `DevicesGetServed`.
- **FleetProofs.** `GuessesAreCounted` (a guess is an attempt of the row, or of a
  call that is about to count it: hence the one more for each call), `CodesAreOwn`
  (wherever a code is, it was drawn once, for that agency and that worker),
  `SpentAreGone` (no invitation holds a consumed code), `ConsentIsGiven` (a call
  between the check of the code and the link has a code the worker gave),
  `OwnWereLinked` and `CopiesWereTrue` (whatever agency a copy or an edit still holds,
  the worker was in it: this is why an old copy cannot put him into a third one).
  Proved: `TypeCorrect`, `CodesStayGuarded`,
  `FleetStaysInAgreement`, and `Refinement`: every step is a step of `Membership`
  or changes nothing there, the link that comes after the check of its code too.
- **AgencyBooksProofs.** `RatesAreChosen` (whatever rate a row may be given was set by
  its agency), `JobsAreSound` (the fee follows who made the offer, as long as the offer
  is accepted), `LedgerIsSound` (a row is of a finished job without fee, and of the
  agency of its offer until `upsertOffer` overwrites it), `ReportsAreFrozen` (from its
  synchronisation on a report finds the rows it needs and shows their rates, whatever
  is changed before it has read the rest). Proved: `TypeCorrect`, `LedgerStaysFrozen`,
  `ReportsMatchTheLedger`, `DebtsStaySound`.
- **AccountsProofs.** Of `Accounts`: `UserIsSound`, what is promised of one account with
  its exceptions, which no call about another account can disturb. `VerifiedStaySeen`
  holds because an opinion can only reach photos the administrator did not see through
  an edit saved over a row that has changed since it was read, be it changed back by now:
  three edits at once do that, and the history names it. Of `Gallery`: an image a
  call has made is in nobody else's hands (`FreshIsNew`); the old face that a call will
  delete was the face of that user only (`OldWasAFace`); what is about to be deleted is
  not shown, or for a reason the history names (`DoomedIsHidden`); and an image is in one
  place (`PlacesAreApart`). The last is needed for the second: without it the face of one
  could be in the portfolio of another. For old copies there is `CopiesWereFaces`: the
  photo a copy or an edit holds was the face of that user and of nobody else, so that
  what comes back is his, and only the history `revived` may miss its image. Proved:
  `TypeCorrect`, `VerifiedStaySeen`, `PicturesStayKept`, `NothingIsLeftBehind`.
  Of `Access`: `CounterIsSound` counts the calls that stand between the check of the
  counter, the comparison and the increment. The wrong passwords compared are at most
  those counted, about to be counted, or lost to a fault of Redis; and a call that was
  let through saw the counter below the limit, so that all of them together stay under
  `MaxAttempts - 1` plus one for each call and fault. `CutoffsAreSound`: no date of closing
  is in the future, so that later ones only move it forward. Proved:
  `AccessTypeCorrect`, `GuessesStayBounded`, `ClosedSessionsStayClosed`,
  `SpentResetsStaySpent`.
- **ConversationProofs.** `LockIsHeld` (who is about to insert a message holds the row of
  the job, which is still open), `MarksAreSound` (a message is older than a mark exactly
  if the mark saw it or passed it by while it was under way), `PhotosAreSound` (a
  picture belongs to one call, and one about to be deleted was not posted, or the answer
  was lost), `RatingIsSound` (the statement that writes the average has read every
  review, unless a crash lost one's recomputation, or an old copy was saved since),
  `HelpIsSound` and, beside them, `EditsAreSound`: nothing an edit holds or saves is
  more than an average, so the only invariant it can disturb is the rating's. Proved:
  `TypeCorrect`, `NothingIsSaidTooLate`, `PhotosStayKept`, `RatingStaysFresh`, and
  `NobodyIsPassedOver` from `UnreadStaysUnseen`, `SupportStaysSeen` and
  `PagesStayComplete`. The last is about a recursive function, `AllPages`: the entries a
  page leaves out are older than it (`LeftOutIsOlder`), so a page and what is read before
  it are all there is (`PageAndTheRest`), as long as no two entries fall in one millisecond.

The library states induction with an operator as a parameter, which the provers cannot
instantiate. `NatSetInduction` states it of a set of numbers instead (a set that holds
0 and with each number its successor holds them all), and is proved from the pigeonhole
principle of the library. Sums and pages rest on it.

**Only model-checked:** the liveness properties (`RequestsAreResolved`,
`UselessMoneyIsFlagged`, `ScenariosEnd`, `WavesEnd`, `LocksEnd`, `PhotosGoOn`),
because fairness and `ENABLED` are out of the prover's reach. Every safety property of a
passing run is a theorem. The refutation is a counterexample.

## 6. What is not modelled, and why

- Of the row of a user: what else an old copy writes back when an edit saves it
  (location, availability, counts of completed jobs, names, blocks), which no property
  is about. In the books an agency is not removed, so that `LedgerIsFrozen` speaks of
  the agencies that are there.
- Of the agencies: profiles, documents, lists, goals and monthly series;
  settlements with Chamba, which are rows that are only added up.
- Of the accounts: uniqueness of e-mail and phone, availability and locations,
  dismissed requests, reports and blocks between users; the verification of phones,
  which Firebase does. Of the access: registration, the verification of Google's
  tokens, permissions.
- Of the conversations: locations and agreements sent as messages,
  `admin_last_read_at`, the notifications of a complaint.
- The webhook and the expiry of QR charges: no provider of the registry has them.
- Of the jobs: reminder levels, nearby workers, the hourly clock. No status depends on
  them.
- Of the notifications: marks and counters of the inbox, the rooms of agencies and
  threads, the test push, and the text of a notification.
- Catalogue, geography, public pages, statistics, leads, configuration rows: one
  statement each or read-only.
- Prices are small numbers and not decimals, distances are an order, times are
  events: no property tells more apart.
- Libraries and services (PostgreSQL, Redis, BullMQ, the provider, FCM) are
  modelled by what the code relies on: row locks, READ COMMITTED, unique keys,
  attempts and stalled jobs.
