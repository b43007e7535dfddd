# TLA+ models of Dream Space

Dream Space (造梦空间) turns prompts into images for credits. This directory models what the system keeps
and changes: a **generation task** from its request to its end, the **credits** it reserves, the **paid
billing** beside them, the **moderators** and **staff**, the **customers** with their uploads, the
**catalogue** of models, and the parts of the two **clients** that decide something. The models are
checked with TLC on small instances; the theorems in the `*Proofs` modules are checked by TLAPS for
every value of the constants.

- [1. The system](#1-the-system)
- [2. The modules](#2-the-modules)
- [3. The runs](#3-the-runs)
- [4. Fairness](#4-fairness)
- [5. Where code and documents disagree](#5-where-code-and-documents-disagree)
- [6. What is proved](#6-what-is-proved)
- [7. What is abstracted, and what is not modelled](#7-what-is-abstracted-and-what-is-not-modelled)
- [8. Plan](#8-plan)

`tlc -config <run>.cfg <module>.tla` reproduces a run and `tlapm <module>.tla` the proofs;
`PROJECT.json` lists the runs, the source lines every definition stands for, the hazards and the
theorems.

## 1. The system

A monorepo of three programs (`apps/api`, `apps/worker`, and the two web clients) around one
PostgreSQL database, one Redis with a BullMQ queue, and an object store. All state of consequence is in
PostgreSQL; the API and the worker never talk to each other directly.

```
 user ──▶ web client ──▶ API ──▶ PostgreSQL ◀── worker ──▶ moderator, image provider, object store
                          │           ▲            ▲
                          └──▶ Redis (BullMQ) ─────┘
 staff ──▶ admin client ──▶ API
```

| Component | Source | State | Operations | What makes it correct |
|---|---|---|---|---|
| Task state machine, price, credit arithmetic | `packages/core/src` | none (pure) | `allowedTransitions`, `calculateGenerationCost`, `reserveQuota`, `consumeReservedQuota`, `releaseReservedQuota` | the database transactions, which do not call these functions for credits, still behave as they say |
| Generation API | `apps/api/src/modules/generation` | `GenerationSession`, `GenerationTask`, `QuotaAccount`, `QuotaLedgerEntry` | `createTask` (replay, enqueueing, `failQueuedTask`), `cancelTask`, `deleteSession`, `getQuota` | a task's price is reserved once and settled once; nothing queued is forgotten |
| Job queue | `generation.queue.ts`, `apps/worker/src/main.ts` | BullMQ's record per `jobId` | `add`, hand out, complete, fail and retry, stall, evict | one job per task; the attempts of queue, worker and task row agree |
| Generation worker | `apps/worker/src/generation` | where each `process()` is; the task row | `start`, `recordModeration`, `holdForReview`, `succeed`, `fail` | late, repeated and parallel executions have no effect twice; images are delivered exactly when paid |
| Moderators, image provider | `apps/worker/src/moderation`, `.../providers` | none | verdicts, images, errors | only passed images are delivered; errors end an attempt or the task |
| Output pipeline, object store | `generation-processor.ts`, `packages/storage` | objects | put, delete | published images have their objects; others have none |
| Manual review, appeals | `apps/api/src/modules/moderation` | `ModerationReview`, `ModerationAppeal`, `moderationStatus` | `claimReview`, `decideReview`, `createAppeal`, `decideAppeal` | moderators keep to the state machine, settle once, publish only what was approved, and hear no appeal about reviews assigned to them |
| Quota reconciliation | `apps/worker/src/reconciliation` | `QuotaReconciliationRun`, findings | `run`, `repairMissingConsume`, `repairMissingRelease` | one worker per window; nothing is repaired that is not missing, nor twice |
| Billing | `apps/api/src/modules/billing` | plans, orders, payment events, entitlements, cash, refunds, codes, price rules | `createOrder`, `processPayment`, `refundOrder`, `redeemCode`, `publishRule`, quotes, `reservePaidBilling`, `settlePaidBilling` | what is paid is granted once; nothing granted is drawn on twice; there is a price |
| Event stream | `generation.service.ts` | a cursor per connection | `streamTaskEvents` | a page that follows a task comes to show how it ended |
| Risk rules | `apps/api/src/modules/risk` | rule versions, hits, restricted users | `inspectPrompt`, `recordHitAndApply`, `publish`, `archive` | one version in force; no penalty without a new hit |
| Privacy and retention, uploads | `apps/api/src/modules/privacy`, `.../uploads`, `apps/worker/src/privacy` | requests, upload rows, objects | `createReference`, `create`, `complete`, clean-up by API and worker | rows have objects; a deleted account leaves nothing usable |
| User authentication | `apps/api/src/modules/auth` | codes, sessions | `sendCode`, `login`, `logout` | a code opens one session; barred users have none |
| Staff | `apps/api/src/modules/admin/admin-{accounts,roles,auth}*` | accounts, roles, codes, sessions | create, update, status, roles, login | an owner remains; revoked accounts stay so |
| Catalogue | `.../admin-models*`, `admin-model-health*` | providers, routes, versions | probe, create, route, publish, rollback, resolve | only checked routes serve; weights are honoured |
| Web client | `apps/web` | draft, intent, page | autosave, login, submission, following a task | a draft stays with its conversation and is kept |
| Administration client | `apps/admin` | lists, dialogs | load, act, reload | nobody decides what he did not see |
| Other administration, contracts, configuration, UI kit | `.../admin-{tasks,audit,dashboard}*`, `packages/*` | — | queries, types, layout | — |

### How the parts interact

1. `createTask` opens the session and the account if need be, draws on entitlements and cash
   (`reservePaidBilling`), reserves the price with a conditional `UPDATE`, inserts the task as `QUEUED` and
   a `RESERVE` ledger entry, all in one transaction. It then adds a BullMQ job **named after the
   task**, and writes `queueJobId` back. If adding fails, `failQueuedTask` fails the task and releases the
   price. A repeated request with the same idempotency key finds the task; if it is `QUEUED` without
   `queueJobId` it is enqueued again.
2. A worker that takes the job calls `start()` with the attempt key `<task>:<attemptsMade + 1>`. The
   claim succeeds if the task is `QUEUED` or `GENERATING` and the key is not the **last** one stored.
   It then moderates the prompt, generates, moderates and stores the images, and calls `succeed`,
   `holdForReview` or `fail`. An error that is worth a retry is thrown to BullMQ while attempts
   remain; otherwise the task fails.
3. Meanwhile the user may cancel the task or delete its session, BullMQ may take the job for stalled and hand
   it to another worker, either process may die, and a committed transaction's answer may be lost.
4. A task held for review leaves the queue. A moderator claims and decides a review; the decision
   updates task, images, credits and review, and an approved prompt goes back to the queue.
5. Once per window a worker reconciles accounts with tasks and ledger. The page polls the events of the
   task and fetches it after each. The administration changes prices, models, rules, users and its own
   accounts from pages that show what was so when they loaded.

### What is hard

No transaction spans two of PostgreSQL, Redis, the object store and the services, and inside PostgreSQL
(READ COMMITTED) many operations read first and write later without asking again. The hazards, each
with its line and with the properties aimed at it, are in `PROJECT.json`.

## 2. The modules

| Module | Models | Checked in |
|---|---|---|
| `QuotaBook` | the **abstract** book of credits: a price is unpriced, reserved, then consumed or released for good, and a balance is what the phases say | `task_contention`, as `Book`; its types in `books` |
| `GenerationTask` | the API's transactions, the queue and the workers | `task_*` |
| `ManualReview` | moderators, composed with `GenerationTask` | `staff`, `studio`, `review_*` |
| `Appeals` | appeals and who may hear them | `staff` |
| `ProviderCalls` | what the moderator and the image provider answer, and what becomes of it | `studio` |
| `OutputObjects` | objects, result rows, inspirations | `studio` |
| `TaskStream` | events, the polling stream, the page that follows a task | `task_live` |
| `Purse` | the **abstract** purse of a payer: packages of images that are his alone, and cash that is free, set aside for a task, then given back or kept | `books`, as `Purses` |
| `PaidBilling` | plans, orders, payments, codes, entitlements, cash, refunds, the paid part of a task | `books`, `billing_release` |
| `PriceRules` | versions of the price, promotions, quotes | `books` |
| `Reconciliation` | windows, scans, repairs beside the pipeline | `books` |
| `AdminAccounts` | staff accounts, roles, codes, sessions | `staff`, `admin_owner` |
| `UserAccounts` | customers' login, status, prompt rules | `customers` |
| `PrivacyUploads` | composed with `UserAccounts`: uploads, privacy requests, clean-ups | `customers` |
| `ModelCatalog` | providers, routes, versions, the choice of a route | `studio` |
| `Workspace` | drafts, autosave and the intent kept across the login page | `studio`, `workspace_login` |
| `AdminPages`, `AdminScreens` | the pages of the administration as tables, and a page at work | `customers` |
| `MCGenerationTask`, `MCLive`, `MCManualReview`, `MCBooks`, `MCStaff`, `MCCustomers`, `MCStudio` | instances for TLC | the runs |
| `Tally` | sums, as the number of elements of a set | with `PaidBilling` and `Reconciliation` |
| `QuotaBookProofs`, `TaskProofs` | theorems about the book of credits; and, with them, about `GenerationTask` and `ManualReview` | |
| `TallyProofs` | lemmas about sums | |
| `LiveProofs`, `BooksProofs`, `StaffProofs`, `CustomersProofs`, `StudioProofs` | theorems about the modules that the MC module of the same name puts together, and about the whole | |

`MCBooks`, `MCStaff`, `MCCustomers`, `MCStudio` and `MCLive` put modules that share no variable side by
side. A run tells one **story**, chosen at the start by the variable `story`, and keeps the variables of
the others at their initial values; so one run checks several modules and costs the sum, not the product,
of their states. A property of a module holds trivially in the other stories.

How modules are composed where they do interact: `ManualReview` EXTENDS `GenerationTask` and
`PrivacyUploads` EXTENDS `UserAccounts`, sharing the variables; `GenerationTask` instantiates
`QuotaBook` (`Book == INSTANCE QuotaBook WITH phase <- Phase`) for the refinement `ImplementsBook`, and
`PaidBilling` instantiates `Purse`, with its tables read as purses, for `ImplementsPurse`;
`AdminScreens` EXTENDS the tables of `AdminPages`. Where a module takes another's outcome as a choice, the
other computes it: verdicts and errors of `GenerationTask` are those of `ProviderCalls`, the images of
`OutputObjects` are those of its executions, the image price in `PaidBilling` is that of `PriceRules`, and
`Reconciliation` and `Appeals` have the pipeline and the reviews reduced to what they look at.

### Reads and writes

A database transaction is **one step** when its updates carry their conditions (row lock, unique key); so
are all of `GenerationTask`. Where code reads and later writes without asking again (`decideReview`,
`refundOrder`, `processPayment`, publishing, the staff's changes, a login), the operation is **two steps
or more**, and what it read travels with it: `decision`, `flight`, `publication`, `request`, `pending`, `op`.
The modules `AdminAccounts`, `UserAccounts` and `ModelCatalog` also keep whether something it had read has
changed since, and a history variable (`raced`, `overtaken`, `outdated`) says that some operation has been
committed although it had. Properties that hold only up to such a commit say so in their formula.

### `GenerationTask`: state

A task is a pair of user and idempotency key, which the database keeps unique, so a repeated request names
the same task. `None` stands for "nobody".

| Variable | Code |
|---|---|
| `session`, `deletes` | `GenerationSession` rows; sessions that `deleteSession` found idle and has not deleted yet |
| `status`, `attempts`, `attemptKey`, `hasJobId` | columns `status`, `attemptCount`, `lastAttemptKey` (its number), `queueJobId` (set or not) of `GenerationTask`; `"none"` before the row exists and `"deleted"` after |
| `results` | `moderationStatus` of the task's images, which all change together |
| `reviews` | the task's `ModerationReview` rows in the order of their creation |
| `granted`, `account`, `ledger` | users with an account, `QuotaAccount` rows, idempotency keys of `QuotaLedgerEntry` per task |
| `job` | BullMQ's record for `jobId = task`: state, `attemptsMade`, attempts allowed, stalls counted, holder of the lock |
| `worker` | the call `process()` is about to make, with its job data; one job per worker process |
| `api` | the call a `createTask` request is about to make after its transaction |

### `GenerationTask`: actions

| Action | Code |
|---|---|
| `OpenAccount` | `getQuota`/`ensureQuota`, and a `createTask` that finds too few credits (it returns, so the account it opened stays) |
| `CreateTask`, `ReplayTask`, `Enqueue`, `RecordJobId`, `FailQueuedTask` | `createTask` of service and repository, `enqueue`, `setQueueJobId`, `failQueuedTask` |
| `CancelTask` | `cancelTask` |
| `CheckSessionIdle`, `DeleteSessionRow` | the two statements of `deleteSession`, with the cascade; ledger entries stay (their `taskId` becomes null) |
| `TakeJob`, `FinishJob`, `RejectJob`, `StallJob`, `EvictJob` | BullMQ (external, from how it is configured and used) |
| `Start`, `ModerateInput`, `Generate`, `ModerateOutput`, `HoldForReview`, `Succeed`, `Fail` | the calls of `process()` with the store's transactions |
| `ProviderError`, `PersistError`, `StoreError` | what the `catch` of `process()` does with each kind of failure |
| `CrashWorker`, `RequestLost` | a process dies, or an answer never comes |

The environment's faults are in `Faults`, so that a run can say which it assumes:

| Fault | Meaning |
|---|---|
| `"crash"` | a worker or a request stops at any step |
| `"stall"` | BullMQ takes a live worker's job for stalled and hands it out again |
| `"db"` | a transaction is rolled back, or commits and its answer is lost |
| `"queue"` | `add` fails, with or without the job having been added |

Not a fault, hence always possible: the moderator or provider failing retryably or not, the images
being unusable, users cancelling and deleting, records of finished jobs being evicted.

### The other modules, in short

- **`ManualReview`** adds `decision`, the step of each `decideReview` request. `CommitDecision` has the guards of
  the **database** only, because the code's updates carry none: the account's `CHECK` (`CanSettle`) and the
  constraint on rejected images that still have an object.
- **`QuotaBook`**: `phase[t]` and the balances; a balance is `Statement`, the sums that the reconciliation
  computes from the ledger. Credits are counted as a set of tokens `Units(S)` (one per credit of each task in
  `S`), so that sums are cardinalities and can be reasoned about without recursion.
- **`PaidBilling`**: rows of plans, orders, codes, events, refunds and entitlements, the two ledgers with their
  unique keys, and `shelf`, the entitlements not yet expired in the order of their expiry (time itself is
  not needed). `ReadAllocation`/`CommitReservation` are `reservePaidBilling` inside `createTask`;
  `CommitReservation(x, FALSE)` is the `createTask` that commits although the credits did not
  suffice. `SettlePaidBilling` looks entries up by task, as the code does.
- **`Purse`**: who holds package `s` and what is left in it, which packages were refunded and which tasks drew on which,
  a payer's free cash and what is pledged for each task. `PaidBilling` maps its tables to these: a package is the
  entitlement of an order or code (`HolderOf`, `ImagesLeft`, `Refunded`), the draws and the cash of a task
  are read off the keys of the ledgers' entries (`DrawnOn`, `Pledged`, `FateOf`). What is in flight has no
  counterpart, so reading, aborting, expiring and all that happens to plans and orders is a stutter. Images do not
  come back in it, since they do not in the code (section 5).
- **`PriceRules`**: `ReadPublished` archives what it finds, `CommitPublication` publishes; a version that does not
  exist aborts. `CalculateQuote` is the code's rounding.
- **`Reconciliation`**: one account; its pipeline may lose a ledger entry or a whole settlement (`Losses`), which
  is what a reconciliation is for. Each of a worker's reads is a step, so tasks, ledger and balances are
  of different moments.
- **`TaskStream`**: `log` holds the event types of one task in commit order; the stream polls pages of `PageSize`,
  sends, and completes when it finds the task ended; the page answers each event by fetching the
  task, and `answers` is a bag, so that a later answer may be overtaken. A connection may break, which the browser
  mends, or be refused, which it does not (`ConnectionRefused`), and a fetch may fail and is not repeated (`FetchFails`);
  `missed` remembers that one failed that would have shown the end.
- **`OutputObjects`**: a result is an execution and an index, since object names are fresh; `lost` and `untidy`
  remember executions that lost the answer to their commit, that died, or whose storage failed them.
- **`ProviderCalls`**: one task's attempts; `Answers` has every way a call can end, `HttpError` sorts statuses
  into those worth a retry and others.
- **`AdminAccounts`**: `request[q]` is what a request has read; `member`, `role`, `staffCode`, `seats` (sessions) the
  rows. `LoginStep` is three steps, an account's or role's change two.
- **`UserAccounts`**: codes, `seats`, `rule` versions of one code, `hit` per user and request key; `pending` the
  requests under way. **`PrivacyUploads`** adds uploads, objects, privacy requests and two cleaners, the
  API's and the worker's. Its storage and database may fail at every step: an upload's `create` may have committed
  without an answer (`LoseCreatedUpload`, remembered in `stray`), and a clean-up may stop before its audit
  (`CleanupStops`). `audit` holds what the audits tell of rows removed and how many rows no audit tells of. The
  user's privacy request is modelled from `PrivacyService` on (section 5 says why).
- **`ModelCatalog`**: `route[m][p]` with its copy of the provider's health; `ResolvedRoute(m, slot)` is the choice of
  a route from the routing key.
- **`Appeals`**: reviews reduced to whom they are assigned to. `hearing` has what each moderator's requests have
  read; they overlap with each other and with his claims, and `joined` remembers the appeals about which he claimed a
  review after reading.
- **`Workspace`**: a text stands for a whole draft and remembers the page it was typed on; `view` is the mounted
  workspace with its timer, `patches` the requests under way, `pendingIntent` and `restoredIntent` the
  entries of `sessionStorage`. `meant` is what the user last typed, `discarded` the conversations whose composer "generate
  again" (`Rerun`) has emptied since: it submits the text of an old task, through the function that empties the composer.
- **`AdminPages`** is data: of each page, the buttons on a row, the permission they and their route need, the API's
  refusals, the effect. **`AdminScreens`** is the machine that runs any of them: lists that are read when asked
  for and may arrive late, dialogs, one change at a time, reloads, other administrators.

## 3. The runs

| Run | Properties | Instance and why it is enough |
|---|---|---|
| `task_faults` | `SettledOnce`, `QuotaMatchesLedger`, `DeliveredIsPaid`, `LegalTransitions` | one task, two workers, retry limit 1, crashes, stalls and lost answers: cancellation, late worker, second worker and second attempt all race for one settlement |
| `task_contention` | `NeverOverdrawn`, `SingleExecution`, `ImplementsBook` | two tasks of 2 and 3 credits, 4 credits, two workers, a queue that loses answers and stalls; no second task fits unless the first was released |
| `task_live` | `InGoodHands`, `AttemptsCountedOnce`, `EventuallySettled`; `CatchesUp`; `LiveTypeOK` | one task, three attempts, two workers, two requests (one may replay), unreliable queue; or one task of up to 5 events (start, retry, moderation, review, end), pages of 2, 2 fetches on their way and two faults, each a connection that breaks or is refused or a fetch that fails; under fairness |
| `books` | `CashIsAccounted`, `PaidOnce`, `AlwaysCovered`, `ImplementsPurse` | two payers, an order and a code of two images each that either may get, two tasks of 2 and 1 images of one of them, two events and two refunds of the same order, two transactions at a time |
| | `RepairedOnce`, `RepairsKeepBooks` | two tasks, two workers, two windows, one lost settlement, one crash |
| | `AlwaysPriced` | three versions, two administrators, 1 and 8 images |
| `staff` | `OwnerRemains`, `StaffInOrder`, `RevokedForGood` | two administrators, owner and another role, two requests at a time, two codes; an owner has to be appointed before anyone can be removed |
| | `SettledReviews`, `ReviewsKeepToRules` | one image, two workers, retry limit 1, one decision at a time, crashes, stalls and a queue that loses answers: a late worker, a cancellation and a moderator race for one settlement. Prompts are not put up for review here, see `SingleReviews` in section 6 |
| | `HeardByAnother` | two moderators, each with any number of requests at a time, a prompt and two images, two appeals |
| `customers` | `AccountsInOrder`, `PenaltyHasHit` | two users one after the other on one phone, two codes and requests, two versions of a rule that restrict or ban |
| | `UploadsInOrder` | an upload, a privacy request, two cleaners, one failure at any of their steps; no wrong codes and no changes of risk rules, which have the story of `AccountsInOrder` |
| | `ScreensInOrder` | each of the twelve pages with two rows, one list on its way, two changes (the page's and others') |
| `studio` | `DecidableAndPaid` | two images, prompt and images under review, two decisions at a time, crashes |
| | `OutputsInOrder` | two executions of one task of two images, two inspirations |
| | `OnlyPassedDelivered` | three images, four attempts, statuses of each class |
| | `CatalogueInOrder` | two providers, one model, two versions, weights 1 and 2, two operations at a time |
| | `DraftsInOrder` | two conversations, two texts, a login that lapses |
| `billing_release`, `admin_owner`, `workspace_login`, `review_approved`, `review_rejected` | one each | violated, see section 5 |

Each of the passing runs also has a type invariant (`BooksTypeOK`, `StaffTypeOK`, `CustomersTypeOK`,
`StudioTypeOK`, `LiveTypeOK`), which is the conjunction of its modules' own.

What the properties say:

- **`SettledOnce`**: status and ledger tell the same story: nothing is settled while a task is queued,
  generating or under review, and exactly one settlement exists when it has ended, by whoever ended it.
- **`QuotaMatchesLedger`**: the balances, updated in place by five different transactions, are always
  what the ledger adds up to. **`NeverOverdrawn`**: the `CHECK` of the account never refuses a settlement.
- **`DeliveredIsPaid`**: images are delivered exactly when their credits are spent.
- **`LegalTransitions`**: nobody leaves the state machine of `packages/core`.
- **`SingleExecution`**: a single attempt is never executed by two workers at once.
  **`AttemptsCountedOnce`**: no more attempts are made than were allowed.
- **`InGoodHands`**, **`EventuallySettled`**: while no process dies and the database answers, somebody is
  responsible for every active task, and it ends or is put up for review.
- **`ImplementsBook`**: every step of the system is a step of the book of credits, or none.
- **`DecidableAndPaid`**: a task under review has a review that can still be decided, and what is published was
  paid for. **`SettledReviews`**, **`ReviewsKeepToRules`**: moderators who decide one review at a time settle once,
  publish only what was approved, keep to the state machine and decide once.
- **`CatchesUp`**: once a task has ended, the page comes to show how, for good, and stops asking, whatever breaks, is
  overtaken or fails before; unless the last fetch failed or the source was refused, after which the page asks no more.
- **`CashIsAccounted`**: balances are what the ledger says, and a task's cash is settled once. **`PaidOnce`**: an order
  or code grants once, and no image is drawn twice. **`AlwaysCovered`**: a task's images are all paid for, and it
  can always be settled. **`ImplementsPurse`**: whatever a step of billing does is one of the six things that may happen
  to a purse, or none: nobody draws on another's package, on a refunded one or twice for a task, a task is
  paid for to the image and the cent, and its cash ends once. That nothing is reserved from
  what was refunded (`RefundedIsClosed`) is proved apart.
- **`RepairedOnce`**: without a fault nothing is repaired, no task gets two settlements, one worker per
  window. **`RepairsKeepBooks`**: no step but a fault moves the account away from what the ledger
  says, of available and of reserved credits, however old a repair's readings are; a repair that enters a missing consumption
  leaves the account alone, as the code does, and so lowers by its price what the ledger has reserved.
- **`OwnerRemains`**, **`RevokedForGood`**, **`StaffInOrder`**: someone can always administer; sessions belong to active
  accounts; roles that are held exist; unless a change was overtaken.
- **`HeardByAnother`**: nobody decides an appeal about a review of his own, unless he claimed it between reading the
  appeal and deciding it (section 5), and an appeal is decided once.
- **`AccountsInOrder`**, **`PenaltyHasHit`**, **`UploadsInOrder`**: one session per code; barred users have none; one rule
  version in force; no penalty without a new hit; rows have their objects, but for uploads whose `create` lost its answer;
  every row removed is in one audit, or among those no audit tells of, because the clean-up stopped or
  the deletion did not answer; and a deleted account leaves no session and no image.
- **`CatalogueInOrder`**: one version in force, routes know their provider's health, only checked routes serve,
  and of all routing keys each route gets its weight.
- **`OutputsInOrder`**: a known result can be opened, nothing unknown stays in storage, an inspiration shows one
  approved image of a successful task.
- **`DraftsInOrder`**: a draft is stored with the conversation it was typed in, and is what was last typed, or empty after
  "generate again"; unless the user was faster than the autosave, a request failed, or a login wiped it.
- **`ScreensInOrder`**: a button of an up-to-date page is not refused; an accepted decision was made by someone who
  saw the row as it was; no clean-up runs for a number of days nobody looked at; one change at a time.

Bounds, constraints and symmetry. `CHECK_DEADLOCK FALSE` is in every cfg, since users and administrators may
do nothing more. Bounds are constants named `Max...` and marked `BOUND` where they are declared; `attempts`
and `made` are bounded by the attempts of a job. `staff`, `customers` and `studio` have a `CONSTRAINT` that stops
exploring after the first overtaken change (`raced`, `overtaken`, `outdated`, `careless`, `wiped`): the
properties promise nothing beyond that point, and TLC still checks the state in which it happens. `MCWeighted`
in `studio` also keeps to routes of different weight. Symmetry is used over interchangeable requests,
workers, codes and users, never in a run with a liveness property.

## 4. Fairness

`Fairness` (of `GenerationTask`, taken up in `MCLive` as `LiveFairness`) says that calls return and that what
waits in the queue is handed out:

- weak fairness of `Finish(r)`: a request that committed carries on (its process is alive, `"crash"` aside);
- weak fairness of a worker's next step: the providers have timeouts and the database answers;
- weak fairness of `TakeJob` by some worker: BullMQ's workers poll while they are idle;
- weak fairness of `StallJob` for a job whose holder is gone: the stalled-job check runs periodically.

Nobody has to create, cancel, delete, review or replay anything, no fault and no eviction has to
happen. `FairReviewSpec` adds that a decision that was begun is carried through.

`StreamFairness`: the API's loop goes on (`ListEvents`, `SendEvent`, `CheckTask`), a browser's `EventSource` connects
again or is refused, and delivers what was sent, and every fetch is answered or fails. The answers may overtake each other;
connections that break or are refused and fetches that fail are together bounded by `MaxDrops`, without which a
connection could break forever. The task and its moderators owe nothing. Strong fairness is not needed.

## 5. Where code and documents disagree

Each of these has a run whose counterexample shows it.

- **Released tasks keep their entitlements' images** (`billing_release`, `generation.repository.ts:525`). The
  entries that reserve images carry no task, and settling finds entries by task. The images stay
  `reserved`, and the entitlement cannot be refunded either. `docs/development-plan.md:470` says a failure releases.
- **Two owners can remove each other** (`admin_owner`, `admin-accounts.service.ts:193`). The count of other owners is
  read before the transaction. `docs/admin-console-requirements.md:87` forbids to remove the last one.
- **A lapsed login empties a draft** (`workspace_login`, `generation-workspace.tsx:231`). On a
  conversation's page the intent is saved with the composer's default draft; after the login it
  replaces the stored one. `docs/development-plan.md:210` says drafts from before the login are restored.
- **An approved prompt is not worked on** (`review_approved`, `moderation.service.ts:92`). The job is
  ignored while the completed one's record exists; and if that was evicted, attempt 1 of the new job has
  the attempt key already stored.
- **A rejected image cannot be rejected** (`review_rejected`, `moderation.repository.ts:92`): the
  database's constraint refuses the update each time, and the task stays under review.

Further disagreements and gaps follow from the models and have no run of their own. The first four were found
by TLC with the named property, which stays in its module unchecked:

- **A late attempt is executed again** (`AttemptsCountedOnce` with `"stall"` in `Faults`,
  `prisma-generation-store.ts:25`). Only the last attempt key is kept: the job stalls before its first worker called
  `start`, attempt 1 and 2 are made by another, and key 1 then differs from the last. `docs/development-plan.md:373`
  promises otherwise.
- **A task created during a deletion disappears** (`NoActiveDeleted`, `generation.repository.ts:377`), its reservation
  with it; so does that of a task under review, which `deleteSession` does not count as active.
- **A decision revives a cancelled task** (`EndIsFinal`, `moderation.repository.ts:78`), and two overlapping decisions settle
  twice (`QuotaMatchesLedger` with two decisions, line 124): all updates of `decideReview` are unconditional. Approving
  the review of one image approves all pending images of its task.
- **A task is put up for a review that was decided already** (`SomeoneDecides` with `"stall"` in `Faults`,
  `prisma-generation-store.ts:121`): a stalled worker about to hold a prompt for review does so after another attempt
  held it first and a moderator approved it; `holdForReview` finds the review, whatever its status, adds none, and
  the task waits for a decision that nobody can make.
- **A repair may take what active tasks have reserved** (`ActiveStaysReserved`, `quota-reconciliation.ts:320`): it compares
  with a sum from before; `docs/development-plan.md` (C4b) promises that it does not. **An event stream
  fails** (`StreamsSurvive`) once a review was decided: the API's `generationEventTypes` has no name for
  `task.manual_*`, against `docs/project-structure.md:156`.
- A worker that dies leaves its task `GENERATING`: the job comes back under the same attempt number and
  `start` ignores it. `docs/development-plan.md:432` lists the takeover as work to be done.
- When credits do not suffice, `createTask` **commits** the entitlements and cash it reserved for a task that does not exist
  (`generation.repository.ts:198`); nothing gives them back.
- A lost answer to `succeed()` deletes the images of a task that has succeeded (`generation-processor.ts:401`); `OutputsInOrder`
  excepts exactly these executions.
- A hit of a prompt in flight turns a `BANNED` or `DELETED` user into a `RESTRICTED` one (`risk.repository.ts:101`), and
  `changeStatus` makes a `DELETED` user `ACTIVE`. Overlapping publications leave two published versions of a
  risk rule or a price.
- Publishing a model opens routes that an unhealthy probe had closed (`admin-models.repository.ts:382`); rolling back may
  put in force a draft that never was (line 440); a model with more than twenty versions hides the published one from
  both (line 8).
- An unpublished inspiration is `ARCHIVED` and nothing republishes it; `docs/admin-console-architecture.md:116` calls
  it a change that can be undone.
- The codes tab shows its buttons with `billing:write`, its routes ask for `plans:write`; the refusal of disabling a code is shown
  nowhere (`admin-billing.tsx:369`). The roles page saves onto the role selected when the answer comes, and
  overlapping list reloads let the older answer win (`admin-roles.tsx:62`, `admin-users.tsx:75`); the pages
  act on ids, so `ScreensInOrder` holds nevertheless.
- **A page may stay behind for good** (`missed`, `"refused"`; `generation-workspace.tsx:324`): the fetch after an event has no
  catch and no retry, and a later connection has nothing to send again; an `EventSource` that was answered with anything but
  200 does not connect again, and nothing opens another.
- **A moderator may hear an appeal about a review he claimed himself** (`joined`, `moderation.repository.ts:304`): `decideAppeal` reads whom
  the reviews are assigned to, and its update asks again only whether the appeal is open; his second request may claim
  a review in between.
- **A live upload may lose its object** (`stray`, `uploads.service.ts:50`): when `create` commits and its answer is lost, the
  `catch` deletes the object of the row. **An audit may miss rows** (`audit`, `privacy.service.ts:142`,
  `privacy-retention.ts:36`): it is written after the rows were removed, and counts none whose deletion did not answer.
- **A user's privacy request is refused, always** (`privacy.controller.ts:41`, also 47 and 57): the route passes the whole
  `Cookie` header as the session's token, where others take the token out of it (`readSessionToken`), and answers 401.
- **"Generate again" loses what was typed** (`discarded`, `generation-workspace.tsx:897`): it submits the text of an old task and
  empties the composer of another (line 414), and the autosave stores the empty draft.
- A failed submission loses its text, and a repeated one has a new key (`generation-workspace.tsx:417`); what is typed within the
  autosave's delay of 350 ms before leaving is lost, and overlapping saves may arrive out of order (`careless`).

`InGoodHands` is checked without `"crash"` and `"db"`: between commit and `add` nothing but
a repeated request of the user would enqueue the task (there is no outbox), and `start()` is called
outside the `try` block, so a database that is down for as long as the attempts last leaves the
task queued with a failed job.

## 6. What is proved

All for every value of the constants: any number of tasks, users, workers, requests, staff, roles, entitlements,
images, routes, versions and conversations, and any set of faults, from the modules' named assumptions, which TLC
evaluates in the runs. The theorems are about the specifications themselves, so they also cover what a run leaves
out by a `CONSTRAINT` or a story.

| Theorem | Statement | Inductive invariant |
|---|---|---|
| **`TaskProofs`** | | |
| `TypeCorrect` | `Spec => []TypeOK` | `TypeOK` is inductive |
| `SettledOnceAlways`, `TransitionsAreLegal` | `Spec => []SettledOnce`, `LegalTransitions` | `SettledInv` |
| `BookImplemented` | `Spec => ImplementsBook` | `TypeOK`, `SettledInv`, `CreditInv` |
| `BalancesMatch`, `AccountsCovered` | `Spec => []QuotaMatchesLedger`, `[]NeverOverdrawn` | the same |
| `DeliveryIsPaid` | `Spec => []DeliveredIsPaid` | `SettledInv`, `DeliveredInv` |
| `OneWorkerAtATime` | `Spec => []SingleExecution`, if `RetryLimit <= 0` | `TypeOK`, `JobsInv`, `ClaimsInv` |
| `NoTaskIsForgotten`, `AttemptsAreBounded` | `Spec => []InGoodHands`, `[]AttemptsCountedOnce`, if `Faults \subseteq {"queue"}` | `TypeOK`, `SettledInv`, `NeverOverdrawn`, `HandsInv` |
| `OneWorkerUnlessStalled` | `Spec => []SingleExecution` and `ReviewSpec => []SingleExecution`, if `"stall" \notin Faults` | `TypeOK`, `OwnInv`; `DecidableInv` |
| `ReviewsTypeCorrect` | `ReviewSpec => []ReviewTypeOK` | is inductive |
| `ReviewsAreDecidable` | `ReviewSpec => []DecidableAndPaid`, if `"stall" \notin Faults` | `DecidableInv`, `PublishedIsPaid` |
| `ReviewsAreSettled`, `ReviewsDeliverPaid`, `ReviewsAreOrderly`, `ReviewsImplementBook` | `ReviewSpec => []SettledReviews`, `[](SettledOnce /\ DeliveredIsPaid)`, `ReviewsKeepToRules`, `ImplementsBook`, if `SingleReviews` | `SettledReviewInv` |
| **`QuotaBookProofs`** | | |
| `BookTypesCorrect` | `BookSpec => []BookTypeOK` | `BookInv`, which `TaskProofs` uses too |
| **`BooksProofs`** | | |
| `BillingTypesCorrect`, `CashAddsUp`, `NothingIsPaidTwice`, `TasksAreCovered`, `RefundsClose` | `BillingSpec => []BillingTypeOK`, `[]CashIsAccounted`, `[]PaidOnce`, `[]AlwaysCovered`, `RefundedIsClosed` | `BillingInv` |
| `ReconciliationTypesCorrect`, `RepairsAreMadeOnce`, `OnlyFaultsUnbalance` | `ReconciliationSpec => []ReconciliationTypeOK`, `[]RepairedOnce`, `RepairsKeepBooks` | `RecInv` |
| `PursesAreKept` | `BillingSpec => ImplementsPurse` | `PurseInv`: `BillingInv`, `KeysOnce`, `ExactOK` |
| `AnImageHasAPrice`, `PricesTypeCorrect` | `PriceSpec => []AlwaysPriced`, `[]PriceTypeOK` | `PRInv` |
| `BooksTypesCorrect` | `BooksSpec => []BooksTypeOK` | those of its modules |
| **`StaffProofs`** | | |
| `AnOwnerRemains`, `RevocationLasts` | `AdminSpec => []OwnerRemains`, `RevokedForGood` | `SInv` |
| `LastOwnerStays` | `AdminSpec /\ []OneAtATime => [](OwnerAlwaysRemains /\ ~raced)` | `SInv`, `NothingOvertaken` |
| `StaffStaysInOrder`, `StaffTypesCorrect` | `AdminSpec => []StaffInOrder`, `[]AdminTypeOK` | `SInv`, `OInv`; `AttemptsOK` for the limit of a code |
| `AppealsHeardByAnother`, `AppealsTypeCorrect` | `AppealSpec => HeardByAnother`, `[]AppealTypeOK` | `APInv` |
| `AllStaffTypesCorrect` | `StaffSpec => []StaffTypeOK` | those of its modules |
| **`CustomersProofs`** | | |
| `AccountsTypeCorrect`, `UploadsTypeCorrect`, `AccountsAreInOrder`, `UploadsAreInOrder`, `PenaltiesHaveHits` | `PrivacySpec => []UserTypeOK`, `[]PrivacyTypeOK`, `[]AccountsInOrder`, `[]UploadsInOrder`, `PenaltyHasHit` | `CustomersInv` |
| `ScreensStayInOrder`, `ScreensKeepTheirTypes` | `ScreenSpec => []ScreensInOrder`, `[]ScreenTypeOK` | `ScreenIInv` |
| `CustomersTypesCorrect` | `CustomersSpec => []CustomersTypeOK` | those of its modules |
| **`LiveProofs`** | | |
| `StreamKeepsBehind` | `StreamSpec => []StreamTypeOK` | `StreamInv` |
| `LiveTypesCorrect` | `LiveSpec => []LiveTypeOK` | those of its modules |
| **`StudioProofs`** | | |
| `CatalogTypesCorrect`, `CatalogueIsInOrder` | `CatalogSpec => []CatalogTypeOK`, `[]CatalogueInOrder` | `CatInv` |
| `OutputsTypeCorrect`, `OutputsAreInOrder` | `OutputSpec => []OutputTypeOK`, `[]OutputsInOrder` | `OutInv` |
| `WorkspaceTypesCorrect`, `DraftsAreInOrder` | `WorkspaceSpec => []WorkspaceTypeOK`, `[]DraftsInOrder` | `WsInv` |
| `DeliversOnlyPassed`, `CallsTypeCorrect` | `ProviderSpec => []OnlyPassedDelivered`, `[]ProviderTypeOK` | `PIInv` |
| `StudioTypesCorrect` | `StudioSpec => []StudioTypeOK` | those of its modules |

The pipeline and its credits:

- `SettledInv` strengthens `SettledOnce` with the fact that no task is ever `partially_succeeded`: the
  state machine allows that status, no transaction writes it, and without this conjunct
  `SettledOnce` says nothing of such a task. The step proof has one case per action that touches
  `status` or `ledger`; the others are dismissed together.
- The book's step needs that moving a task between phases shifts exactly its price between the sums. The lemmas
  `UnitsAdd` and `UnitsRemove` do this for one set of tasks, `CreditsGained`, `CreditsLost` and
  `CreditsKept` for a user and a phase, `StatementMove` for a balance. They rest on the cardinality theorems of the
  library, and on `Units` being finite (`UnitsFinite`).
- The refinement is proved in three steps. `StepsOfCredits` sorts the actions by what they do to credits:
  nothing, `Opens`, `Reserves` or `Settles`; here `SettledInv` says that what is settled was reserved and
  not settled before. `OpensAccount`, `ReservesPrice` and `SettlesPrice` show that each is the book's step of that
  name. `CreditNext` shows that `CreditInv` is kept: the book's own invariant, and `OwnersInv`, that a
  user with a priced task has an account. The code opens the account inside `createTask`, and without
  `OwnersInv` a second opening could reset balances that other tasks have changed. What the book's
  invariant says of balances is then true of the accounts.
- `DeliveredInv` ties the images to the status (delivered exactly when the task succeeded, pending only
  under review), and `SettledInv` ties the status to the ledger.
- `OneWorkerAtATime` has as hypothesis that a job has one attempt. Then every job handed out carries key 1
  (`JobsInv`: a job that could be handed out has no attempt behind it), and whoever
  executes a task has stored that key or the task is gone (`ClaimsInv`), so a second `start` finds its own
  key and is ignored. With several attempts a stalled worker and the next attempt do run side by side.
- `HandsInv` is about what three parties know of one attempt: the queue's job, the worker's copy of it and the
  task's row. A job is active exactly while a worker busy with its task owns it (`JobHeld`, `WorkerHolds`), and
  for an active task the key stored in the row is that of the last attempt made, or of the one under way
  once `start` has passed (`InHand`, `Counted`). So a job handed out is never ignored, a job is completed or
  evicted only after its task has ended, and a request that could not enqueue a task still fails it. The last
  of these needs that the release cannot be refused, which is `AccountsCovered`. The hypothesis is that of
  the run `task_live`: Redis may fail, processes neither die nor stall, and the database answers. Both
  theorems fail without it; see section 5.
- `OneWorkerUnlessStalled` needs less: while the queue takes no live worker's job away, a worker that is busy with a task owns
  its job (`OwnInv`), so there is no second one, whatever crashes or is lost and however many attempts there are. The same
  holds while moderators decide, since what they hand back to the queue is a job that nobody owns.

The moderators, on top of the same lemmas:

- `DecidableInv` says how a review can disappear from under a task: it cannot, as long as a job belongs to the worker
  busy with its task (`JobFree`, `Owned`), because then a worker about to hold a running task has opened its review
  itself and nobody has decided it (`HeldOpen`). The hypothesis is that nothing stalls; with a stall the
  property fails, see section 5. It holds for any number of overlapping decisions, and whatever crashes.
- `SettledReviewInv` adds to the invariants of the pipeline what is true with one decision at a time, one image per task
  and no prompt put up for review (`SingleReviews`): a task under review has one review, of its pending images and
  undecided (`UnderReview`); the decision under way is about the review that its task still waits for, unless the task
  was deleted (`DecisionHolds`). Then a decision is a settlement like the workers', the lemma `SettlesPrice` applies to
  it, and the whole still implements the book. Each part of `SingleReviews` is needed: without one of them credits are
  settled twice, see section 5.

The books:

- Sums are written as cardinalities (`Tally(f)` is the number of pairs of `x` and a number up to `f[x]`), because what
  a fold computes can only be shown by an induction that none of the provers can do. `TallyProofs` shows what adding,
  removing and changing one value does to a sum; `CashPosted` and its like say what an entry does to a ledger's.
- `BillingInv` says which readings of a transaction in flight stay true although others commit (`StillTrue`): that an order
  exists or was paid, that what is to be taken had been granted, that it pays for the task. Everything else is
  checked by the writes, and the keys of the entries do the rest (`CashEntryOK`, `GrantOK`): a second payment or
  settlement would have to write a key that is taken.
- `PurseInv` is what the refinement needs beyond `BillingInv`. A reservation in flight pays for its task exactly, with images of the
  task's user (`Exact`): this was so when it was read (`ReadExactly`, from what `Takes` gives each place of the
  shelf), and a package never changes its holder. And an entry of the cash ledger is known by its key
  (`KeysOnce`), so that the ledger says what became of a task's cash. `PurseStep` then goes through the writes: a
  payment and a code are `Receive` (the entitlement did not exist, `GrantOK`), a refund is `Close` even when it is the second one,
  a reservation is `Pay` with the images it took, also when it commits without its task, and a settlement is
  `GiveBack` or `Keep` for the cash, or nothing when the task has none. That a settled task's images change nothing is where
  the model shows the finding of section 5: no entry names its task (`Entries(t) = {}`).
- `RecInv`: what a repair has read stays true until its task is deleted (`ReadingOf`), a settlement is of the kind
  its task ended in and has only ever another repair's key (`EntriesFollowTasks`, `AtMostOne`), and while nothing
  has gone missing every end has its entry (`NothingMissing`), so a scan of different moments finds nothing to repair.
- `PRInv` adds to `AlwaysPriced` that a publication under way archives only versions that exist
  (`ArchivesExisting`), and that versions are numbered without gaps up to the highest (`Numbered`), so that a new one has a
  number of its own.

Staff and customers:

- `SInv` says of a request whose readings are still fresh that what its checks found still holds
  (`FreshReadsHold`), that the owner's role stays as seeded (`OwnerRoleStays`), and, unless `raced`, that an active
  account holds it. A step that commits on fresh readings keeps it because the check did;
  one that commits on others sets `raced`. `OInv` adds what codes and sessions owe each other: an open
  code has no session (`UsedOnce`), and a login under way has consumed its code.
  `AttemptsOK` counts a code's failed attempts together with the wrong guesses under way (`Guesses`): together
  they stay below the limit plus the number of requests that may run at a time, since a guess is only let in below the limit.
- `LastOwnerStays` says under which condition the documents' promise is kept, which the run `admin_owner` refutes in general:
  no two requests of the staff are at work at a time (`OneAtATime`). Then what is at work is fresh and nothing is
  ever overtaken (`NothingOvertaken`), and `OwnerRemains` has no exception left.
- `APInv` is the type of the rows and `NoneOfHis`: a moderator who has read an appeal is assigned no review of its
  subject, unless he has claimed one since (`joined`). Nothing in the code rules that out, so the exception is part of
  the theorem. `HeardByAnother` is an action property and follows from it for each step.
- `ScreenIInv` says of a change that a page has sent, or confirms in a dialog, that the page offered it (`OfferedAll`): the
  session had the permission, the row was seen with a status of the button, and its ties do not hide it. Ties never
  change, so all copies of a row agree on them (`SameTies`). What the tables of `AdminPages` promise is proved page by page:
  a row as the button wants it is refused only for what the page does not show (`ButtonsTell`), buttons and routes
  ask for the same permission except for codes (`ButtonsAsk`), and what is decided for good is accepted in one
  status only (`DecisionsTell`); there the page that also offers what others have claimed needs `OthersKeep`. One change at a time is
  `WaitsForOne`: a change or the list that ends its wait is under way while the page saves, never two. It holds
  for any number of rows, lists on their way and changes.
- `CustomersInv` has for each kind of request what it has read and what of that is still so while it is fresh (`RowOK`), that no
  two of them hold the same code or object (`Apart`), and for the clean-ups that what they are about to remove is
  already on its way out (`CleanersOK`), so that two of them cannot count it twice. What was removed is what the audits
  told, what none will tell, and what clean-ups under way have counted; a `create` without an answer leaves a
  row whose object may be gone, `stray`. Guesses under way are counted
  with the wrong ones made (`AttemptsOK`), which bounds how far overlapping guesses pass the limit.

Catalogue, images, drafts, calls:

- `CatInv` is, as `SInv`, about readings that are still fresh (`OpOK`), and adds that a published model has a version in
  force. That the weights are honoured is about the choice of a route alone: the routes are ordered strictly by
  priority and identity (`Ahead`), each owns the keys from the total of those ahead of it to that plus its own weight
  (`Total`), and these shares are disjoint and exhaust all keys (`Shares`). What would be an induction over routes is
  done by counting: `Climb` and `Topmost` give a greatest element of a finite set, from the cardinality of its
  initial segments.
- `OutInv` says of each execution which of its files exist at each step (`Keeping`, and nothing else unless it is untidy: `Tidy`),
  and of each row that its execution is done or has lost its answer (`RowsStored`). A commit finds no row of its task
  (`RowsOfEnded`), so those it writes are those it stored.
- `WsInv` says that a text on its way was typed in the conversation it goes to (`TextsApart`), for each of the
  four places a text can be, and, unless the user was faster than the autosave, that what was meant is in the
  composer, saved or in the one request under way (`Held`). What is meant is empty once "generate again" has emptied
  the composer, until something is typed or restored there (`Expected`).
- `PIInv` adds `NotYetAsked`: no image has a verdict before an attempt asks for images, which is what
  keeps the verdicts of an abandoned attempt from being counted.

What the stories of a run add up to:

- `BooksTell`, `StudioTell` and their like show that a behaviour of a specification which tells one of several stories is a
  behaviour of each of its modules, since the story that is not theirs leaves their variables alone. The joint type
  theorems follow from those of the modules, and every other theorem carries over to the runs the same way.

Only model-checked: liveness (`EventuallySettled`, `CatchesUp`; out of the prover's reach, as is `ENABLED`). Every other
property of a passing run is stated by a theorem, for some under a hypothesis that the table names and the run's
constants or constraints meet.

## 7. What is abstracted, and what is not modelled

- **Data.** Prompts, models, images and error texts do not matter to the properties. A price is
  images × (2 in 4K, else 1), with 1 to 8 images as the database's constraint has it.
- **Results of a task** change together in the code, so one value per task stands for them in `GenerationTask`; they are
  apart in `OutputObjects`. Reviews are one per image and are kept apart.
- **Paid billing beside the credits.** Seen from `GenerationTask`, a failure of `reservePaidBilling` or
  `settlePaidBilling` rolls the transaction back, like the `"db"` fault. Whether the credits suffice is a choice
  in `PaidBilling`. Deadlocks between its row locks are resolved by the database by aborting one, which is that same choice.
- **Several jobs per worker.** A worker process with concurrency *n* is *n* workers here; a
  crash takes one of them, and the crash of all is a sequence of such steps.
- **Time.** Retry delays, expiries and retention periods are steps that may happen at any moment.
- **Retry limits** are integers. `queueAttemptsForRetryLimit` also turns anything else into a number; the
  configuration does not produce it.
- **Read, then conditional update.** `fail` and `cancelTask` read a task's status before the
  conditional update that repeats it. If a worker starts the task in between, the update finds nothing and the
  call is ignored. For `cancelTask` this is a call that did nothing; for `fail` it needs a task that was queued
  again by a moderator while an earlier worker was still at it, and is not modelled.
- **Idempotency keys of deleted tasks.** The ledger entry of a deleted task outlives it and its key is unique, so a
  task is created at most once in the model.
- **One of each.** One account in `Reconciliation`, one task in `ProviderCalls`, `TaskStream` and `Appeals`, one code in the risk
  rules, one browser tab, one administrator at a page: nothing read for one of these is used for another.
- **Pages.** The tabs of a page are screens of their own; the permissions to read are not modelled.

Not modelled: `createOrder`, `paymentCallback` and a user's refund are in `PaidBilling` although no HTTP route leads to them yet,
but `reserveCash`, `settleCash`, `releaseCash` (`billing.repository.ts` from line 363) and `reserveEntitlements` (644 to
696) are left out: only tests call them. The drift that a reconciliation records without repairing
(`quota-reconciliation.ts` 119 to 185) changes no state. Dashboard, audit and task listings, titles of sessions, galleries,
contracts, configuration and the UI kit are queries, types and layout.

## 8. Plan

What would come next:

1. Give the images of a released task back in `Purse` and in `PaidBilling`, once the code's entries name their task; then
   `ReleasedImagesReturn` becomes a property of `books` and a part of the refinement.
2. The takeover of a task from a dead worker by a lease (`docs/development-plan.md:432`), once it exists: `InGoodHands` and
   `AttemptsAreBounded` then lose the hypothesis that no process dies.
3. An outbox between `createTask` and the queue, likewise.
