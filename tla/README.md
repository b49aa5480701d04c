# Feedback Analytics API gateway: a verification development

TLA+ models of the parts of the gateway that keep state and that several
actors write at once, TLC runs that check them on small instances, and TLAPS
proofs for every instance. Paths are relative to the repository; the code of
the gateway is under `src/`, its database schema and triggers under `drizzle/`.

## The system

The gateway is an Express application on PostgreSQL. Companies ("enterprises")
collect feedback by QR code, managers read it, and an AI provider analyses it.
AI work never runs inside a request: a request inserts a row into
`ia_analysis_job`, and *runs of* `drainJobs` - started by the request itself and
by every poll of a job (`kickWorker`), by the local loop (`startIaWorker`) or by
a cron call of `POST /internal/worker/tick` - claim rows and work on them. Runs
overlap freely, in one process and across serverless instances, and each may
die at any point. The database is the only thing they share.

| Component | State | Operations | What is hard | What makes it correct |
|---|---|---|---|---|
| AI job queue (`repositories/iaJob.repository.ts`, `libs/iaJob`) | rows of `ia_analysis_job`; the copy of the row that a worker holds | `enqueueIaJob`, `claimNextIaJob`, `heartbeatIaJob`, `saveClaimedIaJob`, `advanceWaitingIaJobs`, the catch block of `processJob`, deletion of the company | workers that stall past their lease, lost acknowledgements, two requests at once, a deletion in between | one active job of a key, one writer of a job, no progress undone, nothing revived, every job ends |
| AI rate budget (`libs/iaJob/rateBudget.ts`) | counters of `ia_rate_budget` per window | `reserveIaBudget` | overlapping transactions, a window that ends while one waits, a second window that refuses after the first was paid | limits hold, no token leaks, no deadlock |
| Company questions (`collectingData.repository.ts`, `companyQuestion*.ts`, `autoGenerateCompanyQuestions`) | the three COMPANY questions; jobs of one type; counts of 24 hours | save of the profile, "try again", `enqueueCompanyQuestionSuggestions`, `applyCompanyQuestionsIfDefault` | READ COMMITTED transactions with different locks on the same rows | an edit made during the AI call is not lost, a generation is applied once, limits of generations, no deadlock except over missing questions |
| Analysis and insights jobs (`drainJobs.ts`, `insightsJob.service.ts`, `iaAnalyze.service.ts`, `iaAnalyze.repository.ts`) | checkpoint in `options`, `feedback_analysis`, `feedback_insights_report` | preparation, one batch or synthesis per claim, publication, cache of reports | a checkpoint in several phases, side effects before the save, publication without the lease, dates written by a trigger | nothing is generated twice or lost, progress is true, completed means published, the cache hides nothing |
| Scope diagnosis (`scopeDiagnosis.service.ts`, `scopeDiagnosis.repository.ts`) | `scope_diagnosis`; the package with customers' texts in the options of the job | request, reuse by hash, generation, count of new feedback | insert and end of the job are two statements; data is read at the request and dated at the insert | texts leave every ended job, a completed job has its diagnosis, nobody pays twice for a reason that could be seen |
| Public feedback and device quota (`qrcode.controller.ts`, `qrFeedback.repository.ts`) | `feedback`, `tracked_devices`, `customer` | submit: device, quota of the day, customer, feedback with its answers, counter | each check is made before its insert, in another statement; no unique index on devices or e-mails; midnight in Brasilia | twins and a second feedback of a day only between submissions in progress together, the counter counts what is there |
| Collection points (`collectionPointsQr.*`, `publicEnterprise.repository.ts`) | `collection_points` | enable, disable, list, resolve for the form | two requests create the same point; the list looks at one point and the form at any | whoever acts alone gets what the answer says; twins need an overlap |
| Questions of catalog items (`saveCatalogQuestions`) | `questions_of_feedbacks` and subquestions of one item | save, slot by slot in one transaction | rows that do not exist yet cannot be locked; two orders of locks | saves are not mixed, and wait in a ring only if they are opposite |
| AI configuration (`iaConfig.service.ts`, `iaConfig.repository.ts`, `libs/iaConfig/openRouterModels.ts`) | one row with key and model; the cached catalogues of an instance, with fetches in progress | save a key, connect an account, change the model, remove, look at the catalogue | requests wait for OpenRouter while the key is replaced; waiters share a fetch; an entry is dropped while its fetch runs | the stored model was offered to the stored key, nothing dropped comes back |
| Resend limit of e-mails (`libs/resendRateLimit.ts`) | `auth_rate_limit`: a counter of each IP and e-mail, a cooldown of each e-mail | `reserveResend`, the cleanup after it | transactions that wait with the `now()` of their beginning, rows that are deleted in between | cooldown and windows hold whoever asks from wherever |
| Account (`auth/`, `register.controller.ts`, `completeSignup.controller.ts`) | `user`, `enterprise`, rows of other tables without foreign key to them | sign-up with a password, Google or Better Auth's own handler, completion, phone, deletion | user and company are made in two transactions, the hook of Google and a completion at once, writes during the deletion | the acceptance of the terms stays, who has no company had a failure or came by Better Auth's own sign-up, nothing is left of who left |
| Feedback queries and metrics (`feedbacks.controller.ts`, `scope.repository.ts`, `scopeMetrics.service.ts`, `questionMetrics.service.ts`, `feedbackList.repository.ts`) | none; each answer is put together from several queries | stats, analysis, timeline, heatmap, customers, questions, list by pages | feedback arrives and is analysed between two queries of one request, questions are edited, midnight passes | numbers count what was asked, and all of it |
| Selection and batching of an analysis (`iaAnalyze.repository.ts`, `libs/iaAnalyze`) | none; what one job selected | select pending comments, cut them into batches, accept an answer | jobs of other scopes analyse the same comments, limits, answers that miss ids | nothing pending is left behind |
| Preferences, HTTP, middlewares, AI providers | none, or one row per user | upserts of one row, I/O | no interaction | not modelled |

`PROJECT.json` lists the same components with their sources and, under
`hazards`, each place of the code where something may go wrong that a test
hardly reaches, with the properties that would notice.

Interactions. A save of the profile asks for a question job (it enqueues); a
new AI model advances jobs that wait for budget; each AI call of a job first
takes a token of the budget; analysis jobs write what insights jobs read; the
deletion of the account cascades into all tables while workers run.

## Modules

```
JobLease  <--- implemented by --- IaJobQueue <--- IaJobQueueProofs
  ^ and by CompanyQuestions,          ^ lease, repeated with less detail
    ScopeDiagnosis       +----------------+----------------+
                  CompanyQuestions   InsightsJob     ScopeDiagnosis
                                  ^ what a job selects
FeedbackTable <--- FeedbackViews, FeedbackList, AnalysisSelection
                   QuestionMetrics          } MCScreens: one reader at a time
TokenBudget <--- implemented by --- RateBudget
QrFeedback
CollectionPoints, CatalogQuestions, IaConfig,
ResendLimit, Account                        } MCCompany: one of them at a time

CompanyQuestions <--- CompanyQuestionsProofs
ScopeDiagnosis   <--- ScopeDiagnosisProofs
InsightsJob      <--- InsightsJobProofs
QrFeedback       <--- QrFeedbackProofs
CollectionPoints, CatalogQuestions, IaConfig <--- CompanyProofs
Account, ResendLimit, RateBudget             <--- AccountAndLimitsProofs
FeedbackViews, FeedbackList, QuestionMetrics, AnalysisSelection <--- ScreensProofs
```

A component has an `MC` module with its instances and one `.cfg` per run. Two `MC`
modules hold several components: `MCScreens` `EXTENDS` the readers, three of which
extend one `FeedbackTable`, whose writers run beside each of them; `MCCompany` `EXTENDS`
components that share nothing, and each behaviour is one of them (`part`), so that a
property of the run speaks of the part it is named in. A statement of the
database is one action; between two statements of an actor anything may happen.
Where the code holds a copy of a row in memory the model has it as variables of
the worker.

**Bugs kept beside the definitions.** In the component modules an operator
`F_Bug` is `F` with a plausible bug (a dropped guard, a missing reset, a lock
that is kept). No specification uses them; put in the place of `F`, each makes
TLC find a property violated. `PROJECT.json` pairs them under `mutants`.

**Types.** The modules of jobs, submissions, points and saves state a `TypeOK`. Those of
`IaJobQueue`, `RateBudget` and `QrFeedback` are part of their inductive invariants and
proved; the others document the variables, and every property of the runs would
fail to evaluate if they did not hold of what it reads.

### IaJobQueue

| TLA+ | Code |
|---|---|
| `status`, `attempts`, `done`, `failures` | columns `status`, `attempts`, `done_units`, and `failures` inside `options` |
| `due` | the jobs with `next_run_at <= now()`; a claim and a heartbeat push it ahead by the lease, `TimePasses` brings it back |
| `key` | `(enterprise_id, job_type, scope_type, catalog_item_id)`, the columns of `uq_ia_analysis_job_active` |
| `job`, `rev`, `mem`, `fails`, `leaseError` | `ClaimedIaJob` and the variables of `processJob` |
| `SelectActive`, `Insert`, `InsertViolates`, `Reread` | the four outcomes of `enqueueIaJob` |
| `Claim` | `claimNextIaJob`, one UPDATE over `FOR UPDATE SKIP LOCKED` |
| `Fenced`, `Save` | the WHERE clause and the assignments of `saveClaimedIaJob` |
| `StepSucceeds`, `StepFails`, `BudgetExhausted` | the call of a step |
| `Checkpoint`, `Settle`, `Park`, `SaveFailure`, `GiveUp` | the saves of `processJob` and their `LeaseLostError` |
| `Heartbeat`, `HeartbeatFails` | the interval of 30 seconds |
| `AdvanceWaiting`, `DeleteEnterprise` | a new model; `enterpriseOnDelete` with ON DELETE CASCADE |

Which due job is claimed first (`ORDER BY next_run_at, created_at`) is left
open. `MaxFailures` and `MaxThrottled` stand for 3 and 5; the runs take 2 and 3,
which keeps the two limits apart. Only `mishaps` is a bound of the model.

`JobLease` is the promise: a job is opened once and closed once, it has an
owner, and only the owner advances, releases or closes it. The queue has no
owner column; the refinement reads the owner off the revision numbers
(`ownerOf[j]` is the worker whose save would still match the row).
`CompanyQuestions` and `ScopeDiagnosis`, which repeat the lease around a single
call, implement the same promise with the same mapping; their one step is the
result that the job stores when it is completed (`doneOf`: the flag `applied`, the id of
the diagnosis). `JobLease` counts steps and does not say whose result is stored:
`AppliedIsTheHolders` and `ResultIsTheHolders` do, on the row itself. `InsightsJob` does not: a job that analyses and then generates
starts its counter again from 0 (`drainJobs.ts:139`), while `done` of `JobLease`
only grows.

### RateBudget

`dayUsed` and `minuteUsed` are committed rows; `dayLock` and `minuteLock` are the
row locks that an upsert takes and the transaction keeps. A caller reads `now()`
at `Begin` and pays in the windows of that instant, however long it waits.
`ReserveDay` and `ReserveMinute` are the two upserts with `WHERE used < limit`; a
refusal or `Abort` rolls back both; `Commit` may lose its acknowledgement.

`TokenBudget` is the promise to whoever calls `reserveIaBudget` and sees no locks: a call
is asked for in one minute and answered in one step, granted only while that minute
and its day have room and then paid in both, refused only by a full window and then
paid in none; an error says nothing. `ImplementsBudget` maps the committed rows to
what is paid, and the end of a transaction to the answer.

### CompanyQuestions

Transactions are READ COMMITTED. The locks that decide are those of the
`collecting_data` row (a save), of the `enterprise` row (`FOR UPDATE` by apply and
enqueue, `FOR KEY SHARE` by the foreign key of a new catalog item or question) and of
the question rows. The three questions are written together in one order, so that
one value and one lock stand for them: `None` is a company without COMPANY questions
(from before they were seeded; it is an initial state too), where the lock is that of
the keys in `uq_questions_company_order`; `Default` and `Sub` are the default texts, without
and with an active subquestion; `User` are texts of the manager.

`BeginSave` .. `CommitSave` are `saveCollectingDataPatch` and `saveCollectingDataUpsert`.
`SyncQuestions`, `InsertQuestions` and `ShareCompany` are `syncCompanyQuestionsTx`: the UPDATE,
which waits for nothing when it finds no row; the INSERT, which waits for the keys; its
foreign key, which waits for the company when the keys are already taken. Whatever way the
transaction ends, `EndSave` gives the locks back. `Retry`, `ReadLatest`, `ReadDefault`,
`ReadDefaultSubs` are `autoGenerateCompanyQuestions`; `BeginEnqueue`, `CountJobs`,
`InsertJob` are `enqueueCompanyQuestionSuggestions`; `BeginApply`, `ReadTexts`,
`ReadSubquestions`, `WriteQuestions`, `CommitApply` are `applyCompanyQuestionsIfDefault`, which
does not look at the lease. `ReadTexts` and `ReadSubquestions` are the two statements of
`hasDefaultCompanyQuestionsIn`, each of which sees what is committed when it runs.
`SeedDefaults` is `provisionEnterpriseForUser` for a company that lacks its questions.

`edited` and `late` are history variables that only properties read; `late` are the workers
that were past the statement which would have shown them an edit when it was
committed (`HasRead`). `Needs(p)` names the holders of the locks that the next statement of
a session or a worker needs; it is a definition of the properties, and
`SomebodyGoesOn`, which asks the actions themselves (ENABLED), would fail if it named
too few of them. `Crossed(s, w)` is the one ring there is, and it is reached (after 15
states, with two sessions, a worker and no mishap): a company without questions; a
worker locks the company and sees none; a save inserts the keys and needs the company;
the worker inserts the same keys. PostgreSQL then cancels one of the two, which is
`AbortSave` or `AbortApply`.

### InsightsJob

The checkpoint `ck` is the state machine of `processJob`: phase, snapshot cut
into batches, cursor, partial insights, targets of the synthesis, results. A
batch is one feedback, the cursor is the set `todo` taken in order. A worker has
the copy it works on (`mem`) and the copy that was last confirmed (`kept`), which
the catch block writes. `AnalyzeBatch` stores analyses before the checkpoint
knows of them, `Publish` writes reports after the lease was last looked at; both
are where the interleavings are. The scope - which report each feedback belongs to
(`reportOf`) and whether the scope is a single report, the only kind that has a
cache (`oneReport`) - is chosen in `Init`. An instant is the number of analyses stored so
far: dates are only compared with dates of analyses. An insert of a report keeps
the date of its snapshot, an update gets the date of the trigger
`set_updated_at` (`drizzle/0001_functions_triggers_rls.sql`).

### ScopeDiagnosis

One scope in one open period. Feedback arrives (`Arrive`, environment); `Request`
reads the package and its hash, which here is the number of feedbacks it covers;
`LookUp` is `findScopeDiagnosisByHash`, `Enqueue` is `enqueueIaJob` in one step (its
own races are those of `IaJobQueue`). `CallAi`, `Park`, `Insert`, `SaveCompleted`,
`SaveFailure` are the branch of `processJob` for this type; `Insert` writes
`scope_diagnosis` before, and apart from, the save that completes the job.
`package[j]` is what the options of the job hold of the request: the customers'
comments, or nothing any more.

### QrFeedback

One browser (one fingerprint) that submits at the points of one company. Each
statement of `submitQrCodeFeedbackController` is an action, `persistQrFeedback` is one
(a transaction that other submissions see as a whole). A feedback is the request
that stored it; `device` rows and `customer` rows are named by the request that
inserted them. The clock has days in UTC and in Brasilia that begin at different
instants. `overlaps` records which submissions were in progress together.

### CollectionPoints

`FindActive`, `FindAny` are the reads of `activateOrCreateCompanyQr`,
`activateOrCreateCatalogQr` and `deactivateCompanyQr`; `LIMIT 1` without an order
picks any row. A write has a start, whose instant is `now()` and whose rows it
uses, and an end, at which it takes effect: updates of two requests may so be
dated against the order in which they commit. `LatestOf` is
`ORDER BY updated_at DESC, created_at DESC`. The items stay in the catalog and active
(an item that is not closes its form whatever its points say).

### CatalogQuestions

A save is one transaction of READ COMMITTED statements; `lock` and `pending` hold
the rows it wrote. The slots are visited in order whatever the order of the
request (`SlotAt`); the subquestions of a slot are one row. `Abort` stands for each
failing statement: a unique violation, a deadlock that the database breaks, a
lost connection. The snapshot of the answer is read after the commit in the same
`try` (`ReadSnapshot`).

### FeedbackTable, FeedbackViews, FeedbackList

`FeedbackTable` has the rows the screens read and everybody who writes them:
`Submit` begins the transaction of a feedback, whose start is its `created_at`,
`Commit` makes it visible (so that an older row may appear after a newer one),
`Analyze` is a row of `feedback_analysis`, `Make` a new collection point, `Tick` the
clock in bands of six hours. `ScopedFeedbackWhere` and `PointsOfItems` are the
predicates of `db/tenantScope.ts`, with what they do with an empty list.

`FeedbackViews` is one request of a screen. `Ask` parses it, `ReadItems` and
`ReadPoints` are the two queries of `resolveScopeCollectionPointIds`, and then each
query of the service is an action named after its function, in the order of the
service (`Plan`), or in any order where the code starts them together (a
diagnosis package, the two queries of the customers). A query is the set of rows
it selected; the numbers are computed from the sets as the service does
(`FillTimeline`, `Heatmap`, `Pending`, `VisitsOf`). Dates are days of a calendar given
by `Sunday` and `MonthStarts`.

`FeedbackList` is `GET /feedbacks`, page after page: filter, points, count, page by
offset. Rows of one `created_at` come in any order, another one in each query.

### QuestionMetrics, AnalysisSelection

`QuestionMetrics` is `computeScopedQuestionMetrics` query by query, while customers
read the form, fill it and save it (`ReadQuestions`, `ReadSubquestions`, `SaveAnswers`)
and the manager edits texts and switches questions off (`Edit`). A metric is the
set of the answers it was computed from.

`AnalysisSelection` is `prepareAnalyzeRawJob` (`FetchPending`, `CountScope`, `Recheck`),
the batches of `build.ts` and the acceptance of an answer (`RunBatch`, `Complete`).
`InsightsJob` has the lease and the checkpoints of the same job and takes one
feedback for a batch; this module has what is in the batches.

### IaConfig

`row` is the row of `enterprise_ia_config`; `write` stands for its ciphertext, IV and
tag, which no two writes share. `cached` and `entry` are the `Map` of
`openRouterModels` and its entries, numbered in the order of the `Map`; an entry
lives on after it was dropped while somebody waits for it. `Get` is the synchronous part of `get`, and `Answered`,
`Refused`, `Unavailable` are the three ends of a fetch, with all who wait for it.
`Unchanged` is the WHERE clause of `updateIaModel`.

### ResendLimit

One e-mail and several IPs. `limits` has committed rows, `wrote` and `locks` what the
transactions wrote and lock. `ConsumeIp`, `SeedEmail`, `LockEmail`, `Decide` are the
statements of `reserveResend` in their order, `began` is the `now()` of a transaction,
`Cleanup` the DELETE afterwards. The cooldown row is only touched under the lock of
the e-mail, so that reading and writing it is one step.

### Account

`users` and `company` are tables; a company is named by its user. `Provision` and
`CommitCompany` are the transaction of `provisionEnterpriseForUser`, `Purge`,
`DropCompany`, `CommitDrop` that of `deleteEnterpriseOfUser`, `DropUser` what Better Auth
does afterwards. `loose` stands for the rows of `customer`,
`collecting_data_enterprise`, `ia_rate_budget` and `verification`, each of a company or
of a user, without a foreign key. `Better Auth` is external: `SignUp` has the
outcomes that `register.controller.ts` distinguishes. `NativeSignUp` is Better Auth's own
`POST /api/auth/sign-up/email`, which `index.ts` mounts with all its routes: the hook of the
account skips `credential`, so the user has no company until the profile is completed.
`stranded` is the history of the users who were left so, or by a failure, and whom no
provisioning has reached since.

## Runs

| Run | Instance | What it shows |
|---|---|---|
| `queue_safety` | 2 requests, a key of 2 steps and a key of one call, 2 jobs, 2 workers, a company that may be deleted, 1 mishap | one active job, one writer, no job outlives its company, `JobLease` implemented |
| `queue_live` | 1 request, 2 workers, 3 mishaps | every job ends |
| `budget_safety` | 2 callers that may ask for ever, 2 a minute and 3 a day, 2 days of 2 minutes | every reservation is answered, `TokenBudget` implemented: limits hold and no token leaks |
| `questions_safety` | 3 sessions, 2 workers, 2 jobs, 1 mishap | limits of generations hold; generated texts never replace generated ones, nor an edit made during the AI call; a ring of waits, and a state in which nobody goes on, need a save and a job that cross over missing questions |
| `insights_safety` | 2 jobs, 2 workers, 2 batches, every scope with up to 2 reports, 1 mishap | what was generated is kept and used once; completed means published; a report covers one whole snapshot, with the cache and a stale publisher |
| `qr_safety` | 3 submissions of one browser at one point around both midnights, a block, 1 mishap | quota, device, customer and counter go wrong only by submissions in progress together; the first customer of a device stays; a retry finds what the first attempt left |
| `diagnosis_safety` | 3 requests, 2 workers that crash, stall and lose acknowledgements | comments leave every ended job; a completed job has its own diagnosis and a second call a reason; later diagnoses know the earlier |
| `company_safety`: points | 3 requests on the company and one item | twins mean overlap; a disabled item is closed, and the list says so unless twins were left |
| - catalog questions | 2 saves of 2 slots, rows that exist, were emptied, or are new | saves are not mixed once the first slot exists; a ring of locks needs opposite saves |
| - AI configuration | 3 requests in 5 combinations, 2 keys, 2 models, a cache of one entry, a key that may be revoked, a catalogue that grows stale | the stored model was offered to the stored key; what was dropped stays dropped |
| - resend limit | 3 requests for one e-mail from 2 IPs, windows of 2 and 3 seconds, a cooldown of one | cooldown and limits hold |
| - account | 3 visits of 9 kinds by 2 people, who are new, members, or without a company | terms stay accepted; who has no company had a failure or came by Better Auth's own sign-up, and has not been provisioned since; nothing is left behind but by requests in progress |
| `screens_safety` | 3 feedbacks of 2 companies, every kind of scope, 4 points of which one is created meanwhile, 2 to 5 bands of time; 2 forms and 2 edits of 2 questions and a subquestion | the numbers lie between the truth at the beginning and at the end; pending hides nothing; timeline, customers, list, questions and selection lose nothing |
| `questions_edit`, `insights_cache`, `points_disable` | a violation each | see findings |

`MCCollectionPoints_four.cfg` is a larger instance of the points, with four
requests, to be run by hand (`tlc -config MCCollectionPoints_four.cfg MCCollectionPoints`).
`MCCompanyQuestions_lease.cfg` and `MCScopeDiagnosis_lease.cfg` are run by hand too: fewer
requests and more mishaps, on which TLC finds true what is proved of the lease there
(`ImplementsLease`, `AppliedIsTheHolders`, `ResultIsTheHolders`). `MCRateBudget_tokens.cfg`
has three callers, and checks what follows from `TokenBudget` as invariants of
`RateBudget` too (`LimitsHold`, `NoLeakedToken`).

**Bounds.** `MaxMishaps` counts what the environment may do finitely often:
crashes, stalls past the lease, failed heartbeats, refused budgets, in
`InsightsJob` also failed calls, in `QrFeedback` failing statements and lost
answers. One suffices for a stale worker beside the one that took over; the
diagnosis and the liveness run take more, so that the retry of a retry is
interrupted too. Two workers are enough for every hazard of the lease, which is a
relation of an old writer and a new one; the proofs have no bound on either. Two
steps are the fewest with a first, a last and a stored state in between; two
batches and two reports likewise. Two days of two minutes have a transaction that
waits across the end of a minute and one that waits across the end of a day.
`MinFeedbacks` is 2 instead of 10, so that "too few" happens.

Three submissions have a first that leaves a device, a second and a third that
overlap or follow it; the three hours are the last of one day in Brasilia, the
first of the next, and one that is another day in UTC only. Three requests on
points are two that make twins and one that comes after (four have two that come
after, and take the larger instance); two saves are enough for a mixture and for
a ring of two, and two slots for two orders of locks (the code has three of
each).

Of the AI configuration, three requests are a change that waits, the write that
overtakes it, and a third that finds what the two left in the cache; a cache of
one entry instead of 100 makes the eviction happen. Three confirmations are one
that is granted, one that waits for it, and one that comes when a window is over;
`IpMax` 1 and `EmailMax` 2 keep the two limits apart. Three visits have a sign-up,
another sign-in, and a deletion that meets either. One feedback for each side of
every predicate (company, scope, period, channel, comment, device) and a third
that arrives in between are what a number can get wrong; the writers stop when
the answer is sent, since nothing after it can change it.

**Deadlock.** The queue, the questions, the diagnosis and the insights jobs stop
when all requests were made and all jobs ended, so that their runs switch the
check of deadlocks off. That no job waits for ever is what `EveryJobEnds` says, and
`RingsNeedMissingQuestions` and `SomebodyGoesOn` that saves and workers wait in a ring for the
locks of the questions only where a save inserts missing questions (`Crossed`), which
PostgreSQL ends. Submissions, screens, and the requests of `MCCompany` are finitely many too and
their models end when all are answered; locks that wait in
a ring are the subject of `DeadlockNeedsOppositeSaves`, and `Abort` is the way out
of them. The budget never stops, and its run checks deadlock.

**Fairness.** `IaJobQueue`: runs of `drainJobs` keep coming - each request and
each poll kicks one, the local loop rearms its timer in a `finally`, the cron is
the reserve - so that a job that stays claimable is claimed (weak fairness of
`Claim` for each job), a worker that does not crash goes on (weak fairness of
`Progress`), and time passes. Crashes are not fair and are finitely many: a step
that always kills its worker would be claimed for ever, since only caught errors
count as failures (see the hazards). `RateBudget`: PostgreSQL queues the
transactions that wait for a row, hence strong fairness of the two upserts. The
other specifications state no fairness and no liveness.

## Findings

Three runs end in a violation, each of a sentence of the repository.

1. `questions_edit`. The comment at `src/repositories/collectingData.repository.ts:657-660`
   says that check and write share a transaction with the company locked, "para
   não sobrescrever uma edição feita enquanto a IA processava"; `drainJobs.ts:86-87`
   says "nunca sobrescreve uma edição". A save of the profile takes no lock on the
   company unless it inserts a catalog item or missing questions: an edit that commits
   between the check and the three UPDATEs is overwritten. `EditsDuringTheCallSurvive`
   shows how far it goes: edited texts are lost only if they are committed after the
   first statement of the check, a subquestion alone only after the second.
2. `insights_cache`. `docs/etapa-03-operacao-worker.md:67-68` says "O relatório usa
   a data do snapshot para não esconder análises que chegaram durante a execução".
   True of an insert; on an update the trigger `set_updated_at` replaces that date,
   and an analysis stored during the execution is hidden from the next request.
3. `points_disable`. `docs/endpoints.md:820-824` says that the point of the company is
   disabled and answers `active: false`. With two active points, left by two
   requests in progress together, one of them stays open.

Six more sentences are stated as properties beside the code that contradicts
them, each with a configuration to reproduce it (`tlc -config X.cfg M`); they are
not among the runs of `PROJECT.json`, because the properties that the runs check
already say how far each goes.

| Configuration | The sentence | What happens | How far it goes |
|---|---|---|---|
| `MCCompanyQuestions_applied.cfg`, `AppliedFalseMeansEdited` | `docs/endpoints.md:1027-1028`: `applied` is false "quando a empresa já tinha editado as perguntas" | a worker that dies between the commit of the questions and the save of the job leaves them to a retry that takes them for an edit | `AiNeverReplacesAi` |
| `MCQrFeedback_twice.cfg`, `OneADay` | `docs/endpoints.md:1604`: 409 to a device that "já enviou feedback para este ponto de coleta hoje" | device and feedback are looked for before they are inserted, and no unique index backs either | `TwoADayMeanOverlap`, `TwinsMeanOverlap` |
| `MCQrFeedback_failed.cfg`, `FailedMeansNothingStored` | `docs/endpoints.md:1608`: "falha de banco; nada é gravado" | the customer is inserted before the transaction and stays | `TwinsMeanOverlap`: the retry finds it |
| `MCScopeDiagnosis_twice.cfg`, `SameDataIsPaidOnce` | `docs/endpoints.md:1115`: data with a stored diagnosis "não paga IA de novo" | the stored diagnosis is looked up before the job is enqueued, and the first job ends in between | `LaterDiagnosesKnowEarlierOnes` |
| `MCScopeDiagnosis_stale.cfg`, `NoNewsMeansUpToDate` | `scopeDiagnosis.service.ts:203-206`: counts the feedback that arrived "depois que ele foi gerado ... se ele ficou velho" | the count starts at the insert, the data ends at the request | - |
| `MCCatalogQuestions_failed.cfg`, `FailedMeansNothingSaved` | `docs/endpoints.md:882`: `update_failed`, "nada é salvo" | the snapshot for the answer is read after the commit, in the same `try` | - |

Three sentences were met that a run need not show:

- `docs/endpoints.md:176` and `auth/enterpriseOnDelete.ts:13` say that the deletion takes
  everything of the company; customers, a profile, a quota or a password link that
  a request in progress writes after the deletion read those tables stay, since
  no foreign key refuses them. `LeftoversMeanOverlap` says that nothing else does.
- The head of `auth/enterpriseOnSignup.ts` (`:9-10`) says `DO NOTHING`; the statement is
  `DO UPDATE` with `COALESCE` (`:45-47`), and that is what keeps the acceptance.
- `docs/endpoints.md:1472` promises `retryAfterSeconds` until the next confirmation;
  after the last grant of a window it is the cooldown, and the next request is
  refused until the window ends.

## Proofs

`IaJobQueueProofs` proves, for any number of jobs, workers, requests and keys and
any limits (from the assumptions named in `IaJobQueue`: limits and step counts
are naturals, the absent values are none of the others, a job type of one call
has one step), every safety property that `queue_safety` checks and three more
(`OwnerIsCurrent`, `CompletedMeansDone`, `EndedStaysEnded`), and the refinement. `THEOREM Inductive` carries the argument: the invariant

```
IInv == TypeOK /\ RequestInv /\ TableInv /\ WorkerInv
```

where `TableInv` says what a row may be by its status (one active row of a key,
done within the steps, failures below the limit of the type, nothing left of a
deleted company), `RequestInv` that a request past its select knows its key, and
`WorkerInv` what a worker may hold: its revision is at most `attempts` of its row,
equal revisions belong to one worker, and whoever is not fenced out has the
progress of the row. The properties alone are not inductive: that the second of
two writers is fenced out rests on revisions being unique, which no property
says. `Refinement` maps each action to one of `JobLease` or to a stutter; a claim
is `Acquire` because a new revision fences the old owner out in the same write.

`CompanyQuestionsProofs` proves `GenerationsAreLimited`, `AiNeverReplacesAi` and
`EditsDuringTheCallSurvive` for any sessions, jobs, workers and limits (assumed:
nobody is no process, no session is a worker, the limit is a positive number).
Whoever counts jobs or applies questions has the row of the company locked
(`LockInv`), so what it has read still holds when it writes (`CountInv`,
`ApplyInv`). An edit takes the rows and not that lock, which is why the third
property has its exception: the edits that come after the statement that reads them.

It also proves `RingsNeedMissingQuestions` (`RingsAreOfMissingQuestions`), for rings of any
length. `HoldersInv` says where whoever holds a lock may be: past the statement that
took it, and before the end of its transaction. So the locks have an order, the save's
own row first, then the company, then the questions - except for a save that has
inserted missing questions, which needs the company last. `MissingInv` says that
nobody has committed any questions by then: if a job that is about to write holds the
company, and waits for that save, the two are `Crossed`. In any other set of sessions
and workers, the holder of the questions waits for
nobody; without it, a holder of the company waits for nobody of the set; without
that, the holder of the row of the profile; and without any holder nobody does.

`ScopeDiagnosisProofs` proves `TextsLeaveTheJob`, `SecondCallMeansMishap` and
`LaterDiagnosesKnowEarlierOnes`. A held job was enqueued (`HoldInv`), so its request
has answered and what it looked up is settled (`SettledInv`); that has to be said of
holders without a lease as well, because the insert asks for none. `CalmInv` is about
histories without a mishap: a holder has its lease and is alone, and only then is
a diagnosis made once.

`CompanyQuestionsProofs` and `ScopeDiagnosisProofs` prove that their jobs implement `JobLease` (`GenerationLease`,
`DiagnosisLease`), although what a job produces is written without a look at the lease.
`LeaseInv` says that two claims of one job never have the same revision, so that at most
one worker is the owner, and that a result is stored with the status `completed` and
never before. A save is then `Close` or `Release` of that owner, a claim is `Acquire` whether
the previous owner is alive or not, and whatever a worker does without its lease
is a stutter. From the same invariant follow `AppliedIsTheHolders` (`FlagsStay`) and
`ResultIsTheHolders` (`ResultsStay`): only a fenced save writes the result, into a
row that has none, and with what the claim in force has found.

`InsightsJobProofs` proves `PartialsOnce`, `ReportsAreWhole` and `GeneratedIsKept` for any
feedback, reports, jobs and workers. A checkpoint exists three times during a claim:
in the row, in what the worker works on and in what it last confirmed. Each copy is
consistent by itself (`Good`); while the lease lasts the confirmed copy is the row and
the working copy extends it (`Leased`), except after a lost acknowledgement, when the
only way left is to fail the job. A worker without lease still publishes, and what it
publishes is whole because a snapshot is taken once per job (`Traced`).

`InsightsJobProofs` also proves `CountedBatchesAreAnalyzed` (`TallyInv`): each copy of a
checkpoint that analyses has an analysis stored for every batch off its `todo`, the
counters of a row are those of the checkpoint beside them, and the copy of a worker
need only agree with the row while its save would still succeed.

`QrFeedbackProofs` proves the four properties of `qr_safety` for any requests, devices,
points, e-mails and clock (assumed, beside what the names say: there is a device and
a point). No index makes anything unique, so each property says that two requests
met, and the invariant says it before there is a pair: whoever found no device row,
no customer, no feedback of the day has met whoever has created one since
(`FreshDevice`, `FreshCustomer`, `NoneToday`), and the counter it read is that of the
feedbacks of the others unless it met one of them (`PriorCount`).

`CompanyProofs` proves the six properties of three components.

- `StoredModelWasOffered`, for any keys, models, requests and size of the cache
  (`BoundAssumption`). The entry a request waits for is of the key of that request,
  even after the entry was evicted or invalidated (`CacheInv`); the answer is carried
  to the statement (`CheckInv`); and a row that still has the write a change of the
  model has read still has the key it was checked for (`PatchInv`), which is the WHERE
  clause of the update. `DroppedEntriesStayDropped` needs that an entry dropped before
  a request began is in the cache no more, however late its answer (`DropInv`).
- `TwinPointsMeanOverlap` and `DisabledItemIsClosed`, for any requests and items
  (`ScopesAssumption`: a request is a point's name, the company is no item). Requests in
  progress for one scope have met, and the newest has met them all (`MetInv`): who met
  nobody is alone with the rows of its scope between any two of its statements
  (`TwinInv`, `ClosedInv`). That the list shows what the form does needs that the
  points it looks at were dated in the order of the writes, which holds while enable
  and disable do not meet (`ShownInv`).
- `FirstSlotSerializes` and `DeadlockNeedsOppositeSaves`, for any saves and slots
  (`SavesAssumption`). The payload of a save gives its rows an order (`Rank`), and it has
  locked only rows behind the place it has reached (`SlotInv`): two saves that fill and
  empty the same slots have the same order and cannot wait for each other. A save past
  its first question holds it, so that no other commits, and what it sees in the slots
  it is through with is what it asked for (`SerialInv`).

`AccountAndLimitsProofs` proves the six safety properties of three components.

- `TermsNeverErased`, `NoCompanyHasACause` and `LeftoversMeanOverlap`, for any people and
  visits and whatever is asked for (`IdsAssumption`, `PlansAssumption`: NULL is no row
  and no visit, who is asked for is a person). A provisioning decides at its read what
  it writes at its commit; the lock that the upsert takes keeps the row as it was read
  (`HoldInv`). A user without company has a visit at work on it, or is in `stranded`, which
  only a failure and `NativeSignUp` add to and every committed company takes its user from. For the leftovers, a visit that writes has an owner still or has met the
  deletion (`WriteInv`), and a deletion past its purge has in hand, or has deleted, all
  that was written by whom it did not meet (`DropInv`); both rest on which company and
  which user a visit may have read (`UserInv`, `PersonInv`, `CompanyInv`).
- `ResendLimitsHold`, for any requests, IPs, limits and durations (`ResendLimitsAssumption`:
  naturals, at least one confirmation per window, keys that differ). What a transaction
  is about to commit still follows from the committed rows (`TxInv`: it holds what it
  wrote, and `FOR UPDATE` what it decides on), and the row of a window counts all of
  its grants while the window lasts (`WindowAt`), so that a cleanup or a restart of a row
  forgets only windows that are over. `PairInv` is about two grants: the second found
  the cooldown of the first over, which is still stored as long as it runs (`CoolInv`).
- `LimitsHold`, `NoLeakedToken` and `ImplementsBudget`, for any callers, limits and clock. The
  holder of a row lock has found the row below its limit, and a row does not change
  while it is locked (`LockInv`). `NoLeakedToken` counts the pairs of a minute and a
  number up to what it counted (`TokensOf`), a sum without a fold; a commit adds one
  pair to the day it adds one to, because a caller that commits holds the two rows of
  its own start and no other row is held (`OwnInv`). The same facts make the refinement: a
  caller that commits pays in one step what `TokenBudget` grants, a row that refuses is
  full at that instant whoever else waits, and every other statement is a stutter.

`ScreensProofs` proves the seven properties of `screens_safety`, for any
feedbacks, points, items and requests and any writers between two queries (assumed: a
run begins with a catalog that is whole and feedbacks that are numbered, NULL is
nothing else, the limits of pages and batches are positive, ids of questions and of
subquestions differ, some month of the calendar begins before the first instant there is
and before those that are asked about).

- `NumbersAreBracketed`, `PendingNeverHidesAComment` and `CustomersAddUp`. The points that
  a request resolved query by query cover all that was there when it began and nothing
  that was not meant (`ScopeInv`, `IdsInv`), so each query lies between two sets of rows
  (`Between`), and it stays between them because the table only grows (`Grows`). The
  order of the queries (`TodoInv`) makes the analyses a part of the comments that are
  counted after them. The totals of cells are sums over sets without a fold
  (`TotalOfPartition`), and so is that of the timeline, whose intervals lose no row; the
  two queries of the customers agree by a count of devices (`ImageIsSmaller`).
- `TimelineLosesNothing`, which needs no induction over the loop of `fillTimeline`:
  `Reached` is the set of intervals the loop passes by, those in every set that has the
  first and, with an interval before the last, the next. `EveryStartIsReached` takes a start
  that is not in such a set, hence a least one; the start before it is in the set, and
  `nextBucket` skips none (`NextStarts`), so it was in the set after all. It remains that the
  interval of every row lies between the first and the last: the first is the earliest
  row or what was asked, the last is today or what was asked, and today is read after
  the rows, so that it is no day before theirs in any zone, whenever midnight passes
  (`TodayInv`).
- `WalkShowsTheList`. A row with an instant of its own, not shown yet, has at least as
  many newer rows in the list as the pages before it have places (`WalkInv`), whatever
  arrives, because the points found for a page are found again for the next
  (`ListIdsInv`); in any order of a query it stands right behind them (`PlaceInOrder`).
- `MetricsCoverTheAnswers`. The rows read by the second and third query are the answers of
  all feedbacks of the first, whose wording no edit changes (`MetricsInv`,
  `AnswersStay`); an answer of a subquestion finds the entry of its question, since whoever
  saw the one had seen the other (`FormsInv`), and one entry hosts it (`AnswerCovers`).
- `NothingPendingIsLeft`. Comments ordered by age and id have ranks (`RankOf`); a limit
  takes the lowest (`FirstRanks`), so that what is left is younger than what is taken
  (`LeftInv`); batches cover the selection and share nothing (`BatchesInv`).

What stays with TLC. Liveness under fairness (`EveryJobEnds`, `EveryCallAnswered`) and
ENABLED (`SomebodyGoesOn`) are out of the prover's reach. Every other property of the
passing runs is a theorem. `RingsNeedMissingQuestions` says of the locks what `SomebodyGoesOn` says of
the actions: the theorem excludes every other ring among any number of sessions and
workers, the run shows that a statement which waits for no lock can be taken.

## Plan

Done: the queue and its lease with their proofs, the budget, the questions, the
insights job, the public submission, the diagnosis, the collection points and
the questions of catalog items; then the screens, the list, the metrics of
questions and the selection of an analysis over one table; the AI configuration,
the resend limit and the account; then the proofs of the questions,
the insights job, the diagnosis, the public submission, the points, the catalog
questions, the AI configuration, the resend limit, the account and the screens, and
the refinements of the lease and of the budget. What could come next:

1. The lease of `InsightsJob` against a promise of its own: `JobLease` with a counter
   that starts again when a job goes from its analysis to its generation.
2. Insights jobs of overlapping scopes (company, all products, one product) on one
   set of reports. The last to publish wins, not the last to read, and no sentence
   of the repository promises otherwise; what could be stated is what it promises
   instead.

## Not modelled

- Means, confidence intervals, correlations and weights (`libs/statistics`): real
  arithmetic, which TLC does not have. The models keep the sets they are computed
  from.
- The sample of comments and the previous period of a diagnosis package.
- `analyzeRawFeedbacks`, `regenerateFeedbackInsights` and the helpers of
  `insightsCache.ts`, and the five updates without a lease at the end of
  `iaJob.repository.ts`: only tests call them.
- Single-row preferences (onboarding, the comment field, the name of the user):
  one upsert each, without interaction.
- HTTP routing, cookies, sessions, passwords, e-mails and Better Auth: external, or
  I/O. The AI providers: a call is answered, fails with an error worth a retry, or
  fails for good.
- The order in which due jobs are claimed, and the text search of the list.
