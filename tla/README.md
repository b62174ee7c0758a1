# StudyTube, formally

StudyTube turns YouTube videos into study material: a user submits a video, the
system fetches or transcribes its captions, translates and indexes them, and on
request makes quizzes, overviews and course proposals from them. Everything
that is slow or costs money happens in the background, and what makes the
product right is that this background work is neither lost nor done twice, is
charged once, and that every failure ends up somewhere an operator can see it.
This directory specifies that background work in TLA+, checks it with TLC and
proves its core with TLAPS.

    cd tla
    tlc -workers 2 -config outbox_safety.cfg MCWorkOutbox     # a run
    tlapm WorkOutbox_proofs.tla                                # the proofs

`PROJECT.json` lists the components, the runs, the lines of code behind every
definition (`map`), the hazards of the code with the properties that watch
them, and the theorems.

## 1. Inventory

The repository holds a NestJS program in `api/` that runs as two processes (the
API, which serves HTTP and hosts the outbox relay, and the Worker), a stateless
FastAPI service in `ai/`, a React client in `web/`, and `scripts/`,
`operations/` and `infra/`. State lives in PostgreSQL; BullMQ on Redis carries
jobs from the API to the Worker. (Paths below are relative to `src/api/src`.)

| component | state | operations | talks to |
|---|---|---|---|
| outbox and relay (`work/outbox-relay.service.ts`, `work/postgres-work.repository.ts`) | `work_outbox_events` (phase, attempts, lease, due time), `work_dead_letters`, `work_replay_audits` | append, claim a batch, acknowledge, retry or close, replay a dead letter | BullMQ `add`; every repository that appends; provider budget (withdrawal) |
| job execution (`work/durable-job.executor.ts`, `work/durable-work.router.ts`, `work/bullmq-video-asset.worker.ts`) | `work_job_claims`, `work_job_results`, `work_dead_letters`; BullMQ's jobs; heartbeat and abort flag in memory | acquire, renew, complete, release, report | task handlers; the learning run |
| caption and video jobs (`work/video-asset.worker.ts`, `video-asset.service.ts`, `postgres-caption-artifact.repository.ts`) | caption artifacts with generations and segments, pointers of videos and study contexts | fetch or transcribe, translate, append, publish, commit, fail | AI service, provider budget, live captions, retrieval index |
| live captions (`live-caption.service.ts`, `postgres-live-caption.repository.ts`) | artifacts of a session, the same pointers | append a chunk, finalize | AI service, caption jobs |
| provider budget (`learning/postgres-provider-budget.repository.ts`) | work and subscription reservations | reserve or join, attach, commit, release | outbox (creates and withdraws events), caption jobs |
| adaptive quiz, learning overview (`learning/quiz-generation.worker.ts`, `learning/learning-summary.worker.ts` and their repositories) | rows with a state and the captions they belong to, attempts | request, generate, fail, mark stale, submit | outbox, executor, captions |
| agent runs and proposals (`learning/agent-run.processor.ts`, `learning/postgres-agent-run*.ts`, `learning/postgres-learning-proposal.repository.ts`) | runs, attempts with leases, usage, work items, proposals | create, claim, reserve usage, complete, fail, cancel, retry, approve, settle | AI service, courses, jobs of video, retrieval and quiz |
| retrieval index (`retrieval/`) | versioned chunks, embedding cache | read a snapshot, replace or remove chunks, search | outbox, executor, posts and courses |
| courses (`course/`) | courses with optimistic versions, their steps | create, edit, publish, archive | outbox, retrieval index |
| authentication (`auth/`) | users, sessions, login and verification attempts | sign in with Google, verify again, log out | Google |
| account erasure (`account/`) | everything of a user | erase | all rows |
| learning items, notes, progress; posts, boards, HTTP, MCP, observability, AI service, web client, operations | rows of one user, or none | CRUD, adapters, presentation | - |

How an event goes: a repository inserts the outbox row in the transaction of
the change it belongs to. The relay claims due rows in batches of 25 under one
lease of 30 s, calls `queue.add` for each with a timeout (20 s) under a job id
derived from the event id, and acknowledges; failures are retried after a
delay up to `max_attempts`, then dead-lettered. BullMQ hands the job to one of
two slots of the worker. The router picks the task; the executor acquires the
claim of the pair (event, handler version), renews it by a heartbeat while the
task runs, and records result, dead letter and release of the claim in one
transaction. The router then reports to the learning run, and BullMQ is told.
An operator may replay a dead letter, once, as a new event.

What is hard, and what would make each part wrong:

- *outbox and relay*: a timeout that does not cancel the call; failed calls
  that took effect; leases that expire under a batch; withdrawal while a relay
  works on the row. Right when a published row has its job, a closed row has a
  reason an operator can see, and a row is settled once.
- *job execution*: stalled jobs delivered twice, late heartbeats, lost answers
  of the completion, crashes between the record, the report and the queue.
  Right when one execution records, once, and everybody is told the same.
- *provider budget*: work shared between users, commit and release racing with
  joins, limits checked under a lock named after the day. Right when limits
  hold and no reservation outlives its work.
- *quiz, overview*: the final attempt marks the row failed outside of the
  claim, and the captions move on. Right when a row is ready exactly when its
  job succeeded, its content comes once, and nobody waits for a job that is over.
- *agent runs*: three timeouts (wall time, process, lease) against completion,
  cancellation, retry and approval; work items settled by jobs in any order.
  Right when usage stays within budget, the run is where its attempt and items
  are, and the course is made of the plan its owner has seen.
- *captions*: jobs and live sessions write artifacts of one video and move the
  same pointers. Right when what is shown is published and never goes back.
- *retrieval, courses*: results computed from old versions, versions without an
  event. Right when older never replaces newer, whatever cannot be found is on
  its way, and nothing is served to the wrong audience.
- *authentication, erasure*: a proof of identity that is spent before it is recorded;
  rows read before they are locked; foreign keys of others.
  Right when the owner, and nobody else, can delete an account, nothing of it remains, and
  what others use stays.

The list of hazards, each at its line, is in `PROJECT.json`.

## 2. Modules

    LeasedWork            what leased work promises: fencing tokens, one verdict
      ^         ^
      |         |         (implemented by)
    WorkOutbox  DurableJob <--- GeneratedMaterial
      ^         ^               quizzes and overviews, whose handler runs in the
      |         |               slots of DurableJob (instantiates it)
      WorkPipeline        the two with the queue and dead letters they share

    ProviderBudget        reservations of paid caption work; creates and withdraws
                          the events that WorkOutbox relays
    CaptionArtifacts      what the jobs of that work and live sessions write and show
    StudyContext          one context of CaptionArtifacts and its GeneratedMaterial
    CourseIndex           posts, courses, and the search index that follows them
    AgentRun              a run of the course agent up to its published course
    Accounts              sign-in, verification and the erasure of an account

    MC<module>            constants, symmetry and views for TLC
    <module>_proofs       theorems and their proofs

Every module below WorkPipeline is about one thing that an event of it does or
one thing its jobs write; how the event becomes a job, is repeated or lost is
taken from WorkPipeline as what it shows: at least once, in any order, by one
claim holder at a time that may be late, or never after a dead letter.

### LeasedWork

The abstract specification of both halves. An item is taken under a token that
was never used before (`Take`), its lease lapses (`Lapse`), its holder gives it
back (`Drop`) or settles it (`Settle`), or it is called off (`Withdraw`); a
settled item stays settled. The specification says nothing of relays, slots,
timeouts or calls, only what all of them together may do to an item.

### WorkOutbox

One variable per column that decides something, and the state of each relay
inside `publishOnce`.

| in the model | in the code |
|---|---|
| `phase` | `published_at`, `terminal_at` (both null: pending) |
| `attemptCount`, `leaseToken`, `leaseLeft`, `availableIn` | the columns of those names; instants are kept as ticks left |
| `deadLetter`, `replayed`, `replayOf` | `work_dead_letters` with `replayed_at`, `work_replay_audits` |
| `pc`, `held`, `current`, `timer` | program counter, batch, event and elapsed publish timeout of `publishOnce` |
| `outstanding`, `queue` | adds under way to Redis and jobs that exist there |
| `Append`, `Claim`, `AckRow`, `RetryRow`, `Replay`, `Withdraw` | the SQL of `appendOutboxEvent`, `claimOutboxBatch`, `ackOutboxEvent`, `retryOutboxEvent`, `replayDeadLetter`, `releaseSubscription` |
| `StartPublish`, `PublishOk`, `PublishError`, `PublishTimedOut`, `EndBatch` | the loop of `publishOnce` and `withPublishTimeout` |
| `ClaimLost`, `AckFails`, `RetryFails`, `Crash` | the call whose answer is lost, with or without effect; the process that dies |
| `WorkerLetter` | the environment: a worker writes the dead letter |

A claim stores a random UUID and adds one to `attempt_count` in one statement,
so the attempt number stands for the token: two claims never have the same.
The token tests of the code compare the token and the open phase and *not* the
expiry of the lease, and so does `Holds`. `queue.add` is two steps, the call
(`StartPublish`) and its effect (`Land`), which may come after the timeout, after a
crash and after the row was closed. The order inside a batch and the rows
`SKIP LOCKED` passes over are left open. `available_at` of an appended event is
always "now": no caller in the repository gives another.

### DurableJob

A slot is one of the concurrent executions of BullMQ's worker (two per process,
in any number of processes). Its `pc` walks through `execute` and the router:

    idle -> acquiring -> running -> completing -> settling -> reporting -> idle
                 |          |            |
                 |          +-> releasing <+
                 |                |
                 +---> reporting <+

`jobState`, `lockOwner`, `attemptsMade` and `stalls` are BullMQ's, modelled from
how the worker configures it (`maxStalledCount` 1, attempts from the event,
jobs kept when they are over) and marked external in the map. `claimToken`,
`claimLive`, `result`, `deadLetter` are the tables; `settled` is what the
learning run was told last. The expiry of a claim is a step that may come at
any time, because a heartbeat can be late without bound in a process that is
slow; so there is no clock here. A task is its outcome: a result, a terminal
error with a code, or any other error. A dead letter is its code; `complete`
compares more (details, handler, attempts), which only distinguishes letters of
the same code, and those are written by the same executor.

Handlers that pass no exhaustion to the executor throw terminal errors only, so
that `final` never matters to them. The quiz and overview handlers also mark
their own row failed on a final attempt; when that call fails its error takes
the place of the outcome, which is the effect of `SettleFails`; the row itself is in
GeneratedMaterial.

### WorkPipeline

The conjunction of the two, each INSTANCEd with the variables it owns, plus the
two things they share. The queue of `WorkOutbox` is the set of jobs that exist in
`DurableJob`; `Land` is `Enqueue` unless the job exists. The environment actions
of the halves (`WorkerLetter` here, `ForeignLetter` there) have no place of their
own: they are what the completions of one side and the retries of the other
look like from across.

### ProviderBudget

A request is an execution of `LearningItemService.start`; it ends, returning or
throwing, and another begins, without bound:

    idle -> waiting -> admitted -> context -> attaching | charging -> idle
               |           |           |              |
               |           |           +-> compensating <
               |           |                 |
               +-----------+---------------->+-> idle

| in the model | in the code |
|---|---|
| `workState`, `workKey`, `workDay`, `actual` | `provider_work_reservations` |
| `subState`, `subDay` | `provider_subscription_reservations`, one per work and user (a unique constraint) |
| `event` | the outbox row of the work, as far as the budget sees it |
| `Begin`, `Rejoin`, `Admit`, `Insert`, `InsertRefused` | `reserve`: the date, the existing subscription, the limits, the rows |
| `ContextFails`, `AttachRead`, `AttachWrite`, `Compensate` | the rest of `start` with `attachContext` and `releaseSubscription` |
| `Start`, `Commit`, `Fail`, `Abort` | `commitWork` and `failGeneration` of the caption repository |
| `Die` | a process that dies, a call that fails and is rolled back |

*Locks and snapshots.* The pool runs PostgreSQL's default, READ COMMITTED. Nobody
else sees what a transaction has done before it commits, so a transaction is
one step from the moment it has waited for its last lock, and a lock is a guard
(`DayLockFree`, `RowFree`) that reads from the `pc` of the requests who holds it.
What is *not* one step is the reading of a snapshot and the writing, whenever a
statement can wait in between: PostgreSQL then looks at the new version of the
row it waited for and at no other row. So `Start` remembers the subscriptions
that `failGeneration` saw, `AttachRead` the state of the work, and the later step
tests again only the rows it writes. `reserve` is two steps, since `Admit` holds its
locks while requests of other days and workers go on. Which transaction is the
victim of a deadlock is left open: any statement may be rolled back.

*Prices.* A work is estimated at its seconds times a constant rate, so costs are
in units of one audio second and the work's estimate is its length. What a
committed work cost is anything from nothing (captions were found) to its
estimate. All days are of one month; the range and purpose of a request are part
of the key. `commitWork` of the budget repository, with which tests stand in for
the worker, has no caller in the program.

### GeneratedMaterial

A quiz or an overview is a row that a handler fills while the executor of
`DurableJob`, which the module instantiates with the same variables, runs it. So the
overlap of two executions, the lost answers and the exhaustion are those of the
executor itself and not a second account of them.

| in the model | in the code |
|---|---|
| `row`, `artifact`, `content`, `graded` | the state of the row, the captions it belongs to, its questions or summary, what the answers were graded against |
| `source`, `translation` | the two caption pointers of the study context, as generations |
| `PublishSource`, `PublishTranslation`, `FinalizeLive`, `AttachContext` | statements of the caption and budget repositories that move these pointers, which CaptionArtifacts has in full |
| `Request`, `Look`, `Submit` | `requestAdaptiveQuiz` and `requestOwnerOverview`, `findOwnerAdaptiveQuiz`, `submitAdaptiveQuiz` |
| `Load`, `GenerateFails`, `Refuse`, `Save`, `SaveFails` | `process` of the two handlers and the statements that fill or fail the row |
| `CatchFinal`, `CatchFails` | the `catch` of `handle`: on a final attempt any error of the executor fails the row, outside of the claim |
| `untold` | history: jobs whose handler did not have the last word |
| `moved` | history: materials whose captions were not the effective ones at some time |

The two kinds differ in one thing that matters: a quiz takes questions of captions
that have been replaced meanwhile (and is stale when next looked at), an overview
does not. The effective captions of a context are its translation, or its source
captions without one. They can go and come back, when a context that joins other
work is attached to captions it was shown before; so an overview can meet a conflict though
its captions are effective again by the time its row is looked at, and its job then
ends with the row still pending (`moved` in `ConflictIsReal` and `WaitIsAnswered`).

### AgentRun

The run is one row (`state`, `version`, `cancelling`, `spent`, `plan`, `course`), its
attempts are others with their leases, and a worker remembers what it read
(`work[w]`). Every statement of the owner locks the run and compares the version he
has seen (`AsSeen`), every statement of a worker locks the attempt and compares
lease, version and cancellation (`Holds`).

| in the model | in the code |
|---|---|
| `Create`, `Cancel`, `RetryPlan`, `RetryWork`, `Approve` | the commands of `postgres-agent-run.repository.ts` |
| `Claim`, `Reserve`, `Call`, `Complete`, `Audit`, `Fail` and their failures | `processClaim` with `claimRunAttempt`, `reserveRunUsage`, `completeRunAttempt`, `failRunAttempt` and the audit |
| `Expire`, `Crash`, `RunOutOfTime` | a lease that is not renewed, a process that dies, the wall time of the run |
| `Offer`, `Decide` | the proposal of the first step: creation, approval, dismissal, expiry |
| `HandOver`, `JobEnds`, `JobIsLost`, `Replay`, `Settle` | the jobs of an approved step, `settleAgentWorkItem` |
| `EditCourse` | the owner edits the course meanwhile: steps go, the others are indexed again by events nothing tells from those of the run |

A usage is its calls and tokens; cost is reserved and given back by the same
statements and left out. Steps of an approved run stand for a row each, their three
kinds of work items (`video`, `retrieval`, `quiz`) for what `enqueueApprovedStep` makes.

### CourseIndex

One source, a post or a step of the course, is followed through all that can change
its text, its version or its audience. The sources share no chunk and no event, so
that following each of them (`source` is chosen in `Init`) covers them all, while the
course with its other steps is there in full. An execution keeps the snapshot it has
read in one statement and stores its chunks under the lock of the source later
(`Start`, `Store`); the comparison in between is `replaceChunks`.

| in the model | in the code |
|---|---|
| `post`, `course`, `step` | `study_posts` with `retrieval_version`, `courses` with `version`, `course_steps` |
| `chunk` | the rows of `retrieval_chunks` of the source |
| `index` | open events that ask for the index, by the version they name |
| `asset`, `told` | open events that ask for captions, before and after their job has asked for the index |
| `stray`, `late` | those whose job was repeated or lost its claim, and of these the ones given up before they asked |
| `CreatePost` ... `RequestPreparation` | writes of `database.service.ts` with the triggers of migration 1753660807000 |
| `WriteAsset`, `AppendRequest`, `FinishAsset`, `LoseAsset`, `GiveUpAsset`, `AppendLate` | the older job of `video-asset.worker.ts`: its writes, its request for the index, its result, and the executions that are repeated or late |
| `Create` ... `Archive` | the commands of `postgres-course.repository.ts`, compared with the version the client sends |
| `CreateFromPlan`, `ApproveIntoNew`, `ApproveIntoCourse` | the course an agent run or a proposal makes or extends |
| `Start`, `TakeOver`, `Store`, `Clean`, `Record`, `Retry`, `GiveUp` | `retrieval-embedding.worker.ts` on the executor |

A caption job writes in several statements that test no claim, appends its request under
an identifier derived from its event, of which a second append does nothing, and only then
has its result recorded. So an execution that is repeated, or that has lost its claim, may
write at any time (`stray`), and write what nobody asks for any more: `rewritten` remembers
this of the source until it is read again.

### CaptionArtifacts

The artifacts of one video and the pointers to them. A job is an execution that
holds the claim of its work; what has lost it changes nothing, because every
statement of the repository tests the token, and is the same as one that has failed
(`Fails`, after any place). A live session tests nothing but its owner.

| in the model | in the code |
|---|---|
| `captions` | `caption_artifacts`, `caption_artifact_generation_states` and segments; generations count the artifacts of the video |
| `video`, `shown` | the pointers of `video_sources` and of every study context |
| `Fetch` ... `Announce` | the intake job of `video-asset.worker.ts` with the statements of `postgres-caption-artifact.repository.ts` |
| `Join`, `AttachRead`, `AttachWrite` | `reserve` and `attachContext` as far as they show captions; `seen` is the pointer that was read before the row of the context was waited for |
| `AppendChunk`, `Finalize` | `postgres-live-caption.repository.ts` |

The text of a batch is a word; two answers of a provider differ in a word. The
reservation of a work is reserved, committed or released; how it gets there is in
ProviderBudget.

### StudyContext

A context of CaptionArtifacts, `Learner`, whose pointers are those GeneratedMaterial goes
by: every step of the captions, of whatever job, session or learner, shows the
context the generations it has then (`CaptionsGoOn`), and no step of the material
writes captions (`MaterialGoesOn`). GeneratedMaterial alone lets the pointers move to any
captions a context could be shown (`AttachContext`); that they move no further is proved
in `MaterialOfAContext` and not assumed. The module has no run: its halves have one each, and
what it says of them together is proved.

### Accounts

Sign-in, the second verification before a deletion, and the deletion against the
transactions of other learners. The erasure is five steps (`Ask`, `Lock`, `DeleteUser`,
`ClearWorks`, `Finish`) because it reads before it locks; what it has deleted shows
only at its end, and its row locks are guards of everybody else (`UserFree`,
`GraphFree`, `WorkFree`, `SourceFree`).

The verification is modelled as the database answers it: the statement of
`markGoogleReauthenticated` calls a table `user`, a reserved word of PostgreSQL, and is refused
on every call (section 3), after the attempt was consumed. No session of the program is
ever marked, and no deletion would get past its first test. The erasure itself is checked and
proved on sessions that have the mark all the same, which are those its end-to-end test
inserts (`InsertSession`), at any time and beside those of `SignIn`; what follows from them
holds of the program once the alias is another.

| in the model | in the code |
|---|---|
| `session`, `attempt` | `sessions`, `google_auth_attempts` and the callbacks that consumed them |
| `item`, `source`, `work`, `subscriber`, `creator` | learning items, video sources, work reservations, subscriptions, the owner of the outbox event |
| `taken` | quiz attempts of others, whose foreign key is ON DELETE RESTRICT |
| `tx` | a transaction of a learner that has locked rows and will commit |
| `SignIn`, `Logout`, `StartAccountDeletion`, `Consume`, `MarkReauthenticated`, `ExchangeFails` | `google-auth.service.ts`, `postgres-google-auth.repository.ts`, `session.guard.ts` |
| `InsertSession` | `insertSession` of `test/account-deletion.e2e-spec.ts` |
| `Ask`, `Refuse`, `Lock`, `DeleteUser`, `ClearWorks`, `Finish`, `Fault` | `eraseAccount` of the service and `erase` of the repository |

### Mutants

A definition introduced by "Mutant:" is not part of the model. It is the
operator below it with a plausible mistake (a dropped test, an off-by-one, an
overwritten record) and is kept to see that the property named in
`PROJECT.json` fails when the operator is replaced by it.

## 3. What TLC checks

| run | instance | question |
|---|---|---|
| `outbox_safety` | 2 rows, 2 relays, batches of 1, 2 attempts, 3 claims, 2 faults | is a row settled by its holder only, with a job or a reason? do rows implement `LeasedWork`? |
| `job_safety` | 1 job, 2 slots, 3 attempts, 1 stall, 3 faults | is there one recorder and one verdict, told alike to everybody? |
| `pipeline_safety` | 2 events, either of which may replay the other, and a third row that waits as another replay, 1 relay with batches of 2, 1 slot, 1 attempt, 2 relay faults | are letters right whoever writes first? does a letter yield one replay? is work that succeeded requested again only when the relay did not hear of its publish? |
| `pipeline_liveness` | 1 event, 1 relay, 1 slot, 2 attempts, 2 relay faults and 1 slot fault | is every event carried to an end? |
| `budget_safety` | 2 users, 2 videos of lengths 1 and 2, 2 works, 2 requests, 1 worker, 2 days | do the limits of a user and of a day hold on both sides of midnight? do works, subscriptions and events agree? |
| `material_safety` | 1 quiz or overview, its event and the replay, 2 slots, 2 attempts, 1 stall, 2 generations of captions, 1 fault | do row, job and what the learner waits for agree? does content come once? |
| `agent_safety` | 2 workers, 1 step from a post, 2 attempts, a budget of 2 calls and 2 tokens, 3 events per item, 2 faults | does usage stay within the budget? is the run where its attempts and its items are? is the course what the owner has seen? |
| `agent_refused` | 1 worker, 1 step, every job but the quiz succeeds | does an approved run complete? (no) |
| `index_safety` | 1 post, a course with up to 2 steps, 2 executions, 3 versions of the course and 2 of the post, caption jobs that are repeated or late, 2 faults | does the index never go back, is whatever cannot be found on its way, and who can see it? |
| `captions_safety` | 1 job of 2 attempts, 1 live session, 2 learners, 2 words | are generations dense? is what is shown published, newest and what was answered? |
| `accounts_safety` | 2 learners, 2 sessions, 2 verifications, 1 video, 2 deletions, 2 ticks, 1 fault | who can delete an account, what remains of it, what do the others keep? |
| `accounts_refused` | 1 verification, 1 deletion | is a learner who has just verified let through? (no) |

*Bounds.* Two relays are all that a token test can confuse: the properties
relate a holder to one other. Two rows let one row replay the other and, in
`pipeline_safety`, a batch be abandoned with one row published and one not. Its third row is
there for a second replay of one letter, which the mutant of `ReplayedOnce` makes: it only
comes to be as a replay and stays unclaimed (`ThirdWaits`), since what a relay does with
it the first two show. Two faults
are what it takes to fail a publish and then its retry. `MaxAttempts` 2 gives an
attempt that is not the last and one that is; `MaxClaims` above it gives the claims
that were lost without a publish. Two slots on one job give the stale execution
and its successor; different jobs share no variable but slots. One stall is
what the worker is configured with. Three faults cover a lost acquisition, a
lost completion and a lost report in one behaviour. `Lease` 2 and `PublishTimeout` 1
keep their order; what matters is that a lease can run out at each step. In the
budget, videos of 1 and 2 seconds against limits of 2 let one request fit and the next
not; two requests at a time are what a lock has to keep apart, and they come
again and again. A work is used once: `Work` bounds how many reservations a behaviour
makes, two for a work that is released and its successor, or for two works that
compete for a limit.

Of material, one row is enough, for rows share nothing but slots; two generations are
captions that are replaced once under a request. An agent run has two attempts: one
that is left behind or cancelled and the one after it; a budget of two lets one
attempt reserve and a second still fit or not. Three events per item are the first, a
retry or replay, and an edit. Three versions of a course are a creation and two
commands, so that an execution can be two versions late. Two faults let a caption job be repeated and
an execution of the index be late in one behaviour. In `captions_safety` an
answer is one batch, which is enough for a second attempt to be answered
otherwise; generations go up to 4 (source and translation of the job and of the
session). In `accounts_safety` a verification may take one tick and a mark is good for none,
so that one of the tick before is too old; a session may live longer than the
clock. The theorems of section 4 have none of these bounds.

*Views and constraints.* TLC tells states apart by a `VIEW` where the rest of a
state is never read again. Every view looks at all variables (`Evaluated`), since TLC would
otherwise leave functions unevaluated that its workers then share. MCProviderBudget: the day of a subscription that is
over, and the key, day and cost of a released work nobody subscribes to. MCAgentRun:
versions and tokens count only as current or not, because they only grow; once there
is a course, attempts, usage and proposal change no more. MCCourseIndex: the index
of a post depends on the course only by whether a plan can still create it, and on its
caption jobs by how many there are of each kind; that of a step on those for this step.
MCGeneratedMaterial: there is one row, so once it is asked for, captions count only by
whether they are still the row's; claims count by who owns them, and attempts until
their job is over. MCCaptionArtifacts: the words of live captions, of jobs that are over and
of an artifact that the last execution leaves alone are read no more, and a row of
these that was never published is as good as none; generations are only compared, so
captions keep their order among captions and translations theirs. MCAccounts: of a session that
is over only its owner is read, and of a verification that is over nothing; failed
erasures are not counted, as they leave what there was before; `OneKind` keeps items, works
and quizzes apart, which no action reads together.

*Deadlock* is checked for the outbox, which can always tick, and for the pipeline with
an end for every event. It is not for the others: an executor whose jobs are over,
a budget whose works are used up, or a run that is completed has nothing to do.
PostgreSQL breaks the deadlocks of its locks by itself.

*Fairness* is stated where liveness is claimed. In the pipeline, each relay and slot
goes on: the poll timer of the relay reschedules
itself in a `finally`, calls to PostgreSQL return or fail, tasks have timeouts of
their own. Adds under way are answered. Time passes. Claims are ordered by
`available_at`, so a row that is claimable again and again is claimed (strong
fairness of `ClaimOf`); BullMQ serves waiting jobs in order (strong fairness of
`Start`). A job whose slot is gone is found by BullMQ's stall check. Nothing is
assumed of faults but that there are finitely many. `FairSpec` of AgentRun takes the
result for its jobs: they hand over, end and are settled (weak fairness), and nothing
is assumed of owner, workers or faults. The budget, the captions and the accounts have no
fairness and no liveness property: no code looks after a reservation again, so that
whether a work ends is up to its job, and a deletion is as lively as its caller.

### What the runs found

- `accounts_refused`: `markGoogleReauthenticated` says `FROM users AS user`
  (`auth/google/postgres-google-auth.repository.ts:238`). `user` is a reserved word of
  PostgreSQL, so the statement is a syntax error on every call, which the `catch` turns into
  `AuthRepositoryUnavailableError`. Who has just verified with the right Google account is
  refused with `reauth_required`, and no account can be deleted. The unit tests answer the
  query themselves, the end-to-end test inserts sessions that have the mark.
- `agent_refused`: approval sends the quiz of a step with payload version 1
  (`learning/postgres-agent-run.repository.ts:643`), the worker of quizzes takes version 2
  only and gives every other job up at once. An approved run never completes: its quiz
  items fail, and a retry sends the same payload.

Other statements were found not to hold while modelling; they are kept in the modules as
definitions, or can be checked with the instance given, and no run is kept of them:

- A final attempt that meets a claim left behind (a lost answer of `acquire`, a failed
  `release`, a crash) throws `WorkJobBusyError` before it looks at exhaustion
  (`work/durable-job.executor.ts:61`); the job leaves neither result nor dead letter
  and cannot be replayed. `DurableJob!GivenUpIsRecorded`, 2 attempts, 1 fault.
- The lease of 30 s is taken for the batch of 25 while every publish may take 20 s
  (`work/outbox-relay.service.ts:67`). `MCWorkOutbox!PublishWithinLease` with
  `PromptSpec`, 2 rows in one batch. No row is lost by it.
- `reserve` locks the usage day it took before it waited, and then sums the month and
  the concurrent works (`learning/postgres-provider-budget.repository.ts:58`): requests
  on either side of midnight exceed these limits together. `WorksWithinMonth`,
  `SlotsWithinLimits`, 1 user, 2 videos, 2 days.
- `failGeneration` reads the subscriptions before it has locked the work
  (`postgres-caption-artifact.repository.ts:328`); who joins in between keeps a reserved
  subscription to a released work, for ever. `ReleasedWorkHasNoSubscriber`, 2 users, 1
  work. A compensation may also find nothing to release any more
  (`CompensationFinds`, `learning/postgres-provider-budget.repository.ts:267`).
- Approving a proposal into a course raises the version of the course and asks for the
  index of the new step only (`learning/postgres-learning-proposal.repository.ts:286`);
  search finds the other steps no more until the next command. `EveryStepIsQueued`; the
  exception is `skipped` in `StaleIsQueued`.
- Published captions are appended to by a retry of the job
  (`postgres-caption-artifact.repository.ts:135`) and by late chunks of a session.
  `ReadyIsFinal`.
- The erasure of the learner whose request made a shared, still reserved work deletes
  the event and with it the claim of its job, while the others keep the work
  (`account/postgres-account-erasure.repository.ts:90`): it is then neither committed
  nor failed, and counts as concurrent for good. The plan says shared work goes on for
  the others (`docs/superpowers/plans/2026-08-31-google-account-deletion.md:21`). In
  Accounts such a work is `reserved` with `creator` None and `CommitWork` is disabled.
- `DELETE FROM users` cascades to the quizzes of the courses of the user, but
  `quiz_attempts.quiz_id` is ON DELETE RESTRICT
  (`account/postgres-account-erasure.repository.ts:90`). One attempt of another learner at a
  quiz of a public course makes every deletion of its owner fail.
  `Accounts!DeletionGoesThrough`, with the instance of `accounts_refused`.
- A mark exactly five minutes old still opens a deletion
  (`account/postgres-account-erasure.repository.ts:45` compares with `>=`, as line 332 of
  the plan has it), while line 294 of the same plan
  (`docs/superpowers/plans/2026-08-31-google-account-deletion.md`) says that a permission of
  exactly five minutes is refused. `Accounts!ExpiredIsRefused`; `ErasedByOwner` takes the
  code's side.
- A caption job that is repeated after its request for the index was appended, or is
  late, writes the post again and raises its version, and its second request is the first
  (`work/video-asset.worker.ts:113`, `work/postgres-work.repository.ts:71`): search does not
  find the post until something else changes it. `CourseIndex!EveryWriteIsQueued`; the
  exception is `rewritten` in `StaleIsQueued`.
- Two overlapping erasures of the last two learners of a source each see the other's
  item and leave the source behind (the same plan, line 22).

## 4. What is proved

The `_proofs` modules prove, for any sets of rows, relays, jobs, slots, users, works,
requests, sessions and videos and any limits that the named assumptions of the modules
allow, type correctness, the inductive invariant, and every invariant and every action
property that a passing run checks. Some theorems state what is in no run, since another property of
the run or the theorem says more (`TypeOK` and the inductive invariants, `SingleHolder`,
`SingleOwner`, `SettledForGood`, `RecordedIsUnclaimed`, `RecordsAreFinal`, `FreeRowHasBudget`,
`ReservedWorkIsWanted`, `SettledStays`, `OnlyCreatorGivesBack`, `MaterialIsOfPublished`); TLC has
checked each on the instances of section 3, or on one of both halves for the last,
before it was proved.

*The outbox.* `OutboxInv` is inductive together with `TypeOK`. The token comparisons
only work because tokens are fresh (`TokensFresh`: no two relays ever hold the same
non-zero token of a row, and none is ahead of the attempt count). A row can be
acknowledged only by a relay whose own add took effect (`AddsTracked`), which is
why `PublishedIsQueued` survives timeouts and failed calls. `FreeRowHasBudget` is
its own strengthening of `ClosedWithReason`: a claim on a row with spent attempts
may exist, a free row with spent attempts may not.

*The job execution.* `JobInv` adds to the properties that tokens are fresh, that a
slot's verdict fits its place in `execute` (`SlotsInOrder`: who completes was not
aborted, who settles repeats the recorded result), that slots work on known
jobs, and that a job still to be run has an attempt left. `VerdictsAgree` needs
`RecordsAreFinal` in state form: a slot that is about to report carries the
recorded result because the record cannot have changed since.

The assumption that the relay's code differs from the codes of the tasks
(`ForeignCode \cap TerminalCode = {}`) is needed: a worker accepts a dead letter
that says the same as its own, so a task with the relay's code could record a
result on the relay's letter. `QUEUE_UNAVAILABLE` is thrown by no task.

*The budget.* `ProviderBudget_proofs` proves that the rows agree (`RowInv`), that
settled rows stay settled, that only its creator or the failing worker releases a
reservation, and that the limits hold: `UserWithinDay`, `WorksWithinDay` and, up to
the first midnight, `ServiceWithinLimits`. `RowInv` needs two facts about what is
remembered between steps (`ReadsHold`): a request that read its work as committed still
finds it so, because committed works stay committed, and a worker's statement runs only
for an event that was taken, which is why a work that is settled never leaves an open
event. The steps are split by what they may do to a work (`WorkMoves`), to a subscription
(`SubMoves`) and to nothing (`RowSteps`).

The limits are not inductive: what `Admit` reads must still be so when `Insert` writes.
`AdmittedFits` says that there is room for every admitted request (`Room`) all the
while, which is so because requests are admitted one at a time on each day (`OnePerDay`,
the advisory lock), a joined work is of the key that was judged (`JoinedKey`), and no other
step adds anything: a work or a subscription that begins to count is one that a
request inserts (`Additions`), and whatever is committed, failed or released only
becomes cheaper (`WorksStay`, `Weights`). The limits of the month and of concurrent
works need days to be one only, for their requests have one lock only then.
The sums are the folds of the community modules. The lemmas on them, which stand in front
of the proofs of the budget and of the agent run, say that a fold over a
finite set is what its recursion says, does not depend on the order of choice, and is
monotone, each by induction in the form of a smallest counterexample (`Least`,
`Smallest`), which needs no operator parameter.

*The pipeline.* `WorkPipeline_proofs` shows that every behaviour of the pipeline is
one of each half (`JobsInPipeline`, `OutboxInPipeline`), each taking the other for its
environment. It needs a small invariant (`Links`) only: types, and that a slot at
work has a job the relay enqueued. Both halves are proved for an arbitrary
environment, so all that is proved of them holds in the pipeline; this last
inference is by reading, as TLAPS does not carry theorems through INSTANCE.

What relates the halves is proved of the pipeline itself, by `LettersInv`:
`LettersExplained`, that the relay's letter is one of a row that ran out of attempts and a
worker's repeats the result it recorded, and `RepeatedOnlyIfUnheard`. Both sides write the
one table of letters: a completion records a success or a code no relay has
(`VerdictsInOrder`), and no result twice, because what is recorded has no claim any more
(`RecordedIsUnclaimed`); the relay writes its letter only where it closes the row. A
replay needs a letter (`ReplaysHaveLetters`), so work that succeeded is repeated only on
a letter of the relay. `ReplayedOnce` is carried through the pipeline by what a replay does
to the rows (`ReplayAdds`): it adds one to the replays of its letter, which had none, and
marks it; no other step marks a letter, and a row that does not exist replays nothing
(`AbsentReplaysNothing`).

*The accounts.* `Accounts_proofs` proves that what others study keeps its source and its
work (`ReferencesAlwaysHold`), that nothing of an erased account is left or committed
later (`NothingOfErasedRemains`), and that an account is deleted only through a
session of its owner that was marked within the window and is not signed out before the
deletion commits (`OwnersErase`). How a session came by its mark is not part of it: in the
program none does. The inductive invariant says what an erasure can rely on at each
stage: the locks that are guards keep everybody else away from its rows (`Owned`,
`Locked`), a learner whose transaction is open finds the source or the work it refers
to as it was read, or inserts it (`Promised`), and what the first statement has tested of
the session stays so to the end (`Granted`), because the row is locked and `Logout` waits
for it (`SessionHeld`). The steps are split by what they
may do to sessions, verifications and requests (`SessionsKept`, `AttemptsKept`,
`RequestsKept`); most actions are then one line.

*The index.* `CourseIndex_proofs` proves all five properties of the index. `StaleIsQueued`
is far from inductive: an open event is no help if the execution that holds its claim
has read too old a version and is about to close it. So events and claims are counted:
every claim has an open event of its own (`ClaimsBacked`), and of the events that
ask for the present version there is one more than executions that are too
late for it (`Late`, `UpToDate`); likewise, of a source that is gone, one more
than executions that are done with it (`Done`, `Cleared`). An execution that closes its event
leaves both sides of the count (`CloseMoves`). That `replaceChunks` changes nothing for
an execution with an old snapshot costs nothing, because that execution was late
already. `Reads` says that nothing was read of the source that it did not have.
What posts, captions and courses do is reduced to one lemma on the source
(`Outside`): it moves on with an event for its new version, or stays, or is one of the
exceptions. A caption job is no help to the count once it has asked: `rewritten` is set by a
write that no event still to ask stands behind (`Untold`), and taken back only when an
event is appended that will read the post again, or its chunks are those it has now.

*The agent run.* `AgentRun_proofs` proves all five properties of the run. `BudgetKept` needs
that what an attempt has used is part of what is spent (`SpentHolds`), so that a
reconciliation takes back no more than was reserved; the sum follows the change of
one attempt (`SumOfChanged`). Whatever a worker does on its attempt is one
of four things to the run (`WorkerEffects`), and a worker whose lease holds works on the last
attempt of a run without a course (`HeldIsLast`), so it cannot disturb what approval
has begun. `ApprovedWhatWasSeen` rests on versions: a plan that is new has a version nobody
has seen (`SeenBefore`). For the work items the invariant adds what the properties leave
unsaid: before the course there are none (`BeforeCourse`), a verdict is told only of events
that were appended (`Appended`), a video is done only when the retrieval of its step was sent
(`Handed`), and an item that waits has an event nobody has told (`Awaited`), because
whatever makes an item wait again appends one.

*The captions.* `StudyContext_proofs` begins with CaptionArtifacts. A generation is the
number of rows when its row was created, so the greatest is the number of rows
(`GenerationsAreCounted`, `LastGeneration`) and new captions are newer than all there are.
That is why the update of the contexts, which compares nothing, takes none of them
back: by `ContextNeverAhead` none is ahead of the video. For this the invariant follows what
a request has read of the video and not yet written (`seen`, in `ContextInOrder`): it may
have been replaced since, but was shown, and is not newer than what is. A
translation was created after the captions it translates (`LineageIn`), which lets a
learner's translation stay or go with its source; the best translation of a video
exists because generations are natural numbers (`BestTranslation`). `PublishedAsAnswered`
needs what an execution has written so far to be what it was answered (`RunInOrder`), and
that nobody else writes to its artifacts: statements are reduced to what they do to the
table (`TableOK`, `Onwards`, `KeptWords`), and an execution holds its words as long as
the others keep them.

*The material.* Nothing in a row says which execution may write to it, so the invariant is
about what a verdict presupposes (`Earned`): whoever says `succeeded` has seen content in
the row, a conflict was met on a row that was failed, stale or taken by other captions, and
so on. This stays so whatever the others do (`EarnedStays`), so it can be carried by a
slot that is slow, recorded late and read even later. To it belong the shape of the row
(`RowInOrder`), the place of the handler in its slot (`StepInPlace`), and that a final
attempt is told from others (`SlotEarned`, which counts the attempts of the job); a job
that is over then leaves nobody waiting (`JobInOrder`) but for the exceptions named in
`WaitIsAnswered`. The executor underneath is used as the record shapes its own
definitions give (`Shapes`), not through its theorems.

*The study context.* The last part shows that one context of CaptionArtifacts is the
environment that GeneratedMaterial assumes (`MaterialOfAContext`): every step that publishes,
attaches or finalizes leaves the context with a source and a translation that
GeneratedMaterial can be shown, none newer than the bound and a translation only of older
captions (`StudyStep`, `TranslationsOf`), for which the invariant of the captions is
needed. Its hypotheses are that
the learner is one of the contexts, and that the bound on generations is not
below the number of artifacts there can be. Since the variables of both modules are
the same here, and not instantiated, all their theorems hold of the context by the same
proofs. `OnlyPublishedIsStudied` is a property neither of them can state: material belongs
to captions that were published, and published captions stay.

*Only model-checked.* Liveness (`pipeline_liveness`) and the enabledness behind it, which are
out of reach of the prover; and the statements of section 3 that do not hold.

## 5. What is not modelled

The components marked `not_modelled` in `PROJECT.json`, with the reasons there; for
those marked `partly`, the operations their notes name. The larger part of the
repository by lines is of this kind: the web client, scripts of deployment,
migration and load, the description of the HTTP interface, in-memory doubles of the
repositories and their tests. It has no state of its own to check.

Within the modelled components:

- payloads, trace contexts, error messages, metrics; the health snapshot, which only
  reads; `recordDeadLetter` and `recordJobResult`, which nothing calls; the months of
  `date_trunc`;
- in AgentRun, cost; the proposal's course, which is in CourseIndex;
- in CaptionArtifacts, `source_language_override`, which nothing sets; overlapping
  executions of one work, of which the stale one changes nothing; the release of a
  subscription, which is in ProviderBudget;
- in CourseIndex, the cache of embeddings, sources of kind `learning_context`, conflicts
  of idempotency keys, the rate of feedback, the learning state of the owner of a course,
  the choice among captions, transcripts and translations of the older job;
- in GeneratedMaterial, the older quiz of a course step and the review proposals of an
  evaluated quiz;
- in Accounts, the login attempt, which is one step with its callback; the sliding expiry
  of an idle session, which is a freely chosen earlier end; the tables that cascade as
  items do; the e-mail sign-up that Google sign-in replaced, with its mail outbox.

Hazards that were met and have no property: the order of locks of `failGeneration` and
`releaseSubscription` (`postgres-caption-artifact.repository.ts:337`; PostgreSQL breaks the
deadlock), the unique subscription that a user who gave it back meets again
(`learning/postgres-provider-budget.repository.ts:110`), and an update of a video asset
that does not look at the URL it was prepared for (`database.service.ts:1631`).

## 6. Plan

1. Done: `LeasedWork`, `WorkOutbox`, `DurableJob`, `WorkPipeline`, `ProviderBudget`,
   `Accounts`, with runs and proofs.
2. Done: `GeneratedMaterial` on the executor, `AgentRun`, `CourseIndex`,
   `CaptionArtifacts`, with runs; the proofs of `CourseIndex` and `AgentRun`.
3. Done: the proofs of `GeneratedMaterial` and `CaptionArtifacts`, of the properties that
   relate the halves of the pipeline, and of the captions and the material of a context
   together (`StudyContext`).
4. To come: the composition of the budget with the pipeline (a job that is given up, or
   replayed under another event id, leaves its work reserved); learning items with their
   notes and progress, and the outbox of mails.
