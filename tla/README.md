# Selenite: a verification development

Selenite is a self-hosted transcription service: a FastAPI backend
(`src/backend/app`) that accepts media files, runs Whisper and a diarizer over
them in the background and keeps the transcripts, and a React frontend. This
directory holds TLA+ models of the backend's own core logic, the TLC
configurations that check them on small instances, and proofs, checked by TLAPS,
that the central safety properties hold for every value of the parameters.

Paths below are relative to `src/backend/app` unless they start with `src/`.

## 1. Inventory

The backend is one process with one asyncio event loop. Everything that can
interleave does so at `await`: route handlers, the worker tasks of the job queue,
and background tasks. Each handler and each pipeline run has a SQLAlchemy session
of its own; sessions do not lock rows, and a commit writes the columns whose
value changed since that session last loaded the row. Threads are used to run the
recogniser and the diarizer; they touch no shared state of the models below.

| Component | State | Operations | What is hard | What makes it correct |
|---|---|---|---|---|
| **Job lifecycle** (`routes/jobs.py`, `services/whisper_service.py`, `services/transcription.py`, `models/job.py`) | a row per job (`status`, `progress_stage`), checkpoint file, transcript file, `transcripts` rows | create, cancel, pause, resume, restart, delete; fetch, claim, checks, chunks, diarization, finalisation, error path; clean-up at startup | a pipeline of some 25 awaits against handlers that read, await and commit; stale copies; column-wise commits; crashes | one worker per job, no abandoned `processing` row, stops are prompt and honoured, a completed job has its transcript, a queued job is served |
| **Job queue** (`services/job_queue.py`, `routes/settings.py:40-58`) | queue and its unfinished count, worker tasks, running ids, semaphore, concurrency | enqueue, worker loop, start, stop, `set_concurrency` in a background task | queue and semaphore are replaced while tasks hold the old ones; changes overlap; sentinels are counted by a list that another change clears | no job twice, no slot lost, every change ends, what was queued is taken |
| **Checkpoints** (`whisper_service.py:315-420, 680-854`) | checkpoint file: total, next index, segments; rendered chunks; transcoded copy | write after a chunk and at a pause, read at resume, removal | a crash or an exception between file and row, or inside either; a chunk file cut off; a duration probed anew | every chunk once, in order, and transcribed again only where no checkpoint kept it |
| **Job media** (`routes/jobs.py`, `utils/file_handling.py`) | media files by name | upload, rename, restart (shares the file), delete | several rows refer to one file; files are moved and removed before rows | a job that exists has its own file |
| **Job clock and progress** (`whisper_service.py`) | `started_at`, `processing_seconds`, `progress_percent` | add on pause, finalisation, completion; background drain of the progress | `started_at` survives a pause; each addition drops a part of a second; two writers of the progress | time is counted once; progress falls only where a run starts over |
| **Model registry, provider cache** (`services/model_registry.py`, `services/provider_manager.py`) | sets, weights, enabled flags and reasons; an in-memory snapshot | create, update, delete, list (which reconciles with the disk), refresh after commit | the refresh reads in three steps, in a session with older copies | the snapshot ends up equal to the tables; every weight has its set |
| **Capabilities, choice of models** (`services/capabilities.py`, `whisper_service.py`) | columns of the job | resolve at creation, choose again at each run | order of fallbacks; the registry changes in between | an explicit choice is honoured or refused; a run keeps the job's model |
| **Settings** (`routes/settings.py`, `services/settings_resolver.py`) | user rows, system preferences, the administrator's policy | read, save, merge | checks on copies; a save of one column recomputes others; administrators come and go | features have what they need; only users themselves can leave the administrators' defaults |
| **Authentication, sessions** (`routes/auth.py`, `services/auth.py`) | users, tokens, `auth_token_not_before`, `last_seen_at` | signup, login, check of a request, reset of all | comparison of whole seconds; sliding timeout; three reads at three moments; ids used again | a revoked or idle session is refused |
| **Rate limiter** (`middleware/rate_limit.py`) | token bucket per key | `is_allowed` | refill arithmetic, cap | what a bucket allows is what the limit allows |
| **Users** (`routes/users.py`) | users, their jobs and tags | create, update, disable, delete | administrators act on each other; check of active jobs, then two commits | an administrator survives, no orphaned jobs |
| **Tags** (`routes/tags.py`) | tags, assignments | create, rename, delete, assign | check-then-insert; ids used again; foreign keys not enforced | names unique in a scope; no assignment without its tag |
| **Messages, feedback** (`routes/messages.py`, `services/feedback.py`) | submissions with folder and status | draft, send, reply, folders, bulk, purge | mail goes out between two commits | what is marked as sent was sent, and the other way round |
| Transcripts, exports, search, probes, audit, configuration, migrations, seeds | none that interleaves | formatting, queries, set-up | | |
| Frontend (`src/frontend`) | React stores | polling, rendering | | |

How they interact: a handler of `jobs.py` commits the row and then calls
`queue.enqueue`; a worker takes the id and runs `process_transcription_job`, which
runs `process_job` in a session of its own; handlers talk to a running pipeline
only through the row, which the pipeline refreshes at its checks. A save of
settings (`routes/settings.py:726`) schedules `set_concurrency` without waiting
for it. `main.py` settles the rows of a dead process
(`finalize_incomplete_jobs`), sets the concurrency and starts the queue before
the first request.

The administrative components meet the jobs through tables only. A save of the
registry or of the settings commits and then refreshes the snapshot that
`create_job` and the pipeline resolve models from. Ids of users, tags, messages and
model sets are integers that SQLite gives out again once the highest is deleted, and
foreign keys are not enforced (`database.py` sets no pragma), so what refers to a
deleted row is the handlers' business. An audit entry is written through the
handler's session and its commit takes along whatever the handler has pending.

`PROJECT.json` lists the hazards of this code by line, with the properties that
watch them or the reason why none does yet.

## 2. Plan

What loses or duplicates users' work came first, then what administrators and
users share. Everything in the list is in this directory.

1. `JobLifecycle`: handlers, workers, pipeline, crash.
2. `JobQueue` and its abstract specification `WorkPool`.
3. `JobRun` (checkpoints, clock, progress), `JobMedia`, `ModelChoice`, run together
   by `MCJobData`.
4. `Catalog`, `Preferences`.
5. `Accounts`, `RateLimit`, `Tags`, `Mailbox`, run with 4 by `MCAdministration`.
6. Proofs of every safety property the passing runs check, and of the steps of
   `JobQueue` as steps of `WorkPool`.

*Composition.* `JobLifecycle` keeps the queue as a sequence and the pool at one
size; `JobQueue` keeps the pool and reduces a job to "it runs". Their common part
is `enqueue` and the worker loop. `JobRun` looks inside one job's runs, with one
worker and handlers that are atomic, because what interleaves there is the death
of the process, the clock and the requests, and the races between workers and
handlers are already in `JobLifecycle`. The two MC modules conjoin modules that
share no state: a behaviour chooses a `part` and moves that one only, so nothing is
multiplied, and one run answers for all of them.

Left to do: marks of having been read and attachments in `Mailbox`; the frontend's
stores as clients of the API; what a queued job can count on when users do pause.

## 3. Modules

| Module | Contents |
|---|---|
| `JobLifecycle` | life of jobs; safety and liveness properties |
| `MCJobLifecycle` | symmetry sets for TLC |
| `JobLifecycle_proofs` | theorems about `JobLifecycle` |
| `JobQueue` | queue, workers, changes of concurrency; properties; refinement mapping |
| `WorkPool` | what the queue promises, in six actions |
| `MCJobQueue` | instances for TLC |
| `JobQueue_proofs` | theorems about `JobQueue`, and that its steps are those of `WorkPool` |
| `JobRun`, `JobMedia`, `ModelChoice` | what one job computes; its media among others'; its models |
| `MCJobData` | the three, one part at a time |
| `Catalog`, `Preferences`, `Accounts`, `Tags`, `Mailbox`, `RateLimit` | model registry and snapshot; settings; accounts and sessions; tags; messages; token bucket |
| `MCAdministration` | the six, one part at a time |
| `JobRun_proofs`, `Accounts_proofs`, `Tags_proofs`, `Mailbox_proofs` | theorems about these |
| `JobData_proofs` | theorems about `JobMedia` and `ModelChoice` |
| `Administration_proofs` | theorems about `Catalog`, `Preferences` and `RateLimit` |

Definitions marked "mutated form" are the code with a plausible bug. Nothing
refers to them; `PROJECT.json` says which property fails when one takes the place
of the definition it is a form of.

### JobLifecycle

*State and code.* `status`, `stage` are the columns of the row; `"unborn"` and
`"deleted"` stand for no row, so ids are never reused (they are UUIDs). `ckpt` is
the `next_index` of the checkpoint file, `transcript` the transcript file, `rows`
the number of `transcripts` rows. `queue`, `running` are the queue's. For a
worker, `pc` names the await at which it is suspended and `memStatus`, `memStage`
are its session's copy of the row. `req` holds handlers between their SELECT (with
the status they saw) and their commit, and between commit and `enqueue`.

*Sessions.* `Refresh` copies the row; `CommitRow` and `Col` write a column only if
it differs from the copy. So a handler that saw `processing` and writes
`cancelling` overwrites whatever the pipeline committed in between, and a pipeline
that writes the `processing` it already has overwrites nothing. This is how the
code's stale reads come into the model; nothing else is assumed about the order of
commits.

*Actions.* One per stretch between two awaits that matter: `Dequeue`, `FetchJob`,
`Claim` (the commit at `whisper_service.py:936-944`), `ConfirmClaim` (the refresh
and check at 946-952), `CheckCancel`, `CheckPause` (each with a refresh of its own,
at five points of the pipeline), `LoadModel`, `BeginTranscribing`,
`OpenCheckpoint`, `TranscribeChunk` or `TranscribeWholeFile` (the fallback when a
chunk cannot be rendered), diarization or none, `BeginFinalizing`,
`WriteTranscript`, `CompleteJob`, `RemoveCheckpoint`, `Raise` and `HandleError`
(the `except` at 1239-1257), `Release` (the `finally` of the worker). Handlers:
`CreateJob`, `BeginRequest` (SELECT and guards), `CommitRequest`,
`CommitRestart`, `CommitDelete`, `Enqueue`. `Crash` loses what is in memory;
`Startup` is `finalize_incomplete_jobs`.

*Abstractions.* Text, times, progress numbers, ownership and the choice of model
are left out. Every media file has the same number of chunks. `Raise` is possible
where the code calls the model, the recogniser or the file system; errors of the
database are modelled only where the row has been deleted.

### JobQueue

*State and code.* `stop()` drops `_queue` and `_slot_lock`, `start()` makes new
ones; both therefore have a generation `gen`, and `on[t]` is the generation of the
object a task waits on or holds. `entries` and `unfinished` are the queue and its
counter, `slots` the value of the semaphore, `members` is `_workers`, `running`
is `_running_ids`. `save[s]` is a background task of `set_concurrency`, with the
tasks its `gather` waits for.

*Actions.* `Enqueue`; `StartWorker`, `TakeSentinel`, `SkipDuplicate`, `TakeJob`,
`TakeSlot`, `EndJob` of a worker, the last with `task_done` on the queue that is
current by then (`NextRound`), which raises when it is called too often and ends
the task; `BeginChange` (`set_concurrency` and `stop` up to `gather`) and
`EndChange` (the rest of `stop`, and `start`, which run without an await between
them).

*An assumption on the users.* Some properties hold only if no settings are saved
while a change of the pool is still draining it. `apart`, chosen once in `Init`,
says whether a behaviour is of that kind; such properties start with `apart =>`,
and the others hold for overlapping changes as well.

*WorkPool* says what a caller may rely on: jobs are taken in order, never twice
at a time, never more than the limit; a change of the limit waits for everything
that came before it and (this is what the code does) loses what came after.
`JobQueue!ImplementsWorkPool` is the refinement: `waiting` is what lies ahead of
the sentinels, `behind` what lies behind them, `active` the jobs of the tasks past
`TakeJob`. Behaviours that are not `apart` are mapped to an idle pool, so the
property speaks of the others only.

### What the modules below have in common

A handler is modelled from the read that decides to the commit that follows; it
carries what it has read, and the commit writes the columns that differ from that
copy. Reads with nothing decided between them are merged into one. Errors of the
database other than a missing row are left out. Bounds (`Max...`) count requests
begun, deaths and time, and nothing else.

Many properties hold but for exceptions the code really has. A history variable
names exactly those (`tangled`, `stale`, `raced`, `departed`, `unsaved`, `marred`, `excused`, `renamed`,
`late`, `contested`, `astray`, `crossed`, `unsure`, `losses`). No guard of an action
reads one, so that they take no behaviour away, and each is set by the step that
makes the exception, never by the property being false.

### JobRun

*State and code.* A chunk stands for its segments, a transcript for a sequence of
chunk indices. `row`, `mem` are the row and the worker's copy; `file` is
`checkpoint.json` (absent, torn, or total, next index and segments), `parts` the
rendered `chunk-*.wav`, `torn` those of them that are cut off, `wav` the transcoded
copy. `wpc` is the await the worker is at. *Actions.* `FetchRun`, `ClaimRun`,
`ConfirmRun`, `PrepareRun`, `BeginRun` (`process_job` up to the recogniser), `OpenRun`,
`LoopRun`, `SaveRun`, `RenderRun`, `HearRun`, `KeepRun`, `CommitRun`
(`_transcribe_with_checkpoints`: a chunk is rendered, heard, kept in the checkpoint and
shown in the row, in four steps), `WholeRun`, `DropRun` (a chunk that cannot be rendered
sends the whole media through the model), `BeginDiarizing`, `DrainProgress`,
`EndDiarizing`, `BeginFinal`, `CompleteRun`, `CleanRun`, `RunRaise`, `RunRelease`;
`RequestRun` for pause, resume and cancel; `Tick`; `CrashRun`, a death together with
the settling of the row at the next startup.

*What goes wrong.* An exception may occur at each await inside the `try` (`RunRaise`);
rendering is a synchronous call whose exceptions are caught on the spot, which is the
second branch of `RenderRun`. Either that or a death may leave a part of the chunk's
file (`PartialChunk`), which every later run takes for the chunk, because it asks only
whether the file exists. A write of the checkpoint may fail before or in the middle, by
an exception or a death (`HalfWrite`). *The clock* moves in ticks, `Second` of them to
the second, and does not run backwards; `processing_seconds` grows by whole seconds
(`Clocked`).

### JobMedia

`disk` maps a path (a name and the counter that makes it unique) to the upload it
holds. Handlers act on the disk first and commit the row later: `Upload`/`InsertJob`,
`MoveMedia`/`CommitRename`, `CopyJob`/`CommitCopy` (restart), `RemoveMedia`/
`CommitRemoval`. `Work` moves the status the guards read; `DieServing` ends the
handlers in between. `tangled` collects the jobs whose file a restart shares (the
code removes a shared file with either job), and those of overlapping requests or
of a death between disk and row.

### ModelChoice

`CreateResolved` is the resolution of `capabilities.py` from the request, the
settings and the snapshot; `RunJob` the choice in `whisper_service.py`, which looks a
candidate *name* up again and prefers the default provider; `EditOffers` changes the
snapshot in between. The two lookups differ where a name belongs to two providers,
which is why `RunKeepsChoice` is limited to names that are unique.

### Catalog

`entry` holds both tables, `cache` the snapshot, `session` what a handler has loaded
(`old`), what it changed that to (`seen`), and how far it is. `CommitItems` or
`InsertSet` commits, `Reload` refreshes the row by name, `ReadEntries` and
`InstallSnapshot` are `ProviderManager.refresh` in the same session, whose identity
map keeps copies loaded earlier: a query does not renew them. `ListSets` reconciles
rows with the files it finds. Ids of sets are used again. The catalog starts as the
seed leaves it, with all files there or none.

### Preferences

`BeginSave` makes the saver's row if there is none, `CheckSave` checks against copies
of policy and preferences, `CommitSave` writes the columns that differ,
`ScheduleLimit` tells the queue the saver's limit. `staff` are the users who are
enabled administrators; `SetRole` makes users so or no longer so at any moment, and
only `Root` stays one. A row has the defaults of its columns (`TableDefaults`: no
overrides, the user follows), and that of a plain user the administrators' values
besides (`NewRow`). The policy is the row an administrator saved last (`AdminRow`), so
the first save of another administrator replaces it by that one's fresh row, which
forbids overrides. What the settings come to is asked twice, by `create_job`
(`AtCreation`: administrators have their own values) and by the worker (`AtRun`: the
administrators' row over everybody's, theirs included, and nothing for a user without a
row). A group of defaults is one value; a feature has a switch and one column for what
it needs.

### Accounts

A session is a token; the server keeps none. `CheckAccount`, `CheckSession`,
`TouchSeen` are the three stages of `get_current_user`, `ResetSessions`/`CommitReset`
the reset, `RestartServer` the one at startup. Time is in ticks,
`TicksPerSecond` to the second, because tokens and resets are compared in whole
seconds. `UpdateUser`, `DeleteUser`, `PurgeUser`, `RemoveUser` are the handlers of
`routes/users.py`, with the two commits of a deletion. `NextId` is the id the database
gives a new account, the one after the highest there is: an account deleted at the top
leaves its id, and what tokens and late jobs carry it, to the next. An account made by
an administrator has `Never` been seen until it logs in, and no timeout until then.
*Assumed.* The zone of the server is UTC: `auth_token_not_before` is stored without
one and read back as local time.

### Tags

Scoped names and links. Lookups and commits are apart (`CreateTag`/`InsertTag`,
`RenameTag`/`CommitName`, `AssignTags` or `UnlinkTag`/`CommitLinks`,
`DeleteTag`/`CommitDeleteTag`); a link that is gone or already there fails the whole
commit. `DeleteMember` removes a user's tags and jobs. Every user has one job.

### Mailbox

Drafts, messages, replies and feedback are rows of one table; a text stands for all
that is sent. `Deliver` lets the server take the mail or not, and the sender learn it
or not; `CommitOutcome` writes the result. Bulk actions (`SetFolder`, `PurgeMessage`)
commit message by message (`MoveOne`, `PurgeOne`) and end at the first that is gone.
Ids are used again.

### RateLimit

A bucket is measured in the time its refill takes, so limits of any size share one
capacity, and a token of a key is worth `Cost`. `is_allowed` has no await and is one
step. Arithmetic is exact, where the code uses floating point. `spent` is what was
granted since each moment, the reference the bucket is compared with.

## 4. Runs

Deadlock checking is off everywhere: requests, submissions and changes are
bounded, and a service that nobody calls rests.

| Run | Asks | Instance, and why it is enough |
|---|---|---|
| `JobRaces` | all safety properties of one job against everything at once | one job, two workers, two handlers in progress, two chunks, five accepted requests, one crash. Two workers and duplicate entries need create, pause, resume and one more request on top; two handlers show stale guards; two chunks a stop in between. Symmetric. 827 813 states |
| `JobQueueing` | is a queued job on its way, transcribed once, and served? | two jobs, one worker (so jobs wait), simulated failures, restart and delete, four requests, one crash; no pause and resume, with which these properties fail (see `LostResume`). 200 169 states |
| `JobLiveness` | does processing end, do workers come back, are cancel and pause honoured? | one job, two workers, one handler at a time, four requests, one crash. 45 135 states |
| `QueueResizing` | the queue under changes of its size | two jobs, sizes 1 and 2, two savers, three submissions, two changes: shrinking and growing, overlapping and apart. Three changes (143 415 states) also pass. 12 065 states |
| `JobData` | what one job computes and keeps | run: media of one or two chunks, with and without a diarizer, three requests, one death, two ticks, which are one second (a pause with time before and in it, and runs that end inside a second). Failures of rendering, hearing and writing are not bounded. Media: three jobs and two names, two handlers, four requests, one death: two uploads of one name, a rename or restart and a deletion. Choice: two providers, two names, two diarizers, all states of the snapshot, one change between creation and two runs. Symmetric in the jobs and handlers of the media. 1 356 284 states |
| `Administration` | what users and administrators share | two overlapping requests in every part, three or four in all. Catalog: one set, so that its id is used again, and two weights. Settings: root and two others who are promoted and demoted, so that a second administrator's fresh row comes in. Accounts: root, one other id, which is deleted and used again, two ticks to the second, five ticks. Tags: an administrator and a user, two tags and names. Mailbox: two ids and texts, one death. Rate: two costs over four ticks, longer than a refill. Symmetric in the requests, the same two values in all parts, and in texts, which are the names of tags as well. 1 791 944 states |
| `LostResume` | violation | `QueuedIsWaiting` with pause and resume |
| `StuckCancelling` | violation | `CancellingIsDrained` |
| `LostCancel` | violation | `CancelledIsFinal` |
| `PendingDropped` | violation | `PendingRemain` |
| `OverlappingSaves` | violation | `EveryChangeEnds` |
| `OrphanedWeights` | violation | `WeightsHaveSets` |

What the passing runs show is listed with the properties; each property is
followed in `PROJECT.json` by a mutant of the code that breaks it.

*Job properties.* `OneWorkerPerJob`: duplicates in the queue never give a job to
two workers. `ProcessingIsHeld`: a row says `processing` only while a worker is in
the pipeline with it, whatever fails or overwrites. `StopWithinOneCall`: after the
last committed cancel or pause the recogniser is called once more at most. That call
may be for the whole media, where a chunk cannot be rendered: the fallback has no check.
`CompletedHasTranscript`: status agrees with files although they are written from
copies of different age. `QueuedIsWaiting`, `TranscribedOnce`, `QueuedIsServed`: nothing is lost or done twice as long as nobody pauses.
`ProcessingHasPipelineStage`: the same for status and stage, two columns of a row that
are written one by one. (With pauses it fails, after eight requests or more: a handler
with a stale copy changes only the stage between fetch and claim, and the claim, for
which the stage has not changed, writes only the status.) `ProcessingEnds`,
`WorkersComeBack`, `CancelIsHonoured`, `PauseIsHonoured`: what must happen does,
errors included.

*Queue properties.* `OneTaskPerJob`, `SlotsBalance`, `AheadIsTaken`: hold also
with the workers that overlapping changes leave behind. `WorkersAreKnown`,
`TaskDoneIsCovered`, `ChangeEnds`, `ImplementsWorkPool`: hold when saves come apart.

*What a job computes.* `TranscriptIsWhole`: a completed transcript has every chunk
once and in order, across pauses, deaths, errors, torn checkpoints, duplicate entries
and probes that disagree; a chunk whose rendering once failed or died may be in it cut
off. `HeardOnce`: a chunk is transcribed again only after a run that failed or died
before its checkpoint, or after a checkpoint was lost. `TimeIsWork`: time is counted
once although `started_at` outlives a pause, up to the part of a second that each run
drops; a pause that cannot write its checkpoint counts its run twice and is left out. `ProgressOnlyRises`: two writers with copies
of different age do not set the progress back. `MediaIsOwn`: names are used again and
files move before rows, and yet a job's path leads to its own upload.
`ExplicitChoiceHonoured`, `RunKeepsChoice`: what was asked for is what is loaded.
`TimeIsWork` excludes deaths, since the settling at startup counts the time the
process was down as work.

*Administration.* `CacheIsCurrent`: after requests that overlapped the snapshot may
be old, and the next undisturbed one mends it. `FeaturesAreConfigured`:
checks on copies are good enough but for the races named. `DefaultsReach`: whatever
administrators set, promote or demote, a user comes off their defaults only by a save of
the user's own that finds another value, where they allow it. (Such a save need not be
about that value: after the defaults have moved a save of anything else does it.)
`RootRemains`, `NothingLeftBehind`, `SessionsEnd`: accounts end as they should and the
last administrator does not. `SessionsEnd` is about the account that has the id of the
token now; a token of a deleted account does enter as the next one with its id. `TagsAreDistinct`, `LinksHaveTags`: tables without
constraints stay consistent. `MailIsAccounted`: rows and mail server agree.
`LimitIsExact`: two numbers per bucket do what a log of all requests would.

*Disagreements with the repository's own words* (the `violation` runs):

- `LostResume`: `enqueue` silently drops a resume while the worker that paused the
  job has not released its id; the row stays queued with nobody to serve it
  (`models/job.py:13`, `services/job_queue.py:99`).
- `StuckCancelling`: a cancel between the claim's commit and its refresh is seen
  and abandoned; the row stays `cancelling` until a restart (`models/job.py:15`,
  `whisper_service.py:948`).
- `LostCancel`: the claim overwrites a cancel that was confirmed since the row was
  fetched (`models/job.py:20`, `whisper_service.py:936`).
- `PendingDropped`: a job submitted while a change drains the pool goes with the
  old queue, against "Pending jobs remain in queue" (`job_queue.py:125`).
- `OverlappingSaves`: two overlapping changes orphan workers, which eat the
  sentinels of a later change; that one never ends (`job_queue.py:124`).
- `OrphanedWeights`: the deletion of a set "and all its weights"
  (`services/model_registry.py:390`) leaves them to a foreign key that SQLite is never
  told to enforce; a later set may take the id and get them.

## 5. Fairness

`JobLifecycle`: weak fairness of each worker's steps, of each handler that has been
accepted, and of the startup. The event loop runs every ready task in turn, every
await of the pipeline ends (model and diarizer run in threads and return or
raise), and uvicorn runs a handler it has accepted to its end. No client has to
send a request, no process has to die, and no error has to occur. `JobQueue`: weak
fairness of each task's steps and of the end of each change; enqueueing and saving
are not fair.

The other modules state safety only and assume no fairness: their handlers may stop
anywhere, which is also what a lost connection does to them.

`CancelIsHonoured` and `PauseIsHonoured` are checked with handlers one at a time:
with two in progress a stale pause may overwrite a cancel. They speak of requests
that reach a worker before its last checks, because the code looks at the row
no more after those.

## 6. Proofs

TLAPS checks all proof modules; no step is left out. Every safety property of the
passing runs is a theorem for all values of the constants (three of them for those
without pauses), and so is the refinement of `WorkPool` but for its fairness. The
assumptions are the named ones of the modules: ids differ from markers, rows from the
values that say there is none, sizes are positive numbers up to the largest, bounds are
numbers, durations of media have a longest one, savers and jobs with media are finitely
many, a token is worth at most a full bucket.
The sets of jobs, workers, clients, users, features, names, texts and keys are
arbitrary.

*JobLifecycle_proofs.* `TInv` adds to `TypeOK` that exactly the idle workers hold
no job, that a worker about to transcribe has a chunk left, and that a handler in
progress has a job; it is inductive, hence `TypeCorrectness`. `IInv` adds
`Exclusive` (held jobs are the running ids, each held once, which is why duplicate
entries are harmless), `WorkerInv` (what the copy of a worker can say at each
await) and `JobInv` (what the row can say of a job that nobody holds, of
stops and of completed jobs). None of the safety properties is inductive without
them: that a `processing` row is held needs that no copy outside the pipeline says
`processing`, which needs the exclusiveness of jobs. The steps of the pipeline are
treated together: three lemmas bound what they do to their own row, and the
preservation of `IInv` uses only those. Results: `MutualExclusion`,
`NoOrphanedProcessing`, `PromptStop`, `CompletionIsBacked`.

Three theorems have the hypothesis `NoPauses`, that `pause` and `resume` are not among
the requests, which is how `JobQueueing` checks their properties and without which they
are false (`LostResume`). They rest on `Ticket`: in its life a job has one ticket at
most, which is an entry of the queue, or with the handler that is about to enqueue it,
or with the worker that has taken it. No entry is dropped, since `_running_ids` names held jobs only, and none is added
beside another, which is not the merit of `enqueue` (it compares with `_running_ids`
only) but of the ticket. `ReqSound` bounds what the stale copy of a handler can say of
the row it is about to overwrite, `TicketSound` what the copy of a worker says before
its claim, and `LifeSound` the row: it waits if it is queued, it has at most one
`transcripts` row and none while it waits or is worked on, and if it is processing its
stage is one of the pipeline's.
Results: `QueuedIsOnItsWay`, `OneTranscription`, `StageFollowsStatus`.

*JobQueue_proofs.* `IInv` is the conjunction of `Wf` (types; generations and tasks
are those the ended changes made; what is to come is empty), `Held` (exactly the
busy tasks have a job, each its own, and together the running ids), `Slots` (every
semaphore conserves its slots) and `Calm` (with saves apart: one change, which
waits for all members; live tasks are members and work on the current queue;
the unfinished count covers entries and running jobs). `Wf` needs `Slots` for the
range of a semaphore, and `Calm` needs `Held` to conclude that no job runs when
a change ends. Results: `QueueTypeCorrectness`, `JobsAreExclusive`,
`SlotsAreConserved`, `NoOrphanedWorker`, `TaskDoneNeverRaises`.

`QueueIsWorkPool`: initial states map to initial states of `WorkPool`, and each step to
one of its steps or to none. Besides `IInv` it needs `Complete` (`_workers` has the size
asked for, and outside of a change all of them live) and `Shape(a, k)`, which describes
the current queue by two numbers: `a` entries, then `k` sentinels, then the rest. During
a change `k` is the number of live workers, so that the last worker leaves with the last
sentinel, and only when nothing is ahead. From `Shape` follow what the pool sees
(`Sight`: what waits are the first `a` entries, what will be lost those after the
sentinels), that a worker that takes an entry takes the first that waits, that fewer
jobs run than the limit says whenever a worker is free (`RoomForJob`), and that at the
end of a change nothing waits or runs.

*JobRun_proofs.* `RunTypes` adds to `JobRunTypeOK` the ranges of the places, times
and of a readable checkpoint; it gives `RunKeepsTypes`. On it stand four invariants,
each inductive with `RunTypes` alone. `OrderInv`: the segments in memory, on the disk
and of the result are the first chunks in order, up to the next index, with a torn
one only for a chunk that is marred, and nobody in the pipeline has a completed row;
`TranscriptIsWhole` alone says nothing before completion.
`HeardInv`: a chunk not yet covered by the checkpoint was heard at most `losses`
times, once more between its hearing and the write of the checkpoint. `PercentInv`: the worker's copy of the progress is the row's, and while the diarizer
works it lags behind by no more than what the run is about to set (95).
`TimeInv`: the seconds of the row and the ticks it has yet to add since `started_at` make
up the work, less a part of a second for each claim, by await and status.

*JobData_proofs.* `MediaInv` follows the file of each job that is not tangled:
`MediaAt` is where it must be, at the path a handler is about to commit or else where
the row says, and there it is, alone (`Clean`); two files never hold the same upload
(`FilesApart`); and a job being created or restarted has no row and no second handler
(`FreshTask`). In the middle of a rename the row names a path that is free again, which
is why the property itself is not inductive: another upload may take that path. That
`resolve_unique_media_path` finds a free one is the pigeonhole principle: two counters
that lead to the same upload are the same, and there are more counters than jobs.
Result: `MediaStaysOwn`. `ChoiceTypes` says where the values of a row come from; on it
rest `ChoiceIsHonoured` and `ChoiceIsKept`, action properties.

*Administration_proofs.* Of the registry: `CatalogInv` says that the copies of a handler
that no other has overlapped are `Faithful`, at each of its stages: before the commit
to the rows it will overwrite, after it to the rows it has read again, and then to the
sets it is reading. The snapshot is current in every state in which nobody has
committed what it does not show yet (`Settled`), which is more than the property says
and what its induction needs. Result: `SnapshotFollowsTables`.

Of the settings: `FeatureInv`: what a save will commit is coherent together with
the preferences it has read, so a commit that was not raced keeps them so.
`FollowInv`: the row of a user follows the administrators in every group in which no
save of the user's own has departed from them, through the copies of saves in progress,
of plain users and of administrators, and across changes of role.

Of the rate limiter: for every key some window is exactly as full as the bucket
says, and no window is fuller; the first is what makes a refusal justified and the
second a grant.

*Accounts_proofs.* `RootStays` needs that a pending update of the root account was
checked with the rights it protects; `DeletionIsComplete` that an account under
removal has no jobs but late ones; `SessionsDoEnd` that what a request has read of
account, clock and reset is still so unless it is excused, and that `last_seen_at`
never runs ahead of the last use of the id. Neither assumes that an id has one account.

*Tags_proofs.* `RowsApart`, `RowsFree`, `TakersApart` relate two rows, a row and a
request about to take its name, and two such requests; uniqueness of rows is not
inductive without the other two. `AddsExist` and `DeletionsSee` relate assignments
and deletions in progress to the table.

*Mailbox_proofs.* `SentAsIs`: as long as nobody edits a message while it is sent, what
its senders send is what the row says. `MarkedOrTold`: as long as senders learn
the answer, a taken message is marked or its sender is about to mark it, and a
message that is no draft has one sender.

*Only model-checked.* Liveness, since fairness and ENABLED are out of the prover's
reach: `QueuedIsServed`, `ProcessingEnds`, `WorkersComeBack`, `CancelIsHonoured`,
`PauseIsHonoured`, `AheadIsTaken`, `ChangeEnds`, and of `ImplementsWorkPool` the weak
fairness of the pool's steps.

## 7. Not modelled

Formatting and exports (functions of a stored file over texts and floating-point
times), search and probes (read-only), audit (write-only), configuration, migrations
and seeds (run once; what they leave is the initial state of the modules), the
simulated pipeline used by tests, and the frontend's rendering.

Within the modelled parts:

- errors of the database other than a vanished row, a closed event loop, the lazy
  start of the queue, and the order in which a semaphore wakes its waiters;
- deletions of files that fail, and how long the last chunk is under another measured
  duration;
- zones of the server other than UTC (`routes/auth.py:340`);
- the estimate of the time left, languages, time zones, colours and descriptions,
  which nothing depends on;
- what a file or a password must look like, CAPTCHA, changes of the password;
- defaults in settings that point at a deleted weight, and downloads of models;
- in `Mailbox`, marks of having been read, attachments on the disk and the webhook;
- buckets of the rate limiter are never removed (`rate_limit.py:20`), which a fixed
  set of keys cannot show.
