# A formal model of sqzarr

sqzarr is a daemon that re-encodes the films of a media library. It scans
directories, queues what is worth encoding, runs ffmpeg, checks the result, puts
it next to the original, moves the original to a processed directory for some
days of review, and lets a user restore it or give it up. The repository's
module name is `sqzarr`; its code is Go (`cmd/`, `internal/`) with a React
client (`frontend/`), through which everything but the command line is done.

This directory holds TLA+ modules of the parts of it that are hard to test, TLC
configurations that check them on small instances, and TLAPS proofs.
`PROJECT.json` maps every definition to source lines and lists the runs, their
mutants, the disagreements found and the hazards of the code.

    tlc -config QueueRaces.cfg MCJobQueue.tla     # one run
    tlapm JobQueueProofs.tla                      # a module of proofs

Contents: 1 inventory, 2 modules, 3 runs, 4 proofs, 5 disagreements, 6 what is
not modelled, 7 plan.

## 1. Inventory

| component | state | operations | talks to |
|---|---|---|---|
| job queue and worker (`queue/worker.go`, `db/jobs.go`) | table `jobs`; `cancels`, `activeJobs`, `maxConcurrency`, `paused`, `logBuf` | `tick` every 5 s, `processJob` in a goroutine per job, `handleFailure`, `CancelJob`, `SetPaused`, `SetConcurrency`, `ResetRunningJobs` | encoder, verifier, rename, database, observers of its events |
| staging and review (`processJob`, `db/originals.go`, `queue/originals_gc.go`, `handleRestoreOriginal`, `handleDeleteOriginal`, `runRestore`) | the library's files, the processed directory, table `originals` | rename the output, move the original, record it; restore, delete, hourly sweep | file system, `jobs` |
| intake (`scanner/scanner.go`, `db/processed.go`, `handleCreateJob`, `handleEnqueueDir`, `handleReprocessFile`) | table `processed_files`; what a walk has read so far | `ScanDirectory`, `maybeEnqueue`, manual enqueue | file system, `jobs` |
| scan scheduler (`scanner/scheduler.go`) | `intervalHrs`, `nextScanAt`, `lastScanAt`, `resetCh` | `Run`, `SetInterval`, `RecordManualScan` | scanner, settings handler |
| configuration and automatic pause (`config/`, `handleUpdateConfig`, `persistPaused`, `ConsecutiveFailCount`) | `sqzarr.toml`, the `Config` in memory, `Worker.paused` | `Load`, `validate`, `UpdateFile`, `PUT /config`, pause, resume | worker, scheduler, encoder, settings page |
| event hub (`api/websocket.go`) | `eventCh` (64), `send` per client (32), `clients` | `broadcast`, `run`, add and remove a client | worker events, the client's streams |
| encoder and verifier (`transcoder/`, `verifier/`) | the temporary file; the chosen encoder | `Run`, `SetEncoder`, `Verify` | ffmpeg, ffprobe |
| HTTP server, middleware, authentication (`api/middleware.go`, `handleLogin`, password handlers) | the password hash and the secret of the tokens; no sessions | routing, `authMiddleware`, login, change and remove the password | all handlers |
| directories, statistics, scan runs (`db/directories.go`, ...) | three tables | single statements and one batch insert | directories page, scanner |
| file browser (`handleBrowseFS`) | none; the roots of the configuration are its ceiling | list a folder | the three pickers of the client |
| web client (`frontend/src/`) | per page what it has read and what the user has done to it; the token in `localStorage`; an event stream per live page | eight routes, `request()`, polls, `connectSSE` | every handler |
| Plex notifier, logger, scripts | none that anything here decides on | | |

How they interact: every component writes `jobs`. The database has one
connection (`db.go`, `SetMaxOpenConns(1)`), so statements do not overlap; there
are no transactions around pairs of statements, so everything between two of
them may interleave. All `UPDATE`s of a status are unconditional (`WHERE id =
?`). The worker's goroutines, two scanners (scheduled and triggered), the sweep,
any number of HTTP handlers and a command-line process run at the same time. The
client holds copies of what the server had: a page reads when it is opened,
after each of its own actions, and, where it follows the worker, on events and
polls. `fetch` neither orders answers nor cancels a request, so each `await` in
a handler is a point where everything else may happen.

What is hard, and what correctness means for it:

* **Claims, cancels and retries over one row.** A status read is acted on later.
  No row may be stranded in `running`; a cancel must reach its own job only; two
  goroutines must not encode one job, except where the unconditional `UPDATE`s
  let them; the goroutine count must stay within its limit while the limit
  changes.
* **Moving an original aside in four steps** (rename, move, record, stage) with
  a possible failure or death between any two. The original must survive until
  it is given up; a whole copy must exist at every moment; the record must say
  where the original is.
* **Restore, delete and sweep of one record overlapping**, and a record that is
  cleared meanwhile.
* **Scanning a directory the worker is writing to**, with the memory of what was
  handled in two tables that are written at different times and cleared
  separately. An encode must not be queued; a film that needs it must be.
* **Two writers of the pause state and of the configuration file**, a request
  that is refused after its first fields, a truncated file after a crash: what
  the server works with must be what it starts with, and it must start.
* **Pages that act on what they read earlier.** Ids that are ticked outlive the
  rows they were ticked in; answers of two clicks overtake each other; a closure
  loads under a filter that is no longer chosen; a form is edited while it is
  being saved. A request must name what its user saw, and a page on which
  nothing is under way must show what is so, or there must be a reason.
* **A stream that drops events** and a reconnection timer that outlives its
  page.
* **A refusal that arrives late** must not log out the user who has just logged
  in.
* **Liveness**: an accepted job ends; an expired original goes; a film that
  qualifies is queued.

`PROJECT.json` lists these one by one under `hazards`, each at its line with the
properties that watch it, or with the reason why none does yet.

## 2. The modules

    Custody            what the daemon promises about a film
       ^ implemented by
    Staging            files, originals, review       MCStaging
    JobQueue           rows, worker, handlers         MCJobQueue
    Intake             scans, enqueueing, memory      MCIntake

    ClientPages        the web client                 MCClientPages
       composes
         ReviewPage        review, badge of the header, table originals
         HistoryPage       history, table jobs
         DirectoriesPage   card and form, table directories
         LiveViews         queue, dashboard, events   MCLiveViews
         FolderPicker      three pickers, handleBrowseFS
         SettingsPage      the form, over ...
           ConfigFile        ... memory, sqzarr.toml, starts
         Session           token, login, passwords

    JobQueueProofs, IntakeProofs, StagingProofs, CustodyProofs,
    SettingsProofs, SessionProofs, ReviewProofs,
    PagesProofs                                       theorems

An `MC` module only gives the constants values. Each module of the daemon takes
from the others no more than what it needs to be closed: `Staging` and `Intake`
claim a row in one step (`JobQueue` splits it), `JobQueue` and `Intake` treat
the file moves as one or two steps (`Staging` splits them). Everywhere one step
is one SQL statement, one file-system call, or one critical section of a mutex.

### JobQueue

| state | code |
|---|---|
| `status`, `priority`, `failCount` | columns of `jobs`; `"unborn"` and `"cleared"` say that there is no such row |
| `tick`, `sel` | where `Worker.tick` is, and the row `NextPendingJob` gave it |
| `stage`, `runJob`, `cancelled` | per goroutine: how far `processJob` is, its job, whether its context is done |
| `cancels`, `activeJobs`, `maxConcurrency`, `paused` | the fields of `Worker` |
| `request` | per HTTP request: what the handler has read and is about to write |
| `proc` | `up`, `stopping` after SIGTERM, `down` |
| `asked`, `stale` | history: whose cancellation was asked for; which rows were overwritten on the strength of an outdated status |

Actions follow the code: `TickStart`, `TickRoom`, `TickPick`, `TickSkip`,
`TickClaim`, `TickSpawn` are the loop; `EncodeOk`, `EncodeCancelled`, `Fail`,
`Judge`, `GiveUp`, `Refail`, `Trip`, `Finish`, `Unregister`, `Release` are a
goroutine with its deferred clean-up; `CancelRead`/`CancelRow`/`Signal` and
`RetryRead`/`RetryRow` are the two halves of the handlers; then `Enqueue`,
`ClearHistory`, `SetPaused`, `SetConcurrency`, `Sigterm`, `Exit`, `Crash`,
`Restart`.

Abstractions: what ffmpeg, the verifier and the file moves decide is a choice of
outcome; `fail_count` is counted up to the threshold; the streak that trips the
automatic pause is a choice (`Trip`); goroutines that a stopping process leaves
behind vanish with it.

### Staging and Custody

| state | code |
|---|---|
| `lib`, `held`, `tmp` | the file under each library name, in the processed directory, and the temporary output; a file is known by its film and by being original or encoded |
| `status`, `path`, `result` | `jobs.status`, `source_path`, `output_path` |
| `record`, `owner`, `output`, `expired` | a row of `originals`: its `deleted_at`, `job_id`, `output_path`, and whether `expires_at` has passed |
| `wpc`, `wjob`, `wout` | per goroutine: its place in `processJob` |
| `rpc`, `rrec`, `todo` | per restore, delete or sweep: its place and the record it has read; what the sweep has listed |
| `bytes`, `wsrc`, `discarded` | history: which bytes a record stands for, and which were given up |

`Claim`, `Encode`, `Choose`, `Place`, `Hold`, `Record`, `Stage` are
`processJob`; `Ask`, `Move`, `Drop`, `Remove`, `Mark`, `Conclude` are restore
and delete, shared with the sweep (`Expire`, `List`, `TakeNext`) and with
`sqzarr restore`, which is a process of its own and may outlive a crash of the
daemon; `ClearRecords` and `ClearRows` are the two statements of `ClearHistory`,
the second of which fails when a foreign key refers to a row. `IOMayFail` lets
renames, removals and the insert of the record fail.

`Custody` is the abstract specification: per film the set of whole copies on
disk, which may gain an encoded copy, and may lose one of two. `Staging`
implements it under the mapping `copies[f]` = the kinds of copy of `f` found in
the library or the processed directory (`CustodyKept`): a step that removes the
last copy, or exchanges one for the other at once, is no step of `Custody`.

Abstractions: one processed directory per library, mirrored by name; a retry is
one more row for the same path; verification is part of `Encode`.

### Intake

| state | code |
|---|---|
| `file`, `last`, `ripe` | the content under each name, as a version number that stands for size and mtime; which versions meet `min_age_days`, `min_size_mb` and the bitrate rule |
| `record` | `processed_files`: the version it knows of a path |
| `row`, `nextRow`, `held` | `jobs`, and the originals held for its rows |
| `scan` | per scan: which statement of `maybeEnqueue` comes next, the file in hand, what was statted, and what is left of the walk |
| `ask` | per request to enqueue: the path it has checked |
| `work` | the worker: its row and next step |
| `overlapped`, `cleared` | history: paths enqueued or retried on an outdated status; contents whose rows were cleared |

A walk is `WalkStart`, then for each name `WalkNext` (stat), `WalkRecord` and
`WalkForget` (`IsFileProcessed`), `WalkStatus`, `WalkOutput` (with the rules and
ffprobe), `WalkInsert`; `WalkEnd` ends it, for a triggered scan at any time,
because `handleTriggerScan` runs it with the context of a request that has been
answered.

Abstractions, all of them named here: one film, one output name and one
temporary name per film; an encode of an encode may run and fail or be excluded,
but is not staged; rows are ordered by id where the code orders by `created_at`;
restore, accept and clear are one step (their steps are the subject of
`Staging`); one worker; an encode does not become ripe before it is staged, that
is, staging takes less than `min_age_days`; `scan-once` is one more scan.

### The client: what its modules have in common

One step is what one turn of the browser's event loop does, from an `await` to
the next, or what one request does at the server. A handler that awaits is a
*task* with a program counter; a request takes effect at the server in one step
and is noticed by the page in a later one, or its answer is lost. Answers of
different tasks arrive in any order. React renders between steps: a handler sees
the state of the render it was made in, which is state the module reads at the
click (`HistoryPage`'s filter and offset) and not at the answer. Effects that
follow a render are part of the step that causes it. What other clients, the
worker and the sweep do is in actions named `...Elsewhere` and the like. Each
module keeps a few history variables (`late`, `outdated`, `missed`, ...) that
say for what reason a page may show what is not so; the properties say that
there is no other.

| module | state | code |
|---|---|---|
| `ReviewPage` | `original` | `originals`: which film was staged under an id, and whether it is still held |
| | `records`, `selected`, `confirming`, `badge`, `task` | the state of `Review.tsx`, `originalsCount` of `LayoutContext.tsx`, and the handlers under way |
| `HistoryPage` | `job` | `jobs`: the status under each id |
| | `jobs`, `offset`, `hasMore`, `filter`, `clearing`, `call` | the state of `History.tsx`, and its calls of `load` |
| `DirectoriesPage` | `directory`, `lastDir` | `directories`: path and one number for the settings under each id |
| | `dirs`, `editing`, `card`, `dirForm`, `dirTask` | the state of `Directories.tsx`: the list, `EditCard`, `AddForm`, and what is under way |
| `LiveViews` | `jobStatus`, `paused` | `jobs` and the worker's pause |
| | `view`, `link`, `stream` | the page that is open, its `EventSource` or the timer that will make one, and the events on their way |
| | `running`, `pending`, `status`, `load`, `doing`, `said`, `poll`, `asked`, `logOf` | the state of `Queue.tsx` and `Dashboard.tsx`, their loads, handlers and polls |
| `FolderPicker` | `roots`, `picker`, `browse`, `pickLoading`, `ticked`, `visit` | `root_dirs`; the picker that is open with its `navigate` calls |
| `ConfigFile` | `conf`, `confFile`, `serving`, `put` | `Config`, `sqzarr.toml` by key, whether the server runs, and per request the next statement of the handler |
| `SettingsPage` | `page`, `cfg`, `form`, `saving` | the state of `Settings.tsx` |
| `Session` | `password`, `term`, `token`, `route`, `request` | the hash, the secret (a term: tokens of an earlier one are refused), `localStorage`, the location, requests under way |

Actions, by module:

* `ReviewPage` - the clicks `ClickRow`, `ToggleSelect`, `SelectAll`, `AskBulk`,
  `ConfirmBulk`; `ActOne`, `ActBulk` and `EndBulk` for the requests of a
  handler; `AnswerRead`, `ShowList` and `ShowCount`, or `LoseList` and
  `LoseCount`, for the two reads that follow it; `Stage`, `Finish` and `Clear`
  for the others.
* `HistoryPage` - `PickFilter`, `LoadMore`, `ClickRetry`, `ClickClear`;
  `AnswerLoad`, `ShowPage`, `LoseLoad`; `ActRetry`, `ActClear`; `JobsElsewhere`.
* `DirectoriesPage` - `EditDir`, `TypeCard`, `SaveCard` and `PutDirectory`
  (`handleUpdateDirectory`); `StartAdd`, `TypeForm`, `TypeSettings`, `SaveForm`
  and `PostDirectories` (`handleBatchCreateDirectories`); `RemoveDir` and
  `DeleteDirectory`; `AnswerDirs`, `ShowDirs`, `LoseDirs`; `DirsElsewhere`.
* `LiveViews` - `OpenView`, `Leave`; `Connect`, `Receive`, `Break`; a load is
  `AnswerRunning`, `AnswerRest`, `ShowLoad` or `LoseView`; `StartSubmit`,
  `CreateJob`, `EnqueueDir`, `CancelJob`, `EndSubmit` and `Forget` are the Queue
  page's handlers; `AskStatus`, `ShowStatus`, `AskLog`, `ShowLog` the polls of
  the Dashboard, `TogglePause`, `ActPause`, `ScanNow`, `CancelRunning` its
  buttons; `Enqueue`, `Claim`, `Skip`, `FinishJob`, `PauseElsewhere`, `Restart`
  the worker and the others.
* `FolderPicker` - `OpenFiles`, `OpenDirectory`, `OpenRoot`; `FollowLink`,
  `BrowseFS` (`handleBrowseFS`), `ShowVisit`; `ToggleFile`, `ToggleAll`,
  `ClosePicker`; `ChangeRoots`.
* `ConfigFile` - `ApplyKey` changes one field in memory and `RefuseKey` refuses
  one; `ReadConf`, `TruncateConf`, `WriteConf` are `UpdateFile`; `PutElsewhere`
  is any other client, or the worker that pauses itself; `RestartServer` may
  happen between any two of these, and `Correct` is the operator's.
* `SettingsPage` - `Fetch`, `ShowForm`; one `Edit...` per kind of field; `Save`,
  `ShowSaved`, `ShowFailed`; `LeaveSettings`, `Stay`, `LeaveAnyway` with
  `useBlocker`'s dialog.
* `Session` - `AskPage`, `AnswerCall`, `DeliverPage`, `Refuse` are `request()`
  with `authMiddleware`; `SubmitLogin`, `AnswerLogin`, `DeliverLogin`;
  `ChangePassword`, `RemovePassword`, `AnswerPassword`; `Reload`,
  `PasswordElsewhere`, `NewTerm`.

`ClientPages` is the client: one part of it moves in a behaviour, chosen by the
initial state (`openPage`), and the others stand still at one of their initial
states (`StandsStill`). Pages share no state but the token and the badge, both
of which are with the part that writes them, and are mounted anew when the user
comes back; so what one part does is not changed by the others, and the
composition is a sum and not a product. The database tables are those of the
page, seen by it alone: that the worker stages or claims is an action of the
page's module, with the status changes that `JobQueue` and `Staging` allow and
no others.

Abstractions of the client: films, paths and folders are values; the settings of
a directory are one number (`Ages`, 0 included, which a request must not confuse
with "not given"); of the configuration one setting stands for those that are
handled alike; drawing, sorting, meters, progress and messages are left out,
except "Added to queue" and "Incorrect password"; a handler of a page that has
been left is not followed; one tab.

## 3. What is checked

| run | instance | states | shows |
|---|---|---|---|
| `QueueRaces` | 1 job, 2 goroutines, 2 requests, limits 0..3, both priorities, threshold 2, SIGTERM and crashes | 1.0 M | `TypeOK`, `SlotAccounting`, `RunningHasOwner`, `OneRunUnlessStale`, `ErrorOnlyAtThreshold` |
| `QueueSettles` | 2 jobs, 1 goroutine, 1 request, crashes, fairness | 164 k | `CancelReachesOwnJob`, `CancelledOnlyByUser`, `EveryJobSettles` |
| `StagingCustody` | 1 film, 2 jobs, 1 worker, 1 user, sweep, clearing, failing I/O, 1 crash | 1.8 M | `TypeOK`, `OriginalSurvives`, `RecordTellsWhere`, `CustodyKept` |
| `StagingWorkers` | 2 films, 2 workers, 1 user, sweep, fairness | 94 k | `OriginalSurvives`, `HeldIsTracked`, `CustodyKept`, `ExpiredAreSwept` |
| `IntakeScans` | 1 film, 3 names, the scheduler, 1 request, 3 rows, 2 contents, 1 crash, fairness | 222 k | `TypeOK`, `OneActiveRow`, `EncodesStayOut`, `DeservingIsQueued` |
| `ClientPages` | each page, picker and the login, bounds below | 2.6 M | `ClientTypeOK` and the properties of the client's modules |
| `ClientLive` | Dashboard with 2 waiting films, 1 load, 1 click, 1 fault, fairness | 512 k | `DashboardFollowsPause`, `LogFollowsJob` |
| `QueueClaim`, `QueueDrain`, `StagingTwins`, `StagingCrash`, `IntakeCleared` | the smallest that shows it | | a disagreement each, section 5 |

What the properties say, in words:

* `SlotAccounting` - the counter the loop compares is the number of goroutines,
  and stays within the clamp although it is read, compared and incremented in
  separate steps.
* `RunningHasOwner` - a row that says `running` is in the hands of the loop or
  of a goroutine that has yet to write its outcome. This is what makes it enough
  to reset `running` rows at start only.
* `OneRunUnlessStale` - two goroutines share a job, or one runs a job whose row
  says otherwise, only after an `UPDATE` that relied on a status the row no
  longer had. The unconditional `UPDATE`s are the only way to get there.
* `CancelReachesOwnJob`, `CancelledOnlyByUser` - a registered cancel function is
  that of a live goroutine with the job it is registered for, and nobody's job
  ends as "cancelled by user" unasked. Without SIGTERM: see section 5.
* `ErrorOnlyAtThreshold` - a job waits for an operator only after
  `fail_threshold` failures, through retries, crashes and clears.
* `OriginalSurvives`, `RecordTellsWhere`, `HeldIsTracked`, `CustodyKept` - the
  original is on disk until it is given up; an active record's original is held
  where it says, or back in place; what is held has a record (without crashes:
  section 5); a film never loses its last whole copy.
* `OneActiveRow` - a file waits or runs in one row at a time, unless somebody
  enqueued or retried it on an outdated status: looking at the latest row alone
  is enough.
* `EncodesStayOut` - no scan queues an output a row names, nor one that is being
  written, in the window between the rename and the `UPDATE` included.
* `RequestsNameWhatWasSeen`, `HiddenTicksAreSpent` - a row that is deleted or
  restored is the film its user saw there, and what is ticked but no longer
  listed can no longer be destroyed: ids are never given out twice, and a row
  leaves the list only when it is over.
* `QuietReviewIsTrue`, `QuietHistoryIsTrue`, `QuietDirectoriesAreTrue`,
  `QuietSettingsAreTrue` - when nothing is under way a page shows what the
  server has, for the history the first rows under the filter, each once and
  without a gap; unless another client changed it, a request failed, or answers
  overtook each other.
* `EditKeepsTheRest` - saving a card, which sends all its fields, changes none
  that its user left alone, if nobody else has edited that row.
* `RunningShownRuns`, `StreamEndsWithPage` - what the live pages show as running
  runs, but for a dropped event, a gap in the stream, a failed or overtaken
  load; the timer that reconnects opens no stream for a page that is gone.
* `SuccessMeansQueued` - after "Added to queue" every film that was asked for
  has a row, however the requests for several of them failed.
* `LinksLeadThere`, `LoadingEnds`, `TicksAreShown` - a picker ends at the folder
  of the last link followed, takes clicks again after the last answer, and
  queues only what is ticked in the list shown; the exceptions are an overtaken
  answer, a root "/", and "Select all" during a load.
* `FileIsMemory`, `FileStarts` - every setting that a request changed in memory
  is in the file after it, and the file starts the server at every moment of its
  being written; unless requests overlapped, one was refused half-way, or Plex
  was enabled without a token.
* `CleanMeansSaved` - a form that may be left without a question has sent every
  edit, those made during a save included, but for the token and the encoder,
  which the answer of a save overwrites.
* `GoodTokenIsKept` - inside the application, a token the server still accepts
  is never thrown away.
* `DashboardFollowsPause`, `LogFollowsJob` - in the end the Dashboard shows the
  pause as it is, and the log of the job it names, whatever late answers arrive.
* `EveryJobSettles`, `ExpiredAreSwept`, `DeservingIsQueued` - the liveness
  properties of the daemon.

**Why the bounds are enough.** A race in `JobQueue` needs one row and at most
two parties beside the loop: hence one job with two goroutines and two requests;
which job a request reaches needs two. `Requested` holds a value on each side of
every comparison. In `Staging` an original can be lost to a second attempt at
its film, so there are two jobs and three records; the user, the sweep and a
worker are the three parties that touch a record. In `Intake` a film goes
through three names and two contents (before and after its encode, or an edit),
and three rows let a restored film be queued again while an older row is still
there. That a cancel reaches its own job with two goroutines at once is proved
(section 4). `ExpiredAreSwept` is checked without a crash, because an original
whose record a crash prevented is never swept (`StagingCrash`). The names
bounded are `MaxRows`, `MaxVersion`, `MaxCrashes` and the sizes of `JobIds`,
`Jobs` and `Originals`. `Staging` and `Intake` turn the deadlock check off: with
these bounds every file and row may come to rest.

A page goes wrong by two handlers that overlap and one change made elsewhere, so
each page has two tasks and each may be hit by one change or fault.
`ClientPages` has two originals (`MaxOriginals`); three jobs (`MaxJobs`) with
pages of one (`PageSize`), so that there is a further page and an end, and one
change (`MaxChanges`); one directory with age 0 and one to be added (`MaxDirs`),
two paths, ages 0 and 7, and two handlers or changes (`MaxDirSteps`); one film
without a row, both live pages, two loads, one click (`MaxClicks`) and one lost
request, event, connection or process (`MaxFaults`); five folders under two
roots, one or none, and three requests of a picker (`MaxPicks`), so that one can
be overtaken by one that is itself not the last; two writers of the
configuration, two requests (`MaxPuts`) and two edits (`MaxEdits`); two
passwords and three terms (`MaxTerms`). Two tasks are interchangeable (`SYMMETRY
Alike`: they occur in no property by name), and states are compared by the part
that moves (`VIEW Moving`: the others are equal in all states that have the same
`openPage`). By part: review 1.4 M states, history 370 k, directories 49 k, live
pages 112 k, pickers 3 k, settings 661 k, session 2 k. That a second click on a
live page breaks no invariant is proved (section 4). `ClientLive` follows the
Dashboard with one load and one fault: liveness does not allow the symmetry, and
a second load adds only what the runs of `ClientPages` see already.

Beyond the bounds, and known: when outputs are enqueued as films of their own,
one worker can lose a film, and with two workers a crash, or a history that is
cleared, and a restore that is about to drop an output can replace a held
original, if the film has the extension of the encode. No run shows these two:
each needs an instance of its own beside the collision that `StagingTwins`
shows. They are why the theorems of section 4 have hypotheses.

**Fairness.** `JobQueue`: the loop (a timer), each goroutine (ffmpeg is assumed
to end), the end of a stopping process and its restart by a supervisor
(`scripts/sqzarr.service`). Users owe nothing. `EveryJobSettles` also assumes
that users are quiet and the queue not paused from some time on, for a client
may retry a job for ever. `Staging`: goroutines, requests that have begun, time,
and the hourly sweep. `Intake`: the scheduler keeps scanning; a triggered scan
and the worker owe nothing, and crashes are finitely many. `LiveViews`: the
timers of the two polls go off (`AskStatus`, `AskLog`), and what is asked is
answered and shown or given up (`ShowStatus`, `ShowLog`, the loads); events,
clicks and the worker owe nothing, and faults are bounded. A poll that fails
changes nothing and is asked again, so it is left out. The other parts of the
client are checked for safety only.

Every property of a passing run has a mutant in `PROJECT.json`: a definition
with a plausible mistake in it, under which the property fails.

## 4. What is proved

`JobQueueProofs`, for every set of jobs, goroutines and requests, every clamp,
threshold, set of requested limits and way to stop:

| theorem | statement |
|---|---|
| `TypeCorrect` | `Spec => []TypeOK` |
| `ConcurrencyBounded` | `Spec => []SlotAccounting` |
| `CancelsAreOwn` | `Spec => []CancelReachesOwnJob` |
| `RunsAreOwned` | `Spec => [](RunningHasOwner /\ OneRunUnlessStale)` |
| `ErrorsAreEarned` | `Spec => []ErrorOnlyAtThreshold` |
| `CancelsAreAskedFor` | `Spec => []CancelledOnlyByUser`, if the process is never told to stop |

`IntakeProofs`, for every directory, film, naming of outputs and temporary
files, set of scans and requests, and every bound:

| theorem | statement |
|---|---|
| `TypeCorrect` | `Spec => []TypeOK` |
| `EncodesAreLeftAlone` | `Spec => EncodesStayOut` |
| `FilmsHaveOneActiveRow` | `Spec => []OneActiveRow` |

`StagingProofs`, for every library, naming of outputs, set of jobs, records,
workers and requests, and any number of crashes:

| theorem | statement |
|---|---|
| `TypeCorrect` | `Spec => []TypeOK` |
| `OriginalsSurvive` | `NamesApart /\ Uncontested /\ Spec => []OriginalSurvives` |
| `RecordsTellWhere` | `NamesApart /\ Uncontested /\ Spec => []RecordTellsWhere` |

`CustodyProofs`, for the same, with any number of workers, or with one and any
number of crashes:

| theorem | statement |
|---|---|
| `OriginalsSurviveTogether` | `NamesApart /\ OutputsDiffer /\ Undisturbed /\ Spec => []OriginalSurvives` |
| `RecordsTellTogether` | the same hypotheses `=> []RecordTellsWhere` |
| `HeldStaysTracked` | the same and `~IOMayFail`, `=> []HeldIsTracked` |
| `StagingIsCustody` | the same hypotheses as the first, `=> CustodyKept` (`Safekeeping!Spec`) |
| `CustodyWhileNamesLast` | `NamesApart /\ OutputsDiffer /\ SingleWorker /\ Spec /\ []NamesLeft => CustodyKept` |
| `NamesNeverRunOut` | `NamesApart /\ OutputsDiffer /\ SingleWorker /\ Spec /\ []FewAttempts => []NamesLeft` |
| `CustodyThroughCrashes` | the same hypotheses `=> CustodyKept` |
| `CustodyWithFewJobs` | the same, with `FewJobs`, of the constants alone, for `[]FewAttempts` |
| `FilmsAreNotLost` | `=> []NoFilmLost`, under the hypotheses of `StagingIsCustody` or of `CustodyThroughCrashes` |

`SettingsProofs`, for every set of clients, and every bound on requests and
edits:

| theorem | statement |
|---|---|
| `SettingsTypes` | `SettingsSpec => [](ConfTypeOK /\ SettingsTypeOK)` |
| `FileFollowsMemory` | `SettingsSpec => []FileIsMemory` |
| `WrittenFilesStart` | `SettingsSpec => []FileStarts` |
| `NothingIsLost` | `SettingsSpec => []CleanMeansSaved` |
| `FormsAreCurrent` | `SettingsSpec => []QuietSettingsAreTrue` |

`SessionProofs`, for every set of passwords and requests, and any number of
terms:

| theorem | statement |
|---|---|
| `SessionTypes` | `SessionSpec => []SessionTypeOK` |
| `SessionsLast` | `SessionSpec => GoodTokenIsKept` |

`ReviewProofs`, for every set of handlers under way and every bound on
originals:

| theorem | statement |
|---|---|
| `ReviewTypes` | `ReviewSpec => []ReviewTypeOK` |
| `RequestsAreMeant` | `ReviewSpec => []RequestsNameWhatWasSeen` |
| `HiddenTicksAreNothing` | `ReviewSpec => []HiddenTicksAreSpent` |
| `QuietIsTrue` | `ReviewSpec => []QuietReviewIsTrue` |

`PagesProofs`, for every set of tasks, paths, folders, lists of roots, films and
jobs, every page size and every bound on clicks, changes and faults:

| theorem | statement |
|---|---|
| `DirectoriesTypes` | `DirSpec => []DirTypeOK` |
| `QuietDirectories` | `DirSpec => []QuietDirectoriesAreTrue` |
| `EditsKeepTheRest` | `DirSpec => EditKeepsTheRest` |
| `PickerTypes` | `PickerSpec => []PickerTypeOK` |
| `LoadingIsLoading` | `PickerSpec => []LoadingEnds` |
| `TicksAreOfTheList` | `PickerSpec => []TicksAreShown` |
| `LinksLeadToFolders` | `PickerSpec => []LinksLeadThere`, if "/" is in no list of roots |
| `LiveTypes` | `LiveSpec => []LiveTypeOK` |
| `RunningRuns` | `LiveSpec => []RunningShownRuns` |
| `SaidIsQueued` | `LiveSpec => []SuccessMeansQueued` |
| `StreamsEnd` | `LiveSpec => []StreamEndsWithPage` |
| `HistoryTypes` | `HistorySpec => []HistoryTypeOK` |
| `QuietHistory` | `HistorySpec => []QuietHistoryIsTrue` |
| `PagesAreApart` | `ClientSpec` implies the specification of each page it composes, fairness included |
| `ClientTypes` | `ClientSpec => []ClientTypeOK` |
| `ClientLists` | `ClientSpec => []` of the invariants of review, history, directories and picker above, without links |
| `ClientForms` | `ClientSpec => []` of the invariants of the settings and of the configuration |
| `ClientSteps` | `ClientSpec => EditKeepsTheRest /\ GoodTokenIsKept` |
| `ClientLiveViews` | `ClientSpec => []` of the invariants of the live pages |

Assumptions: the named `ASSUME`s of the modules and the hypotheses written out.
`JobQueue`: finitely many goroutine names, at least as many as the clamp allows;
a clamp and a threshold of at least 1; integers as requested limits, natural
numbers as priorities. `Intake`: outputs and temporary files have names that no
film has; no name is the name of no file; the films fit in the bound on
contents. They do not say that two films have outputs of different names.
`NamesApart` says that no output of a film has the name of a film, but for its
own where it has the extension of the encode already, and that the fallback name
is another than the film's; `OutputsDiffer`, that no two films share an output
name; `SingleWorker`, that there is one goroutine; `Uncontested`, that there is
one or that no film has its own name among its outputs, which is to say that it
has another extension than the encode; `Undisturbed`, that the process does not
die and nobody clears the history. None of them is more than the code needs:
without `NamesApart` an encode replaces the next film's source, without
`OutputsDiffer` two workers at one time lose a film (`StagingTwins`), and
without `Undisturbed` or `Uncontested` two workers and a restore can (section
3); `HeldIsTracked` fails after a failing insert or a crash (`StagingCrash`).
`NamesLeft` says that `OutputPath` finds a free name: the code tries a hundred
and then takes `_out`, taken or not (`rename.go:34-48`), and the output that
lies under it is replaced. What is assumed of the world is `FewAttempts`: no
film has been enqueued more often, the crashes counted with it, than it has
output names. `FewJobs` says it of the constants: as many names as jobs and
crashes; `StagingCustody` has three names, two jobs and a crash. Of the client,
the picker's folders are finite sequences of names, with every parent and "/"
among them; that "/" is no root of the library is a hypothesis because the code
needs it (section 5).

The argument for `JobQueue`. `TypeOK` is not inductive: that the row selected by
the loop, the job of a goroutine and the job of a request are jobs at all
follows only where the program counter says that there is one, and that a dead
process has no goroutine is needed when it starts again. That is `Shape`;
`TypeOK /\ Shape` is inductive. `SlotAccounting` carries its own strengthening
(while the loop is between the comparison and the start there is room for one
more) and rests on the cardinality of `Live` growing and shrinking by one
(`SpawnStep`, `ReleaseStep`). `CancelReachesOwnJob` is inductive with these.
`RunningHasOwner` and `OneRunUnlessStale` are inductive only together: the first
says that the owner of a running row exists, the second that there is no other,
and a step that writes an outcome (`OutcomeStep`) needs both. Writes by those
who own nothing - handlers and the skipping loop - are `OutsideWrite`, where
`stale` takes note of the ones that hit a row somebody runs; claiming and
spawning are `ClaimStep` and `SpawnOwners`.

`ErrorOnlyAtThreshold` needs two facts more. `Born`: whoever holds a job - loop,
goroutine, request - holds a row that has been inserted, so that inserting a row
resets nobody's count. `Judged`: a goroutine that has decided to give up read a
count at the threshold, and no step takes it down again (`ThresholdKept`).
`CancelledOnlyByUser` rests on `CancelReachesOwnJob`, and on `Wanted`: a
goroutine's context is done, and a handler is about to signal, only for a job
whose cancellation somebody asked for.

The argument for `Intake`. `Shape` plays the same part; `WorkerRow` says that
the row of the worker is running and is the row of the film in its hands, which
holds because users and scans leave running rows alone (`WorkerRowKept`).
`EncodesStayOut` speaks of one instant, the insert, and of a file statted four
statements earlier; what carries it over the gap is `EncodesInv`. `Unripe`: the
encode of the running job is younger than the rules allow. `Apart`: no row names
a film's own name as output, and what is held belongs to a film. `Looked`: a
scan that is about to insert holds a ripe version, and if that is still what the
name stands for, no row has it as output. A row comes to name only the encode
just placed (`NewOutputs`), which is not ripe, so it is not the file in hand; a
content that appears under an output name is new or comes from the temporary
file (`NewContents`), so it is not the version in hand either. `OneActiveRow`
counts; its invariant `LatestOnly` says that only the latest row of a film can
be active. A retry that is not of the latest row is in `overlapped`; an insert
on a status that is still the current one finds the latest row inactive, and by
`LatestOnly` with it all others (`InsertKeepsLatest`); every other step wakes no
row (`SettlingKeeps`).

The argument for `Staging`. `Typed` is `TypeOK` with `Shape` (who is at work
works on a row, record and name that exist), and holds whatever happens. `Safe`
carries the originals: `Places`, the original bytes of a name lie under it or
are held, never both; `Kept`, they are in one of the two places until a review
gives them up; `AtWork`, the worker has its film before it if the film's own
name is an output, gives the output another name, and from the move on knows
what it moved; `Recorded`, a record stands for the original bytes of its path.
`SafeStep` has one lemma per kind of action; those that can lose a film are
`Place` (`PlaceSafe`: the renamed output covers no film, by `NamesApart`),
`Hold`, and the moves and removals of a review (`ReviewSafe`). That `OutputPath`
finds a free name if there is one is `OutputNames`, which needs that a set of
numbers up to a bound has a least one (`Least`).

`Safe` needs of `Uncontested` only that no two workers are, before its move, at
one film whose own name is an output (`AloneInPlace`). A film with another
extension may be in several hands, as after a crash: the second move finds
nothing to move, and the output it takes away is none of the originals. What
such a film loses is its copies, so the refinement needs more: that nobody else
is at a worker's film (`Alone`), which keeps the film before him (`Facing`).
With several workers that follows from `Rows`: of the rows of one path only the
latest is pending or worked on, by one worker, and it has no record before that
worker writes it; a row has one record (`RowsAlone`). `Recs` matches records,
reviews and rows: a held film's latest row is at rest, an active record is of
the latest row, and one review at a time is undoing a film. `Copies` says where
encodes lie: under output names of their own film alone, at least one while the
original is held, and one when a worker comes to move the original. `Inv` is
`Typed`, `Safe`, `Facing`, `Rows`, `Recs` and `Copies`, with nothing being
cleared. `Undisturbed` is what keeps a row from being run again when it has a
record, and a path from being enqueued beside its held original.
`HeldStaysTracked` follows a held film from the move to its record and from its
review to the end (`ClosingStep`, `TrackedStep`). For the refinement,
`WhatIsFound` computes the copies of each film from the invariant, and
`KeepsStep` maps each action: `Place` adds a copy, a restore that drops an
output or a deletion removes one of a film that has two, a move between library
and processed directory none, and every other step changes no file
(`NoFileMoves`).

With crashes and a history that is cleared `Rows` and `Recs` are lost: a row is
run again although it has a record, a film is enqueued while it is held, and a
restore that is about to drop an output may outlive the run whose output that
was. What remains is a balance. `Due` is the set of those who count on a copy of
a film: a worker that has placed its output and not moved the original yet, a
restore that has put the original back and is about to drop a copy, and the film
itself while its original is not in the library. `CopiesOf` is the set of names
a copy lies under, and `Covered` says that the second set is at least as large
as the first (`Enough`). A step that adds somebody adds a copy or takes somebody
away: the placing worker brings its copy, the move of the original is the
worker's claim become the film's own, and a restore's move is the film's claim
become the restore's. That the copy placed is a new one is `Fresh`: the worker's
name is still free when it renames, because nobody else places anything in
between, which is where one worker is needed. `Accounted` is `Typed`, `Safe`,
`Facing`, `Filed` (a temporary file is an encode of its film), `Fresh` and
`Covered`, and is inductive as long as `NamesLeft`. That this holds is `Budget`:
the copies of a film, with one for a run that is under way, are no more than its
rows that have been claimed and the crashes so far, because a run leaves at most
one copy, a row is claimed once but for a crash, and one worker runs one row at
a time (`Manned`). So a film enqueued no more often than it has names has one
left, and `CustodyThroughCrashes` is the two theorems together.
`FilmsAreNotLost` follows from `Custody` alone, no step of which leaves a film
without a file.

The argument for the settings. `PutShape` says at which statement a request is
and what it has done; `Alone`, that without an overlap one request at a time is
under way, so that what it has read of the file is still so; `Agree`, that
memory and file differ in the fields it has changed so far; `Starts`, that the
file, and the one about to be written, are valid. These make up `ConfInv`, and
are inductive together: `Starts` needs `Agree` at the write, and `Agree` needs
`Alone`. The page adds `PageShape`, `Unsent` (an edit that no request carried
differs from the last answer, so the form is dirty) and `Current` (the last
answer differs from memory in what is under way). Steps of other clients keep
the page's part, and steps of the page the server's, so most leaves are one
frame lemma.

The argument for the session. `TokensAreIssued`: no token is of a later term
than the server's, and one that was refused is of an earlier term. `OneSession`:
inside the application every request under way carries the token in
`localStorage`, because logging out leaves the document and every request with
it; `IdleIsNone`: a free task asks nothing. A refusal that arrives therefore
refuses the token it removes; a wrong current password is answered 403, not 401.

The argument for the review page. `Queue`: a task is among the answers under way
while its answer is, and once, so that two of them have an order and the arrival
of one changes the order of no others (`LeavingOrder`, `Ordered`). `Numbered`: a
held film has the number of its row, and so has every row the page names, which
with ids that are never used again is `RequestsNameWhatWasSeen`. For the ticks,
`Succession` says that a later list has what an earlier one has and is still
held, and `Fuller` that a list none has overtaken has whatever is shown or
ticked and still held; when it is shown, no tick that matters is lost. For the
quiet page, `Fresh`, of the list and of the number: unless a read is still to
come or a change was made elsewhere, the newest answer is that of the table, and
what is shown is, once all that is under way has been overtaken. When all
handlers have ended nothing is under way, and a list has one row per original
(`Counting`). A step with neither a read nor an answer of a kind leaves that
kind alone (`FreshKept`).

The argument for the other pages. Directories: an answer that is not old is the
table, and what is shown is the table or a list that is not old is still to come
(`DirsAreFresh`); a card holds what its user left alone as it was read. History:
a page that was read since the last change is the table's (`ReadsAreTrue`), and
the rows shown are the first ones of its filter (`ShownRowsAreTrue`), since two
consecutive pages of a sequence make a longer one. That `Matching` is a sequence
at all, each row once, holds because a row is placed by the number of newer
ones, which is an injection and so takes every rank. Picker: one visit of the
file picker is under way at most (`OneVisit`), which is what keeps the ticks to
the list; a followed link is read, because a folder between a root and a folder
under it is under that root. Live pages: a load tells the truth or is marked
old; a job that has ended and is shown as running has its event in the stream, a
load under way that will take it away, or an event missed (`ShownIsTrue`);
`SentIsQueued` says of which films an answer may speak. `PagesAreApart` maps
every step of the client to a step of one page and a stutter of the others, as
each page has variables of its own, so what is proved of a page holds of the
client: `PagesProofs` extends the proofs of review, settings and session, and
`ClientTypes`, `ClientLists`, `ClientForms` and `ClientSteps` say together what
the run `ClientPages` checks. The live pages, which ask for no fairness in the
composition, have their invariant proved for it directly.

Every invariant and every action property of a passing run is stated by a
theorem, and `NoFilmLost`, which `StagingTwins` refutes, by one with the
hypothesis that the run does without. Only model-checked: the five liveness
properties (`EveryJobSettles`, `ExpiredAreSwept`, `DeservingIsQueued`,
`DashboardFollowsPause`, `LogFollowsJob`), which are out of the prover's reach.
Nothing that is proved needs induction over data or a recursive operator.

## 5. Where the code and its documents disagree

Shown by a run:

* `QueueClaim` - "Claim the job atomically before spawning" (`worker.go:211`):
  the claim is an unconditional `UPDATE` of a row selected earlier, and runs a
  job that was cancelled in between.
* `QueueDrain` - "SIGTERM → drain current job → exit"
  (`docs/architecture.md:109`): the contexts of the encodes are cancelled and
  nobody waits for them.
* `StagingTwins` - "Never corrupt or lose a file" (`docs/architecture.md:12`):
  `m.mkv` and `m.avi`, encoded at one time, choose the same output name; the
  second replaces the first, whose original may then be given up.
* `StagingCrash` - "You can restore any file within that window"
  (`README.md:267`): after a crash between moving the original and recording it,
  no record names it.
* `IntakeCleared` - "cleared files will NOT be re-queued by the scanner"
  (`db/jobs.go:235`): the memory of a staged film is kept under the path of its
  source; its encode is known by `jobs.output_path` alone, which clearing
  removes.

Met while modelling, without a run of their own:

* `handlers.go:181` answers "cancelled" although the worker may have claimed the
  row meanwhile; on SIGTERM, jobs that were under way read "cancelled by user"
  (`worker.go:255`).
* Clearing the history removes the records of originals that are still held, so
  they can be neither restored nor swept (`db/jobs.go:236`, `README.md:267`).
* `scan-once --dry-run` enqueues (`main.go:189`, `README.md:205`).
* `POST /scan` may end with its request and is recorded as a completed scan all
  the same (`handlers.go:610-615`, `scheduler.go:63`).
* The comment at `scanner.go:145` says that errored files are queued again;
  `handleFailure` writes a `processed_files` record that keeps them out.
* `UpdateFile` "preserves all other content" (`config/update.go:30`), but two at
  a time lose one update, and a crash may leave the file empty; an empty file is
  accepted and means the defaults.
* The pause survives a restart (`README.md:251`) unless two writers overlap, or
  the worker's own pause is still an event on its way (`server.go:91-93`).
* "Amber banner at the top of every page" (`README.md:251`): the layout reads
  the status when it is mounted and not again (`Layout.tsx:30-34`); the
  Dashboard polls.
* Copied directory settings (`README.md:245`): a batch turns each zero into the
  default (`handlers.go:472`), where an edit keeps it.
* `handlers.go:1224`, the roots are a ceiling: with "/" as a root nothing is
  under it, since `"/" + "/"` starts no path, and every folder asked for is
  answered by another.
* "Select all" while another folder is loading ticks, and may queue, the files
  of the folder before (`Queue.tsx`, `toggleAll`).
* `plex_enabled` is accepted without a token and refused by `validate` at the
  next start (`handlers.go:942`). A request that is refused half-way leaves a
  token in memory that the file has not, with the same result later.
* Saving the settings sends the whole form, and so takes back what another
  client changed since it was opened.
* "Incorrect password" is what the login page says of any error, a lost
  connection included.

## 6. What is not modelled

* Within the modelled parts of the daemon: the log buffer of a job (dropped half
  a minute after its end, `worker.go:231`), database statements that fail, the
  verifier's numbers, ffmpeg's arguments and progress, scan runs, names that
  collide in `temp_dir`, directories deeper than one level, rows of one path
  inserted in one second (`jobs.go:302`).
* Within the configuration: the streak of failures that trips the pause, which
  is a free choice here; the ranges of numbers; the concurrency limit beside the
  file (`handlers.go:891`); comments and layout of the file.
* Within the client: the page of savings, the banner, everything that only
  draws, the error texts, several tabs, and the bundle under `frontend_dist`,
  which is built from the source that is modelled.
* Of the event hub, its two queues: an event is delivered, or lost.
* Whole parts, planned: the scheduler's timing.
* Whole parts, left aside: routing and JSON helpers (no state); statistics and
  scan runs (nothing reads them back); the Plex notifier (one request, whose
  failure is ignored); logger, build and service scripts.

## 7. Plan

Done:

1. `JobQueue` and its runs; `JobQueueProofs`: types, slots, cancels, owners,
   thresholds.
2. `Staging` implementing `Custody`, and its runs; `StagingProofs` and
   `CustodyProofs`: types, originals, records, and the refinement, with several
   workers undisturbed and with one through crashes.
3. `Intake` and its runs; `IntakeProofs`: types, encodes, active rows.
4. The client, part by part, and `ClientPages`; `ConfigFile` under
   `SettingsPage` is the daemon's half of the settings; `SettingsProofs`,
   `SessionProofs`, `ReviewProofs` and `PagesProofs`, which ends with the whole
   client.

Left, in order:

5. `Scheduler`: the loop, the one-place channel, `SetInterval` while a scan runs
   (`scheduler.go:50`). Property: the interval set last is the one the next wait
   uses.
6. `EventHub`: the bounded channel and queues under `LiveViews`; a client never
   blocks the worker, events reach a client in order, shutdown ends every
   stream.
7. The streak of failures as a function over a sequence of outcomes, checked
   against its definition up to the threshold and beyond 20 rows.
8. `Naming` and `Verdict`: `OutputPath`, the temporary name, `Verify`'s order of
   checks and the bitrate rule as operators over small inputs; a second naming
   in `Staging` for `temp_dir`, and statements that fail.
