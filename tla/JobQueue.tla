------------------------------ MODULE JobQueue ------------------------------
(***************************************************************************)
(* The job queue of sqzarr: the jobs table, the worker loop that claims    *)
(* pending rows and starts a goroutine for each (internal/queue/worker.go),*)
(* the goroutines themselves, and the HTTP handlers that cancel, retry,    *)
(* enqueue and clear rows while all of that runs (internal/api).           *)
(*                                                                         *)
(* The database has one connection (db.go, SetMaxOpenConns(1)), so one SQL *)
(* statement is one step; a function that runs two statements is two.      *)
(* Every status write is UPDATE ... WHERE id = ?: it looks at no earlier   *)
(* status and does nothing when the row has been deleted.                  *)
(***************************************************************************)
EXTENDS Integers, FiniteSets

CONSTANTS
    JobIds,         \* ids the jobs table may hand out, in creation order
    Slots,          \* names for the goroutines alive at one time
    Clients,        \* HTTP requests being served at one time
    MaxConcurrency, \* the clamp of SetConcurrency and of config.validate (8)
    Requested,      \* worker_concurrency values a settings request may carry
    Priorities,     \* jobs.priority: 0 from the scanner, 1 from the user
    FailThreshold,  \* safety.fail_threshold (values below 1 count as 1)
    Stops           \* how the process may end: a subset of {"sigterm", "crash"}

NoJob  == 0
CONSTANT NoSlot     \* no cancel function is registered

ASSUME JobIdsAssumption == JobIds \subseteq Nat \ {NoJob}
ASSUME SlotsAssumption == IsFiniteSet(Slots) /\ NoSlot \notin Slots
ASSUME EnoughSlots == Cardinality(Slots) >= MaxConcurrency
ASSUME LimitAssumption == MaxConcurrency \in Nat \ {0}
ASSUME PrioritiesAssumption == 0 \in Priorities /\ Priorities \subseteq Nat
ASSUME RequestedAssumption == Requested \subseteq Int
ASSUME ThresholdAssumption == FailThreshold \in Nat \ {0}
ASSUME StopsAssumption == Stops \subseteq {"sigterm", "crash"}

VARIABLES
    status,         \* jobs.status, or why there is no such row
    priority,       \* jobs.priority
    failCount,      \* jobs.fail_count, counted no further than FailThreshold
    tick,           \* where the worker loop is
    sel,            \* the row NextPendingJob returned to it
    stage,          \* per goroutine: how far processJob is
    runJob,         \* per goroutine: its job
    cancelled,      \* per goroutine: its context is done
    cancels,        \* Worker.cancels: the goroutine whose cancel func is kept
    activeJobs,     \* Worker.activeJobs
    maxConcurrency, \* Worker.maxConcurrency
    paused,         \* Worker.paused
    request,        \* per client: what its handler has read and is about to do
    proc,           \* the process: running, told to stop, or gone
    asked,          \* history: jobs some user's cancel request acted on
    stale           \* history: jobs whose status was overwritten on the
                    \* strength of an earlier status, no longer the row's

rowVars    == <<status, priority, failCount>>
tickVars   == <<tick, sel>>
runVars    == <<stage, runJob, cancelled>>
workerVars == <<cancels, activeJobs, maxConcurrency, paused>>
userVars   == <<request, asked>>
vars == <<rowVars, tickVars, runVars, workerVars, userVars, proc, stale>>

Terminal == {"done", "staged", "failed", "cancelled", "skipped",
             "excluded", "error", "restored"}
NoRow    == {"unborn", "cleared"}
Statuses == {"pending", "running"} \cup Terminal \cup NoRow

Stages == {"free", "encoding", "finishing", "counted", "giveup", "refail",
           "tripping", "leaving", "unregistered"}

\* The goroutine has yet to write the outcome of its job to the row.
Undecided == {"encoding", "finishing", "counted", "giveup", "refail"}

Idle == [op |-> "none", job |-> NoJob]
Requests == [op : {"none", "cancelRow", "signal", "retry"},
             job : JobIds \cup {NoJob}]

Live == {s \in Slots : stage[s] # "free"}

\* UPDATE jobs SET status = st WHERE id = j
SetStatus(j, st) ==
    status' = IF status[j] \in NoRow THEN status ELSE [status EXCEPT ![j] = st]

\* Is the status this write relies on still the row's?
NoteStale(j, expected) ==
    stale' = IF status[j] \in expected THEN stale ELSE stale \cup {j}

\* Mutant of Clamp: no upper limit.
ClampBelow(n) == IF n < 1 THEN 1 ELSE n

Clamp(n) == IF n < 1 THEN 1
            ELSE IF n > MaxConcurrency THEN MaxConcurrency ELSE n

\* ORDER BY priority DESC, created_at ASC LIMIT 1
IsNextPending(j) ==
    /\ status[j] = "pending"
    /\ \A k \in JobIds : status[k] = "pending" =>
          \/ priority[k] < priority[j]
          \/ priority[k] = priority[j] /\ j <= k

-----------------------------------------------------------------------------
Init ==
    /\ status = [j \in JobIds |-> "unborn"]
    /\ priority = [j \in JobIds |-> 0]
    /\ failCount = [j \in JobIds |-> 0]
    /\ tick = "idle"
    /\ sel = NoJob
    /\ stage = [s \in Slots |-> "free"]
    /\ runJob = [s \in Slots |-> NoJob]
    /\ cancelled = [s \in Slots |-> FALSE]
    /\ cancels = [j \in JobIds |-> NoSlot]
    /\ activeJobs = 0
    /\ maxConcurrency \in 1..MaxConcurrency
    /\ paused \in BOOLEAN
    /\ request = [c \in Clients |-> Idle]
    /\ proc = "up"
    /\ asked = {}
    /\ stale = {}

-----------------------------------------------------------------------------
(* The worker loop. *)

\* The 5 s timer fires; a paused worker goes straight back to waiting.
TickStart ==
    /\ proc = "up"
    /\ tick = "idle"
    /\ ~paused
    /\ tick' = "loop"
    /\ UNCHANGED <<rowVars, sel, runVars, workerVars, userVars, proc, stale>>

\* Mutant of TickRoom: one goroutine too many.
TickRoomOffByOne ==
    /\ tick = "loop"
    /\ tick' = IF activeJobs > maxConcurrency THEN "idle" ELSE "pick"
    /\ UNCHANGED <<rowVars, sel, runVars, workerVars, userVars, proc, stale>>

\* Top of the loop: is there room for one more goroutine?
TickRoom ==
    /\ tick = "loop"
    /\ tick' = IF activeJobs >= maxConcurrency THEN "idle" ELSE "pick"
    /\ UNCHANGED <<rowVars, sel, runVars, workerVars, userVars, proc, stale>>

TickPick ==
    /\ tick = "pick"
    /\ \/ \E j \in JobIds : IsNextPending(j) /\ sel' = j /\ tick' = "picked"
       \/ /\ \A j \in JobIds : status[j] # "pending"
          /\ tick' = "idle" /\ UNCHANGED sel
    /\ UNCHANGED <<rowVars, runVars, workerVars, userVars, proc, stale>>

\* hasTempSpace says no, or could not stat the source: skip and look again.
TickSkip ==
    /\ tick = "picked"
    /\ NoteStale(sel, {"pending"})
    /\ SetStatus(sel, "skipped")
    /\ tick' = "loop" /\ sel' = NoJob
    /\ UNCHANGED <<priority, failCount, runVars, workerVars, userVars, proc>>

TickClaim ==
    /\ tick = "picked"
    /\ NoteStale(sel, {"pending"})
    /\ SetStatus(sel, "running")
    /\ tick' = "claimed"
    /\ UNCHANGED <<priority, failCount, sel, runVars, workerVars, userVars,
                   proc>>

\* The context is a child of the process's: it is born done during shutdown.
TickSpawn ==
    /\ tick = "claimed"
    /\ \E s \in Slots :
          /\ stage[s] = "free"
          /\ stage' = [stage EXCEPT ![s] = "encoding"]
          /\ runJob' = [runJob EXCEPT ![s] = sel]
          /\ cancelled' = [cancelled EXCEPT ![s] = (proc = "stopping")]
          /\ cancels' = [cancels EXCEPT ![sel] = s]
    /\ activeJobs' = activeJobs + 1
    /\ tick' = "loop" /\ sel' = NoJob
    /\ UNCHANGED <<rowVars, maxConcurrency, paused, userVars, proc, stale>>

Tick == TickStart \/ TickRoom \/ TickPick \/ TickSkip \/ TickClaim \/ TickSpawn

-----------------------------------------------------------------------------
(* One goroutine: processJob and the deferred clean-up around it. *)

\* A cancelled ffmpeg may still have finished in time.
EncodeOk(s) ==
    /\ stage[s] = "encoding"
    /\ stage' = [stage EXCEPT ![s] = "finishing"]
    /\ UNCHANGED <<rowVars, tickVars, runJob, cancelled, workerVars,
                   userVars, proc, stale>>

\* Mutant of EncodeCancelled: any ffmpeg failure is taken for a cancel.
EncodeCancelledUnasked(s) ==
    /\ stage[s] = "encoding"
    /\ SetStatus(runJob[s], "cancelled")
    /\ stage' = [stage EXCEPT ![s] = "leaving"]
    /\ UNCHANGED <<priority, failCount, tickVars, runJob, cancelled,
                   workerVars, userVars, proc, stale>>

EncodeCancelled(s) ==
    /\ stage[s] = "encoding"
    /\ cancelled[s]
    /\ SetStatus(runJob[s], "cancelled")
    /\ stage' = [stage EXCEPT ![s] = "leaving"]
    /\ UNCHANGED <<priority, failCount, tickVars, runJob, cancelled,
                   workerVars, userVars, proc, stale>>

\* Mutant of Fail: the row says "failed" before the failure is judged.
FailMarksFirst(s) ==
    /\ \/ stage[s] = "encoding" /\ ~cancelled[s]
       \/ stage[s] = "finishing"
    /\ SetStatus(runJob[s], "failed")
    /\ stage' = [stage EXCEPT ![s] = "counted"]
    /\ UNCHANGED <<failCount, priority, tickVars, runJob, cancelled,
                   workerVars, userVars, proc, stale>>

\* A failed encode, verification, rename or move enters handleFailure, whose
\* first statement is UPDATE jobs SET fail_count = fail_count + 1. The context
\* is looked at after ffmpeg only, never once the output is being finished.
Fail(s) ==
    /\ \/ stage[s] = "encoding" /\ ~cancelled[s]
       \/ stage[s] = "finishing"
    /\ failCount' = [failCount EXCEPT ![runJob[s]] =
                        IF status[runJob[s]] \in NoRow \/ @ = FailThreshold
                        THEN @ ELSE @ + 1]
    /\ stage' = [stage EXCEPT ![s] = "counted"]
    /\ UNCHANGED <<status, priority, tickVars, runJob, cancelled,
                   workerVars, userVars, proc, stale>>

\* Mutant of Judge: gives up one failure early.
JudgeEarly(s) ==
    /\ stage[s] = "counted"
    /\ stage' = [stage EXCEPT ![s] =
                    IF failCount[runJob[s]] + 1 >= FailThreshold
                    THEN "giveup" ELSE "refail"]
    /\ UNCHANGED <<rowVars, tickVars, runJob, cancelled, workerVars, userVars,
                   proc, stale>>

\* The SELECT of IncrementFailCount and the comparison with the threshold.
Judge(s) ==
    /\ stage[s] = "counted"
    /\ stage' = [stage EXCEPT ![s] =
                    IF failCount[runJob[s]] >= FailThreshold
                    THEN "giveup" ELSE "refail"]
    /\ UNCHANGED <<rowVars, tickVars, runJob, cancelled, workerVars,
                   userVars, proc, stale>>

\* I/O failures end as "error", all others as "excluded".
GiveUp(s) ==
    /\ stage[s] = "giveup"
    /\ \E st \in {"error", "excluded"} : SetStatus(runJob[s], st)
    /\ stage' = [stage EXCEPT ![s] = "tripping"]
    /\ UNCHANGED <<priority, failCount, tickVars, runJob, cancelled,
                   workerVars, userVars, proc, stale>>

Refail(s) ==
    /\ stage[s] = "refail"
    /\ SetStatus(runJob[s], "failed")
    /\ stage' = [stage EXCEPT ![s] = "tripping"]
    /\ UNCHANGED <<priority, failCount, tickVars, runJob, cancelled,
                   workerVars, userVars, proc, stale>>

\* ConsecutiveFailCount may pause the whole worker; which failures count is
\* the subject of another module.
Trip(s) ==
    /\ stage[s] = "tripping"
    /\ paused' \in {paused, TRUE}
    /\ stage' = [stage EXCEPT ![s] = "leaving"]
    /\ UNCHANGED <<rowVars, tickVars, runJob, cancelled, cancels, activeJobs,
                   maxConcurrency, userVars, proc, stale>>

\* The output is verified, renamed, the original held, and the row written:
\* staged, or excluded when the output is no smaller than the source.
Finish(s) ==
    /\ stage[s] = "finishing"
    /\ \E st \in {"staged", "excluded"} : SetStatus(runJob[s], st)
    /\ stage' = [stage EXCEPT ![s] = "leaving"]
    /\ UNCHANGED <<priority, failCount, tickVars, runJob, cancelled,
                   workerVars, userVars, proc, stale>>

\* Mutant of Unregister: the cancel function is left behind.
UnregisterForgets(s) ==
    /\ stage[s] = "leaving"
    /\ stage' = [stage EXCEPT ![s] = "unregistered"]
    /\ UNCHANGED <<rowVars, tickVars, runJob, cancelled, workerVars, userVars,
                   proc, stale>>

\* defer: jcancel(); delete(w.cancels, j.ID), whoever's entry that is by now.
Unregister(s) ==
    /\ stage[s] = "leaving"
    /\ cancels' = [cancels EXCEPT ![runJob[s]] = NoSlot]
    /\ stage' = [stage EXCEPT ![s] = "unregistered"]
    /\ UNCHANGED <<rowVars, tickVars, runJob, cancelled, activeJobs,
                   maxConcurrency, paused, userVars, proc, stale>>

\* defer: activeJobs.Add(-1), and the goroutine is gone.
Release(s) ==
    /\ stage[s] = "unregistered"
    /\ activeJobs' = activeJobs - 1
    /\ stage' = [stage EXCEPT ![s] = "free"]
    /\ runJob' = [runJob EXCEPT ![s] = NoJob]
    /\ cancelled' = [cancelled EXCEPT ![s] = FALSE]
    /\ UNCHANGED <<rowVars, tickVars, cancels, maxConcurrency, paused,
                   userVars, proc, stale>>

Run(s) == \/ EncodeOk(s) \/ EncodeCancelled(s) \/ Fail(s) \/ Judge(s)
          \/ GiveUp(s) \/ Refail(s) \/ Trip(s) \/ Finish(s)
          \/ Unregister(s) \/ Release(s)

-----------------------------------------------------------------------------
(* The HTTP handlers. Each reads the row, then acts on what it has read.    *)

Ask(c, op, j) ==
    /\ proc # "down"
    /\ request[c] = Idle
    /\ request' = [request EXCEPT ![c] = [op |-> op, job |-> j]]
    /\ UNCHANGED <<rowVars, tickVars, runVars, workerVars, asked, proc, stale>>

CancelRead(c, j) ==
    \/ status[j] = "pending" /\ Ask(c, "cancelRow", j)
    \/ status[j] = "running" /\ Ask(c, "signal", j)

\* The row was pending when it was read.
CancelRow(c) ==
    /\ request[c].op = "cancelRow"
    /\ NoteStale(request[c].job, {"pending"})
    /\ SetStatus(request[c].job, "cancelled")
    /\ asked' = asked \cup {request[c].job}
    /\ request' = [request EXCEPT ![c] = Idle]
    /\ UNCHANGED <<priority, failCount, tickVars, runVars, workerVars, proc>>

\* The row was running when it was read: Worker.CancelJob finds a cancel func,
\* or the handler answers 409.
Signal(c) ==
    /\ request[c].op = "signal"
    /\ LET j == request[c].job IN
       IF cancels[j] = NoSlot
       THEN UNCHANGED <<cancelled, asked>>
       ELSE /\ cancelled' = [cancelled EXCEPT ![cancels[j]] = TRUE]
            /\ asked' = asked \cup {j}
    /\ request' = [request EXCEPT ![c] = Idle]
    /\ UNCHANGED <<rowVars, tickVars, stage, runJob, workerVars, proc, stale>>

RetryRead(c, j) ==
    /\ status[j] \in {"failed", "cancelled"}
    /\ Ask(c, "retry", j)

RetryRow(c) ==
    /\ request[c].op = "retry"
    /\ NoteStale(request[c].job, {"failed", "cancelled"})
    /\ SetStatus(request[c].job, "pending")
    /\ request' = [request EXCEPT ![c] = Idle]
    /\ UNCHANGED <<priority, failCount, tickVars, runVars, workerVars, asked,
                   proc>>

Client(c) == \/ \E j \in JobIds : CancelRead(c, j) \/ RetryRead(c, j)
             \/ CancelRow(c) \/ Signal(c) \/ RetryRow(c)

\* InsertJob, by the scanner (priority 0) or by a user (priority 1).
Enqueue ==
    /\ proc # "down"
    /\ \E j \in JobIds, p \in Priorities :
          /\ status[j] = "unborn"
          /\ \A k \in JobIds : k < j => status[k] # "unborn"
          /\ status' = [status EXCEPT ![j] = "pending"]
          /\ priority' = [priority EXCEPT ![j] = p]
    /\ UNCHANGED <<failCount, tickVars, runVars, workerVars, userVars, proc,
                   stale>>

\* A deleted row keeps none of its columns.
ClearHistory ==
    /\ proc # "down"
    /\ LET gone == {j \in JobIds : status[j] \in Terminal} IN
       /\ gone # {}
       /\ status' = [j \in JobIds |-> IF j \in gone THEN "cleared"
                                       ELSE status[j]]
       /\ priority' = [j \in JobIds |-> IF j \in gone THEN 0 ELSE priority[j]]
       /\ failCount' = [j \in JobIds |-> IF j \in gone THEN 0 ELSE failCount[j]]
       /\ asked' = asked \ gone
    /\ UNCHANGED <<tickVars, runVars, workerVars, request, proc, stale>>

SetPaused ==
    /\ proc # "down"
    /\ paused' = ~paused
    /\ UNCHANGED <<rowVars, tickVars, runVars, cancels, activeJobs,
                   maxConcurrency, userVars, proc, stale>>

SetConcurrency ==
    /\ proc # "down"
    /\ \E n \in Requested : maxConcurrency' = Clamp(n)
    /\ UNCHANGED <<rowVars, tickVars, runVars, cancels, activeJobs, paused,
                   userVars, proc, stale>>

-----------------------------------------------------------------------------
(* The process: signal.NotifyContext, the end of main, and the next start. *)

Sigterm ==
    /\ "sigterm" \in Stops
    /\ proc = "up"
    /\ proc' = "stopping"
    /\ cancelled' = [s \in Slots |-> stage[s] # "free"]
    /\ UNCHANGED <<rowVars, tickVars, stage, runJob, workerVars, userVars,
                   stale>>

\* Everything but the database goes with the process.
Die ==
    /\ proc' = "down"
    /\ tick' = "idle" /\ sel' = NoJob
    /\ stage' = [s \in Slots |-> "free"]
    /\ runJob' = [s \in Slots |-> NoJob]
    /\ cancelled' = [s \in Slots |-> FALSE]
    /\ cancels' = [j \in JobIds |-> NoSlot]
    /\ activeJobs' = 0
    /\ request' = [c \in Clients |-> Idle]
    /\ UNCHANGED <<rowVars, maxConcurrency, paused, asked, stale>>

\* worker.Run has returned, so main returns: no goroutine is waited for.
Exit == proc = "stopping" /\ tick = "idle" /\ Die

Crash == "crash" \in Stops /\ proc # "down" /\ Die

\* Mutant of Restart: without ResetRunningJobs.
RestartNoReset ==
    /\ proc = "down"
    /\ proc' = "up"
    /\ maxConcurrency' \in 1..MaxConcurrency
    /\ paused' \in BOOLEAN
    /\ UNCHANGED <<rowVars, tickVars, runVars, cancels, activeJobs,
                   userVars, stale>>

\* runServe: ResetRunningJobs, then a new worker built from the configuration.
Restart ==
    /\ proc = "down"
    /\ proc' = "up"
    /\ status' = [j \in JobIds |-> IF status[j] = "running"
                                   THEN "pending" ELSE status[j]]
    /\ maxConcurrency' \in 1..MaxConcurrency
    /\ paused' \in BOOLEAN
    /\ UNCHANGED <<priority, failCount, tickVars, runVars, cancels, activeJobs,
                   userVars, stale>>

Process == Sigterm \/ Exit \/ Crash \/ Restart

User == (\E c \in Clients : Client(c))
        \/ Enqueue \/ ClearHistory \/ SetPaused \/ SetConcurrency

Next == Tick \/ (\E s \in Slots : Run(s)) \/ User \/ Process

Spec == Init /\ [][Next]_vars

\* The loop is driven by a timer, every goroutine runs on (ffmpeg ends: a job
\* whose encoder hangs is not covered), and a supervisor restarts the daemon.
Fairness == /\ WF_vars(Tick)
            /\ \A s \in Slots : WF_vars(Run(s))
            /\ WF_vars(Exit) /\ WF_vars(Restart)

FairSpec == Spec /\ Fairness
-----------------------------------------------------------------------------
(* Properties. *)

\* Every variable has its type.
TypeOK ==
    /\ status \in [JobIds -> Statuses]
    /\ priority \in [JobIds -> Priorities]
    /\ failCount \in [JobIds -> 0..FailThreshold]
    /\ tick \in {"idle", "loop", "pick", "picked", "claimed"}
    /\ sel \in JobIds \cup {NoJob}
    /\ stage \in [Slots -> Stages]
    /\ runJob \in [Slots -> JobIds \cup {NoJob}]
    /\ cancelled \in [Slots -> BOOLEAN]
    /\ cancels \in [JobIds -> Slots \cup {NoSlot}]
    /\ activeJobs \in Int
    /\ maxConcurrency \in 1..MaxConcurrency
    /\ paused \in BOOLEAN
    /\ request \in [Clients -> Requests]
    /\ proc \in {"up", "stopping", "down"}
    /\ asked \subseteq JobIds
    /\ stale \subseteq JobIds

\* The counter the worker loop compares with its limit is the number of
\* goroutines that exist, which stays within the clamp however the limit is
\* changed between the comparison and the start of the goroutine
\* (worker.go: activeJobs, tick, SetConcurrency).
SlotAccounting ==
    /\ activeJobs = Cardinality(Live)
    /\ activeJobs <= MaxConcurrency
    /\ tick \in {"pick", "picked", "claimed"} => activeJobs < MaxConcurrency

\* The goroutine s still owes job j its outcome.
Owes(s, j) == runJob[s] = j /\ stage[s] \in Undecided

\* A row that says "running" while the process lives is in somebody's hands:
\* the loop has claimed it and is about to start a goroutine, or a goroutine
\* still has to write its outcome. No interleaving of handlers, failures and
\* restarts strands a row in "running" (jobs.go: ResetRunningJobs).
RunningHasOwner ==
    proc # "down" =>
        \A j \in JobIds : status[j] = "running" =>
            \/ tick = "claimed" /\ sel = j
            \/ \E s \in Slots : Owes(s, j)

\* A registered cancel function belongs to a live goroutine that runs the
\* very job it is registered for (worker.go: cancels, CancelJob).
CancelReachesOwnJob ==
    \A j \in JobIds : cancels[j] # NoSlot =>
        /\ runJob[cancels[j]] = j
        /\ stage[cancels[j]] \notin {"free", "unregistered"}

\* "cancelled by user" is never written to a job no user asked to cancel: a
\* cancel request stops no other job's encode (worker.go:255).
CancelledOnlyByUser ==
    \A j \in JobIds : status[j] = "cancelled" => j \in asked

\* Two goroutines encode the same job, or one encodes a job whose row says
\* otherwise, only after some UPDATE relied on a status read earlier that the
\* row had lost in the meantime. The unconditional UPDATEs are the one cause
\* (worker.go:190-214, handlers.go:169-180 and 299-308).
OneRunUnlessStale ==
    \A j \in JobIds \ stale :
        /\ \A s, t \in Slots : Owes(s, j) /\ Owes(t, j) => s = t
        /\ \A s \in Slots : Owes(s, j) => status[j] = "running"
        /\ tick = "claimed" /\ sel = j =>
              status[j] = "running" /\ \A s \in Slots : ~Owes(s, j)

\* A job is left in "error", which only an operator clears, after no fewer
\* failures than fail_threshold (worker.go: handleFailure).
ErrorOnlyAtThreshold ==
    \A j \in JobIds : status[j] = "error" => failCount[j] = FailThreshold

\* Once users leave the daemon alone, running and not paused, every accepted
\* job reaches an outcome: crashes, restarts and earlier races included.
Quiet == proc = "up" /\ ~paused /\ \A c \in Clients : request[c] = Idle

EveryJobSettles ==
    <>[]Quiet => \A j \in JobIds :
        status[j] \in {"pending", "running"}
           ~> status[j] \in Terminal \cup NoRow

-----------------------------------------------------------------------------
(* What the repository says of the queue and the code does not do. *)

\* worker.go:211 "Claim the job atomically before spawning.": only a pending
\* row is ever turned into a running one.
ClaimIsAtomic ==
    [][\A j \in JobIds : status[j] # "running" /\ status'[j] = "running"
                            => status[j] = "pending"]_vars

\* docs/architecture.md:109 "SIGTERM -> drain current job -> exit": the process
\* that was asked to stop ends with no goroutine alive.
DrainsBeforeExit ==
    [][proc = "stopping" /\ proc' = "down" => Live = {}]_vars
=============================================================================
