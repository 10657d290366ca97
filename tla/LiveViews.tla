----------------------------- MODULE LiveViews -----------------------------
(***************************************************************************)
(* The pages of the web client that follow the worker while it works, the  *)
(* Queue page and the Dashboard, and the event stream that tells them that *)
(* a job has ended (api/websocket.go, connectSSE and useSSE).              *)
(*                                                                         *)
(* A poll that fails leaves everything as it was, and is not modelled.     *)
(* Only the end of a job is an event the pages act on: that jobs are       *)
(* enqueued, claimed or skipped, and that the queue is paused, they learn  *)
(* when they load for another reason, or never. Progress events move bars  *)
(* and are left out; that they may fill the hub's queues is in Emit.       *)
(***************************************************************************)
EXTENDS Naturals, Sequences, FiniteSets

CONSTANTS
    Jobs,       \* ids of jobs; each is one film, enqueued at most once
    Loads,      \* loads of the page that may be under way at a time
    FirstViews, \* the pages that may be open: queue, dashboard
    FirstJobs,  \* what job can be when the page is opened
    MaxClicks,  \* bound: handlers that are started
    MaxFaults   \* bound: requests, events and connections that are lost

ASSUME LiveAssumption ==
    /\ Jobs \subseteq Nat \ {0} /\ IsFiniteSet(Jobs)
    /\ IsFiniteSet(Loads) /\ Loads # {}
    /\ FirstViews \subseteq {"queue", "dashboard"} /\ FirstViews # {}
    /\ FirstJobs \subseteq [Jobs -> {"none", "pending"}] /\ FirstJobs # {}
    /\ MaxClicks \in Nat /\ MaxFaults \in Nat

VARIABLES
    jobStatus,  \* the status of each job; none: not enqueued
    paused,     \* the worker takes no jobs
    view,       \* the page that is open; none: not yet; left: not any more
    link,       \* the EventSource: open, waiting to connect, or closed
    stream,     \* ends of jobs that the page has not been told of yet
    load,       \* per load: what its two requests have answered
    running,    \* the running jobs shown; the Dashboard shows one
    pending,    \* the pending jobs shown, on the Queue page
    status,     \* paused as shown, on the Dashboard
    doing,      \* the handler under way
    said,       \* the films "Added to queue" is on the screen for
    poll,       \* the Dashboard's status poll: its answer
    asked,      \* the log polls under way: the jobs they are for
    logOf,      \* the job whose log is shown
    clicks,     \* the handlers started, up to MaxClicks
    faults,     \* what was lost, up to MaxFaults
    missed,     \* history: an end has happened that no load or event tells
    staleRunning \* history: the running jobs shown were read before an end
                \* whose load has already been shown

liveServer == <<jobStatus, paused>>
liveLink   == <<link, stream>>
livePage   == <<running, pending, status, said>>
liveLog    == <<poll, asked, logOf>>
liveBounds == <<clicks, faults>>
liveHist   == <<missed, staleRunning>>
liveVars   == <<liveServer, view, liveLink, load, livePage, doing, liveLog,
                liveBounds, liveHist>>

NoLog     == 0
EndEvents == {"done", "failed"}

\* Mutant of LoadingEvents: a failed job is no reason to load.
DoneOnly == {"done"}

\* The events a page loads on.
LoadingEvents == {"done", "failed"}

NoLoad  == [at |-> "idle", run |-> {}, pend |-> {}, paused |-> FALSE,
            has |-> {}, old |-> FALSE]
NoDoing == [op |-> "none", todo |-> {}, sent |-> {}, failed |-> FALSE]
Is(s)   == {j \in Jobs : jobStatus[j] = s}
SetJob(j, s) == jobStatus' = [jobStatus EXCEPT ![j] = s]

LiveInit ==
    /\ jobStatus \in FirstJobs /\ paused = FALSE
    /\ view = "none" /\ link = "closed" /\ stream = <<>>
    /\ load = [l \in Loads |-> NoLoad]
    /\ running = {} /\ pending = {} /\ status = "unknown"
    /\ doing = NoDoing /\ said = {}
    /\ poll = "idle" /\ asked = {} /\ logOf = NoLog
    /\ clicks = 0 /\ faults = 0 /\ missed = FALSE /\ staleRunning = FALSE

-----------------------------------------------------------------------------
(* The event stream.                                                       *)

Lost  == faults < MaxFaults /\ faults' = faults + 1 /\ UNCHANGED clicks
Click == clicks < MaxClicks /\ clicks' = clicks + 1 /\ UNCHANGED faults

\* wsHub: an event reaches an open stream unless a queue on its way is full.
Emit(e) ==
    \/ /\ link = "open" /\ stream' = Append(stream, e)
       /\ UNCHANGED <<missed, liveBounds>>
    \/ /\ link # "open" /\ stream' = stream /\ missed' = TRUE
       /\ UNCHANGED liveBounds
    \/ /\ link = "open" /\ stream' = stream /\ missed' = TRUE
       /\ Lost

\* es.onerror: what was under way is lost, and connect is due in three
\* seconds.
Break ==
    /\ link = "open"
    /\ link' = "waiting" /\ stream' = <<>>
    /\ missed' = (missed \/ stream # <<>>)
    /\ UNCHANGED <<liveServer, view, load, livePage, doing, liveLog,
                   staleRunning>>

\* Mutant of Connected: the timer connects whether or not it was closed.
ConnectedAnyway == "open"

\* What connect does: nothing once the page has closed the stream.
Connected == IF view = "left" THEN "closed" ELSE "open"

Connect ==
    /\ link = "waiting"
    /\ link' = Connected
    /\ UNCHANGED <<liveServer, view, stream, load, livePage, doing, liveLog,
                   liveHist>>

Ask(l) == load' = [load EXCEPT ![l] = [NoLoad EXCEPT !.at = "asked"]]

\* The page is mounted: it loads, and connects.
OpenView(l) ==
    /\ view = "none"
    /\ view' \in FirstViews
    /\ link' = "waiting" /\ Ask(l)
    /\ UNCHANGED <<liveServer, stream, livePage, doing, liveLog, liveHist>>

\* The page is left: what it holds and awaits is of no effect. useSSE closes
\* its stream, but not a timer that is set.
Leave ==
    /\ view \in FirstViews
    /\ view' = "left"
    /\ link' = IF link = "open" THEN "closed" ELSE link
    /\ stream' = <<>>
    /\ load' = [l \in Loads |-> NoLoad] /\ doing' = NoDoing
    /\ running' = {} /\ pending' = {} /\ status' = "unknown" /\ said' = {}
    /\ poll' = "idle" /\ asked' = {} /\ logOf' = NoLog
    /\ UNCHANGED <<liveServer, liveHist>>

\* The page is told that a job has ended.
Receive(l) ==
    /\ link = "open" /\ stream # <<>> /\ load[l].at = "idle"
    /\ stream' = Tail(stream)
    /\ IF Head(stream) \in LoadingEvents THEN Ask(l) ELSE UNCHANGED load
    /\ UNCHANGED <<liveServer, view, link, livePage, doing, liveLog,
                   liveHist>>

-----------------------------------------------------------------------------
(* load(): two requests, shown when both are answered.                     *)

\* The Queue page lists ten running jobs, the Dashboard the newest.
ListRunning ==
    IF view # "dashboard" THEN Is("running")
    ELSE {j \in Is("running") : \A k \in Is("running") : k <= j}

AnswerRunning(l) ==
    /\ load[l].at = "asked" /\ "run" \notin load[l].has
    /\ load' = [load EXCEPT ![l].run = ListRunning, ![l].has = @ \cup {"run"}]
    /\ missed' = FALSE
    /\ UNCHANGED <<liveServer, view, liveLink, livePage, doing, liveLog,
                   staleRunning>>

\* The pending jobs for the Queue page, the status for the Dashboard.
AnswerRest(l) ==
    /\ load[l].at = "asked" /\ "rest" \notin load[l].has
    /\ load' = [load EXCEPT ![l].pend = IF view = "queue" THEN Is("pending")
                                                            ELSE {},
                            ![l].paused = (view = "dashboard" /\ paused),
                            ![l].has = @ \cup {"rest"}]
    /\ UNCHANGED <<liveServer, view, liveLink, livePage, doing, liveLog,
                   liveHist>>

Shown(b) == IF b THEN "paused" ELSE "active"

\* The effect on runningJob.ID: a job that is new on the Dashboard has its
\* log polled at once; with none the log is emptied.
PollNewLog(run) ==
    /\ asked' = asked \cup (run \ running)
    /\ logOf' = IF run = {} THEN NoLog ELSE logOf

ShowLoad(l) ==
    /\ load[l].has = {"run", "rest"}
    /\ load' = [load EXCEPT ![l] = NoLoad]
    /\ staleRunning' = load[l].old
    /\ running' = load[l].run
    /\ \/ /\ view = "queue" /\ pending' = load[l].pend
          /\ UNCHANGED <<status, asked, logOf>>
       \/ /\ view = "dashboard" /\ status' = Shown(load[l].paused)
          /\ PollNewLog(load[l].run)
          /\ UNCHANGED pending
    /\ UNCHANGED <<liveServer, view, liveLink, doing, said, poll,
                   missed>>

\* One of the two fails: nothing is shown.
LoseView(l) ==
    /\ load[l].at = "asked"
    /\ load' = [load EXCEPT ![l] = NoLoad]
    /\ missed' = TRUE
    /\ UNCHANGED <<liveServer, view, liveLink, livePage, doing, liveLog,
                   staleRunning>>

-----------------------------------------------------------------------------
(* The Queue page's handlers.                                              *)

\* "Queue", the files picked, a folder picked, and the cross of a pending job.
StartSubmit(op, todo) ==
    /\ view = "queue" /\ doing = NoDoing
    /\ doing' = [op |-> op, todo |-> todo, sent |-> todo, failed |-> FALSE]
    /\ said' = IF op = "cancel" THEN said ELSE {}
    /\ UNCHANGED <<liveServer, view, liveLink, load, running, pending, status,
                   liveLog, liveHist>>

\* Mutant of FileFailed: the failures are not counted.
FileFailedNever(ok) == doing.failed

\* catch { failed++ }
FileFailed(ok) == doing.failed \/ ~ok

\* createJob, for one file after the other: a film that has a row is refused.
CreateJob ==
    /\ doing.op = "files"
    /\ \E j \in doing.todo :
          /\ \/ jobStatus[j] = "none" /\ SetJob(j, "pending")
             \/ UNCHANGED jobStatus
          /\ \E ok \in BOOLEAN :
                /\ ok => jobStatus' # jobStatus
                /\ doing' = [doing EXCEPT !.todo = @ \ {j},
                                !.failed = FileFailed(ok)]
    /\ UNCHANGED <<paused, view, liveLink, load, livePage, liveLog,
                   liveHist>>

\* enqueueDir: every film of the folder that has no row yet.
EnqueueDir ==
    /\ doing.op = "dir" /\ doing.todo # {}
    /\ \/ jobStatus' = [j \in Jobs |-> IF j \in doing.todo \cap Is("none")
                                    THEN "pending" ELSE jobStatus[j]]
       \/ UNCHANGED jobStatus
    /\ \E ok \in BOOLEAN :
          /\ ok => jobStatus' # jobStatus
          /\ doing' = [doing EXCEPT !.todo = {}, !.failed = ~ok]
    /\ UNCHANGED <<paused, view, liveLink, load, livePage, liveLog,
                   liveHist>>

\* The message of a handler, and the load that follows it.
EndSubmit(l) ==
    /\ doing.op \in {"files", "dir"} /\ doing.todo = {} /\ load[l].at = "idle"
    /\ said' = IF doing.failed THEN said ELSE doing.sent
    /\ doing' = NoDoing
    /\ Ask(l)
    /\ UNCHANGED <<liveServer, view, liveLink, running, pending, status,
                   liveLog, liveHist>>

\* setTimeout(() => setSubmitSuccess(false), 3000)
Forget ==
    /\ said # {} /\ said' = {}
    /\ UNCHANGED <<liveServer, view, liveLink, load, running, pending, status,
                   doing, liveLog, liveHist>>

\* handleCancelJob: a pending row is written, a running job is signalled and
\* ends by itself.
CancelJob(l) ==
    /\ doing.op = "cancel" /\ load[l].at = "idle"
    /\ \E j \in doing.todo :
          \/ /\ IF jobStatus[j] = "pending" THEN SetJob(j, "ended")
                                            ELSE UNCHANGED jobStatus
             /\ Ask(l)
          \/ UNCHANGED <<jobStatus, load>>
    /\ doing' = NoDoing
    /\ UNCHANGED <<paused, view, liveLink, livePage, liveLog, liveHist>>

-----------------------------------------------------------------------------
(* The Dashboard: its polls and its buttons.                               *)

\* setInterval(getStatus, 3000)
AskStatus ==
    /\ view = "dashboard" /\ poll = "idle"
    /\ poll' = Shown(paused)
    /\ UNCHANGED <<liveServer, view, liveLink, load, livePage, doing, asked,
                   logOf, liveHist>>

\* Mutant of PollStatus: the answer moves the meters only.
PollStatusIgnored == status

\* What a poll makes of the status shown.
PollStatus == poll

ShowStatus ==
    /\ poll # "idle"
    /\ status' = PollStatus
    /\ poll' = "idle"
    /\ UNCHANGED <<liveServer, view, liveLink, load, running, pending, said,
                   doing, asked, logOf, liveHist>>

\* Mutant of LogToPoll: the interval of a job that is shown no more goes on.
LogToPollBefore == IF logOf = NoLog THEN running ELSE {logOf}

\* The job the log is polled for.
LogToPoll == running

\* setInterval(poll, 2000) of the job shown, and of no other.
AskLog ==
    /\ view = "dashboard" /\ running # {}
    /\ asked' = asked \cup LogToPoll
    /\ UNCHANGED <<liveServer, view, liveLink, load, livePage, doing, poll,
                   logOf, liveHist>>

ShowLog(j) ==
    /\ j \in asked
    /\ asked' = asked \ {j}
    /\ logOf' = j
    /\ UNCHANGED <<liveServer, view, liveLink, load, livePage, doing, poll,
                   liveHist>>

\* Pause or Resume, whichever the status shown calls for.
TogglePause ==
    /\ view = "dashboard" /\ doing = NoDoing /\ status # "unknown"
    /\ doing' = [NoDoing EXCEPT !.op = IF status = "paused" THEN "resume"
                                                           ELSE "pause"]
    /\ UNCHANGED <<liveServer, view, liveLink, load, livePage, liveLog,
                   liveHist>>

ActPause(l) ==
    /\ doing.op \in {"pause", "resume"} /\ load[l].at = "idle"
    /\ paused' = (doing.op = "pause")
    /\ doing' = NoDoing
    /\ Ask(l)
    /\ UNCHANGED <<jobStatus, view, liveLink, livePage, liveLog, liveHist>>

\* "Scan Now" loads three seconds later; the cross cancels the job shown.
ScanNow(l) ==
    /\ view = "dashboard" /\ load[l].at = "idle"
    /\ Ask(l)
    /\ UNCHANGED <<liveServer, view, liveLink, livePage, doing, liveLog,
                   liveHist>>

CancelRunning ==
    /\ view = "dashboard" /\ doing = NoDoing /\ running # {}
    /\ doing' = [NoDoing EXCEPT !.op = "cancel", !.todo = running]
    /\ UNCHANGED <<liveServer, view, liveLink, load, livePage, liveLog,
                   liveHist>>

-----------------------------------------------------------------------------
(* The worker, the scanner and other clients.                              *)

\* Reads under way that still show a job as running are old once it is not.
AgeLoads(gone) ==
    load' = [l \in Loads |-> IF load[l].run \cap gone # {}
                             THEN [load[l] EXCEPT !.old = TRUE] ELSE load[l]]

Unseen == UNCHANGED <<view, livePage, doing, liveLog>>

Enqueue ==
    /\ \E j \in Is("none") : SetJob(j, "pending")
    /\ Unseen /\ UNCHANGED <<paused, liveLink, load, liveHist>>

Claim ==
    /\ ~paused
    /\ \E j \in Is("pending") : SetJob(j, "running")
    /\ Unseen /\ UNCHANGED <<paused, liveLink, load, liveHist>>

\* A job that is skipped, or cancelled while it waits, ends without an event.
Skip ==
    /\ \E j \in Is("pending") : SetJob(j, "ended")
    /\ Unseen /\ UNCHANGED <<paused, liveLink, load, liveHist>>

\* processJob writes the row, then emits.
FinishJob ==
    /\ \E j \in Is("running"), e \in EndEvents :
          /\ SetJob(j, "ended")
          /\ AgeLoads({j})
          /\ Emit(e)
    /\ Unseen /\ UNCHANGED <<paused, link, staleRunning>>

\* The worker pauses itself after failures, or another client has its way.
PauseElsewhere ==
    /\ paused' = ~paused
    /\ Unseen /\ UNCHANGED <<jobStatus, liveLink, load, liveHist>>

\* A restart puts running jobs back and breaks every stream.
Restart ==
    /\ jobStatus' = [j \in Jobs |-> IF jobStatus[j] = "running" THEN "pending"
                                    ELSE jobStatus[j]]
    /\ AgeLoads(Is("running"))
    /\ link' = IF link = "open" THEN "waiting" ELSE link
    /\ stream' = <<>> /\ missed' = TRUE
    /\ Unseen /\ UNCHANGED <<paused, staleRunning>>

Clicked ==
    \/ \E js \in SUBSET Jobs : \/ js # {} /\ StartSubmit("files", js)
                               \/ js # {} /\ StartSubmit("dir", js)
    \/ \E j \in pending : StartSubmit("cancel", {j})
    \/ \E l \in Loads : ScanNow(l)
    \/ TogglePause \/ CancelRunning

Broken == Break \/ Restart \/ \E l \in Loads : LoseView(l)

Unbounded ==
    \/ Connect \/ Leave
    \/ \E l \in Loads :
          \/ OpenView(l) \/ Receive(l)
          \/ AnswerRunning(l) \/ AnswerRest(l) \/ ShowLoad(l)
          \/ EndSubmit(l) \/ CancelJob(l) \/ ActPause(l)
    \/ CreateJob \/ EnqueueDir \/ Forget
    \/ AskStatus \/ ShowStatus \/ AskLog
    \/ \E j \in Jobs : ShowLog(j)
    \/ Enqueue \/ Claim \/ Skip \/ PauseElsewhere

LiveNext == \/ Click /\ Clicked
            \/ Lost /\ Broken
            \/ UNCHANGED liveBounds /\ Unbounded
            \/ FinishJob

\* The polls go on, and what is asked is answered and shown.
LiveFairness ==
    /\ WF_liveVars(UNCHANGED liveBounds /\ AskStatus)
    /\ WF_liveVars(UNCHANGED liveBounds /\ ShowStatus)
    /\ WF_liveVars(UNCHANGED liveBounds /\ AskLog)
    /\ \A j \in Jobs : WF_liveVars(UNCHANGED liveBounds /\ ShowLog(j))
    /\ \A l \in Loads :
          WF_liveVars(/\ UNCHANGED liveBounds
                      /\ AnswerRunning(l) \/ AnswerRest(l) \/ ShowLoad(l))

LiveSpec == LiveInit /\ [][LiveNext]_liveVars /\ LiveFairness

-----------------------------------------------------------------------------
(* Properties.                                                             *)

\* Types.
LiveTypeOK ==
    /\ jobStatus \in [Jobs -> {"none", "pending", "running", "ended"}]
    /\ paused \in BOOLEAN /\ view \in FirstViews \cup {"none", "left"}
    /\ link \in {"open", "waiting", "closed"} /\ stream \in Seq(EndEvents)
    /\ load \in [Loads -> [at : {"idle", "asked"}, run : SUBSET Jobs,
                           pend : SUBSET Jobs, paused : BOOLEAN,
                           has : SUBSET {"run", "rest"}, old : BOOLEAN]]
    /\ running \subseteq Jobs /\ pending \subseteq Jobs /\ said \subseteq Jobs
    /\ status \in {"unknown", "paused", "active"}
    /\ doing.todo \subseteq Jobs /\ doing.failed \in BOOLEAN
    /\ poll \in {"idle", "paused", "active"}
    /\ asked \subseteq Jobs /\ logOf \in Jobs \cup {NoLog}
    /\ clicks \in 0 .. MaxClicks /\ faults \in 0 .. MaxFaults
    /\ missed \in BOOLEAN /\ staleRunning \in BOOLEAN

\* What is shown as running runs: a job that has ended leaves the page by the
\* event of its end and the load that makes, whatever loads and handlers were
\* under way; the exceptions are an event that was dropped or fell into a gap
\* of the stream, a load that failed, and one overtaken by a later one.
RunningShownRuns ==
    /\ view # "left" /\ stream = <<>> /\ \A l \in Loads : load[l].at = "idle"
    /\ ~missed /\ ~staleRunning
    => \A j \in running : jobStatus[j] = "running"

\* "Added to queue" means every film of the request has a row: one that was
\* refused, or whose answer was lost, is reported instead (onSelect, the loop
\* over the files picked, and onQueueDir).
SuccessMeansQueued == \A j \in said : jobStatus[j] # "none"

\* No stream outlives its page, though the timer that connects again may
\* fire after the page has been left (connectSSE's closed).
StreamEndsWithPage == view = "left" => link # "open"

\* However the queue is paused or resumed, and whatever the answers of
\* earlier loads say, the Dashboard shows it in the end (the poll of status).
DashboardFollowsPause ==
    \A b \in BOOLEAN :
        <>[](view = "dashboard" /\ paused = b) => <>[](status = Shown(b))

\* The log on the Dashboard ends up being that of the job it is shown under,
\* late answers for the job before notwithstanding (the effect on
\* runningJob.ID and the cleanup of its interval).
LogFollowsJob ==
    \A j \in Jobs :
        <>[](view = "dashboard" /\ running = {j}) => <>[](logOf = j)
=============================================================================
