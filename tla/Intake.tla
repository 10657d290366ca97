------------------------------- MODULE Intake -------------------------------
(***************************************************************************)
(* How files become rows of the jobs table: scans walk a directory and     *)
(* enqueue what qualifies (internal/scanner), users enqueue a file or a    *)
(* whole directory (handleCreateJob, handleEnqueueDir), and what was       *)
(* handled is remembered in jobs and in processed_files (internal/db).     *)
(*                                                                         *)
(* The worker is here for what it does to names and memory: it puts a      *)
(* temporary file, then the output, next to the film, and only afterwards  *)
(* writes the row and the processed_files record. Its races are the        *)
(* subject of JobQueue, its file moves that of Staging.                    *)
(*                                                                         *)
(* The content of a file, its size and its mtime are one version number;   *)
(* a version is ripe once it meets the rules of its directory (min_age,    *)
(* min_size, max_bitrate).                                                 *)
(***************************************************************************)
EXTENDS Naturals, Sequences, FiniteSets

CONSTANTS
    NoPath,     \* the name of no file
    Listing,    \* the names of a directory, in the order WalkDir visits them
    Films,      \* the names users put films at
    Temp,       \* per film: the name its encode is written to
    Output,     \* per film: the name the finished encode gets
    Scheduled,  \* scans of the scheduler
    Triggered,  \* scans of POST /scan, which its request's context may end
    Clients,    \* requests that enqueue files
    Asked,      \* the names they are sent for
    MaxRows,    \* bound on the rows ever inserted
    MaxVersion, \* bound on the contents ever written
    MaxCrashes  \* bound on the crashes of one behaviour

Paths == {Listing[i] : i \in DOMAIN Listing}

ASSUME ListingAssumption == Listing \in Seq(Paths) /\ NoPath \notin Paths
ASSUME PathsAssumption == /\ Films \subseteq Paths
                          /\ Temp \in [Films -> Paths \ Films]
                          /\ Output \in [Films -> Paths \ Films]
ASSUME ScansAssumption == Scheduled \cap Triggered = {}
ASSUME AskedAssumption == Asked \subseteq Paths
ASSUME BoundsAssumption == {MaxRows, MaxVersion, MaxCrashes} \subseteq Nat
ASSUME FilmsAssumption == IsFiniteSet(Films) /\ Cardinality(Films) <= MaxVersion

Scanners == Scheduled \cup Triggered
Rows     == 1..MaxRows
Versions == 1..MaxVersion
Missing  == 0       \* no file, no record, no version
NoRow    == 0

VARIABLES
    file,       \* the version under each name
    last,       \* the latest version written
    ripe,       \* versions that meet the rules
    record,     \* processed_files: the version it knows of a name
    row,        \* jobs: source_path, status, output_path
    nextRow,    \* the next id of jobs
    held,       \* per row: the original in the processed directory
    scan,       \* per scan: where maybeEnqueue is, and what is left to walk
    ask,        \* per client: the name it has checked and will insert
    work,       \* the worker: its row and its next step
    crashes,    \* crashes so far
    overlapped, \* history: names enqueued or retried on an outdated status
    cleared     \* history: contents whose rows ClearHistory removed, once the
                \* worker was done with them and while no scan had them in hand

diskVars   == <<file, last, ripe>>
rowVars    == <<row, nextRow, held>>
actorVars  == <<scan, ask, work, crashes>>
historyVars == <<overlapped, cleared>>
vars == <<diskVars, record, rowVars, actorVars, historyVars>>

Terminal == {"staged", "done", "failed", "cancelled", "skipped", "excluded",
             "error", "restored"}
Statuses == {"none", "pending", "running"} \cup Terminal
Absent   == [path |-> NoPath, status |-> "none", output |-> NoPath]

NoWork == [row |-> NoRow, path |-> NoPath, step |-> "idle"]
NoScan == [at |-> "idle", path |-> NoPath, seen |-> Missing, todo |-> {}]

IsRow(r)  == row[r].status # "none"
Active(r) == row[r].status \in {"pending", "running"}
RowsOf(p) == {r \in Rows : row[r].path = p}

\* SELECT COUNT(*) FROM jobs WHERE output_path = p
OutputPathExists(p) == \E r \in Rows : row[r].output = p

\* Mutant of SourcePathStatus: the oldest row decides.
SourcePathStatusOldest(p) ==
    IF RowsOf(p) = {} THEN "none"
    ELSE row[CHOOSE r \in RowsOf(p) : \A k \in RowsOf(p) : r <= k].status

\* The status of the latest row for p (ORDER BY created_at DESC LIMIT 1).
SourcePathStatus(p) ==
    IF RowsOf(p) = {} THEN "none"
    ELSE row[CHOOSE r \in RowsOf(p) : \A k \in RowsOf(p) : k <= r].status

\* Mutant of Requeueable: a restored film counts as handled.
RequeueableNotRestored == {"none", "failed", "error"}

\* What a scan enqueues again, and what a user may.
Requeueable == {"none", "failed", "restored", "error"}
Askable     == {"none", "failed"}

Init ==
    /\ \E order \in [Films -> 1..Cardinality(Films)] :
          /\ \A f, g \in Films : order[f] = order[g] => f = g
          /\ file = [p \in Paths |-> IF p \in Films THEN order[p] ELSE Missing]
    /\ last = Cardinality(Films)
    /\ ripe = {}
    /\ record = [p \in Paths |-> Missing]
    /\ row = [r \in Rows |-> Absent]
    /\ nextRow = 1
    /\ held = [r \in Rows |-> Missing]
    /\ scan = [s \in Scanners |-> NoScan]
    /\ ask = [c \in Clients |-> NoPath]
    /\ work = NoWork
    /\ crashes = 0
    /\ overlapped = {}
    /\ cleared = {}

SetStatus(r, st) == row' = [row EXCEPT ![r].status = st]

\* INSERT INTO jobs; the caller looked for a row of p a while ago, and went on
\* because its status was one of expected.
InsertJob(p, expected) ==
    /\ nextRow \in Rows
    /\ row' = [row EXCEPT ![nextRow] =
                  [path |-> p, status |-> "pending", output |-> NoPath]]
    /\ nextRow' = nextRow + 1
    /\ overlapped' = IF SourcePathStatus(p) \in expected THEN overlapped
                     ELSE overlapped \cup {p}
    /\ UNCHANGED held

-----------------------------------------------------------------------------
(* A scan: ScanDirectory, which walks the directory, and maybeEnqueue, one  *)
(* SQL statement after the other.                                          *)

Goto(s, at) == scan' = [scan EXCEPT ![s].at = at]
Skip(s) == scan' = [scan EXCEPT ![s].at = "walk", ![s].path = NoPath,
                                ![s].seen = Missing]
ScanKeeps == UNCHANGED <<diskVars, ask, work, crashes, cleared>>

\* WalkDir lists a directory before it visits the first file of it.
WalkStart(s) ==
    /\ scan[s].at = "idle"
    /\ scan' = [scan EXCEPT ![s].at = "walk", ![s].todo =
                   {i \in DOMAIN Listing : file[Listing[i]] # Missing}]
    /\ UNCHANGED <<record, rowVars, overlapped>> /\ ScanKeeps

\* The first of the names left to visit, and the scan that has statted it.
NextIn(todo)   == {i \in todo : \A k \in todo : i <= k}
Visit(i, todo) == [at |-> "record", path |-> Listing[i],
                   seen |-> file[Listing[i]], todo |-> todo \ {i}]

\* Mutant of WalkNext: the error of os.Stat is ignored.
WalkNextUnchecked(s) ==
    /\ scan[s].at = "walk"
    /\ \E i \in NextIn(scan[s].todo) :
          scan' = [scan EXCEPT ![s] = Visit(i, scan[s].todo)]
    /\ UNCHANGED <<record, rowVars, overlapped>> /\ ScanKeeps

\* The next file, which maybeEnqueue stats first; it may have gone.
WalkNext(s) ==
    /\ scan[s].at = "walk"
    /\ \E i \in NextIn(scan[s].todo) :
          scan' = IF file[Listing[i]] = Missing
                  THEN [scan EXCEPT ![s].todo = @ \ {i}]
                  ELSE [scan EXCEPT ![s] = Visit(i, scan[s].todo)]
    /\ UNCHANGED <<record, rowVars, overlapped>> /\ ScanKeeps

\* The walk is over, or the context of the request that asked for it is done.
WalkEnd(s) ==
    /\ scan[s].at = "walk"
    /\ scan[s].todo = {} \/ s \in Triggered
    /\ scan' = [scan EXCEPT ![s] = NoScan]
    /\ UNCHANGED <<record, rowVars, overlapped>> /\ ScanKeeps

\* IsFileProcessed reads the record ...
WalkRecord(s) ==
    LET known == record[scan[s].path] IN
    /\ scan[s].at = "record"
    /\ IF known = scan[s].seen THEN Skip(s)
       ELSE Goto(s, IF known = Missing THEN "status" ELSE "forget")
    /\ UNCHANGED <<record, rowVars, overlapped>> /\ ScanKeeps

\* ... and deletes it when the file has changed.
WalkForget(s) ==
    /\ scan[s].at = "forget"
    /\ record' = [record EXCEPT ![scan[s].path] = Missing]
    /\ Goto(s, "status")
    /\ UNCHANGED <<rowVars, overlapped>> /\ ScanKeeps

WalkStatus(s) ==
    /\ scan[s].at = "status"
    /\ IF SourcePathStatus(scan[s].path) \in Requeueable
       THEN Goto(s, "output") ELSE Skip(s)
    /\ UNCHANGED <<record, rowVars, overlapped>> /\ ScanKeeps

\* Mutant of WalkOutput: the outputs of jobs are not looked for.
WalkOutputUnchecked(s) ==
    /\ scan[s].at = "output"
    /\ IF scan[s].seen \in ripe THEN Goto(s, "insert") ELSE Skip(s)
    /\ UNCHANGED <<record, rowVars, overlapped>> /\ ScanKeeps

\* OutputPathExists, then the rules, on what was statted, and ffprobe.
WalkOutput(s) ==
    /\ scan[s].at = "output"
    /\ IF /\ ~OutputPathExists(scan[s].path)
          /\ scan[s].seen \in ripe
          /\ file[scan[s].path] # Missing
       THEN Goto(s, "insert") ELSE Skip(s)
    /\ UNCHANGED <<record, rowVars, overlapped>> /\ ScanKeeps

WalkInsert(s) ==
    /\ scan[s].at = "insert"
    /\ InsertJob(scan[s].path, Requeueable)
    /\ Skip(s)
    /\ UNCHANGED record /\ ScanKeeps

Walk(s) ==
    \/ WalkStart(s) \/ WalkNext(s) \/ WalkEnd(s) \/ WalkRecord(s)
    \/ WalkForget(s) \/ WalkStatus(s) \/ WalkOutput(s) \/ WalkInsert(s)

-----------------------------------------------------------------------------
(* Users.                                                                  *)

UserKeeps == UNCHANGED <<scan, work, crashes>>

\* handleCreateJob, and handleEnqueueDir for each video of the directory: the
\* check (SourcePathExists) and the insert are two statements.
AskCheck(c) ==
    /\ ask[c] = NoPath
    /\ \E p \in Asked : /\ SourcePathStatus(p) \in Askable
                        /\ ask' = [ask EXCEPT ![c] = p]
    /\ UNCHANGED <<diskVars, record, rowVars, historyVars>> /\ UserKeeps

AskInsert(c) ==
    /\ ask[c] # NoPath
    /\ InsertJob(ask[c], Askable)
    /\ ask' = [ask EXCEPT ![c] = NoPath]
    /\ UNCHANGED <<diskVars, record, cleared>> /\ UserKeeps

\* handleRetryJob looks at the row it revives and at no other row of its path.
Retry(r) ==
    /\ row[r].status \in {"failed", "cancelled"}
    /\ SetStatus(r, "pending")
    /\ overlapped' = IF \A k \in RowsOf(row[r].path) : k <= r THEN overlapped
                     ELSE overlapped \cup {row[r].path}
    /\ UNCHANGED <<diskVars, record, nextRow, held, ask, cleared>> /\ UserKeeps

\* handleCancelJob on a pending row.
Cancel(r) ==
    /\ row[r].status = "pending"
    /\ SetStatus(r, "cancelled")
    /\ UNCHANGED <<diskVars, record, nextRow, held, ask, historyVars>>
    /\ UserKeeps

\* handleRestoreOriginal, with and without "exclude".
Restore(r) ==
    /\ row[r].status = "staged"
    /\ held[r] # Missing
    /\ file' = [file EXCEPT ![row[r].path] = held[r],
                            ![row[r].output] = Missing]
    /\ held' = [held EXCEPT ![r] = Missing]
    /\ \E st \in {"restored", "excluded"} : SetStatus(r, st)
    /\ UNCHANGED <<last, ripe, record, nextRow, ask, historyVars>> /\ UserKeeps

\* handleDeleteOriginal, or the sweep.
Accept(r) ==
    /\ row[r].status = "staged"
    /\ held[r] # Missing
    /\ SetStatus(r, "done")
    /\ held' = [held EXCEPT ![r] = Missing]
    /\ UNCHANGED <<diskVars, record, nextRow, ask, historyVars>> /\ UserKeeps

\* handleReprocessFile
Reprocess(p) ==
    /\ record[p] # Missing
    /\ record' = [record EXCEPT ![p] = Missing]
    /\ cleared' = cleared \ {record[p]}
    /\ UNCHANGED <<diskVars, rowVars, ask, overlapped>> /\ UserKeeps

\* What a row of the history, remembered in processed_files, stands for: its
\* encode, or the excluded film.
Handled(r) ==
    CASE record[row[r].path] = Missing -> {}
      [] row[r].status \in {"staged", "done"} -> {file[row[r].output]}
      [] row[r].status = "excluded" -> {file[row[r].path]}
      [] OTHER -> {}

\* ClearHistory deletes the rows of all that has ended, and their originals
\* records; processed_files stays.
ClearHistory ==
    LET gone == {r \in Rows : row[r].status \in Terminal} IN
    /\ gone # {}
    /\ row' = [r \in Rows |-> IF r \in gone THEN Absent ELSE row[r]]
    /\ held' = [r \in Rows |-> IF r \in gone THEN Missing ELSE held[r]]
    /\ cleared' = (cleared \cup UNION {Handled(r) : r \in gone \ {work.row}})
                  \ ({Missing} \cup {scan[s].seen : s \in Scanners})
    /\ UNCHANGED <<diskVars, record, nextRow, ask, overlapped>> /\ UserKeeps

\* A user puts a new film, or a changed one, under its name.
Edit(p) ==
    /\ last < MaxVersion
    /\ last' = last + 1
    /\ file' = [file EXCEPT ![p] = last']
    /\ UNCHANGED <<ripe, record, rowVars, ask, historyVars>> /\ UserKeeps

-----------------------------------------------------------------------------
(* The worker, one job at a time.                                          *)

Job    == work.row
Source == work.path
Step(step) == work' = [work EXCEPT !.step = step]
WorkKeeps == UNCHANGED <<ripe, nextRow, scan, ask, crashes, historyVars>>

\* The tick: a job whose file has gone is skipped. ffmpeg starts to write.
Claim(r) ==
    LET p == row[r].path IN
    /\ work = NoWork
    /\ row[r].status = "pending"
    /\ IF file[p] = Missing
       THEN SetStatus(r, "skipped") /\ UNCHANGED <<file, last, work>>
       ELSE /\ SetStatus(r, "running")
            /\ work' = [row |-> r, path |-> p, step |-> "encode"]
            /\ IF p \in Films
               THEN /\ last < MaxVersion
                    /\ last' = last + 1
                    /\ file' = [file EXCEPT ![Temp[p]] = last']
               ELSE UNCHANGED <<file, last>>
    /\ UNCHANGED <<record, held>> /\ WorkKeeps

\* How processJob ends when it leaves no output: by a cancelled context, by
\* handleFailure, or with a file that does not get smaller.
GiveUp ==
    \/ \E st \in {"failed", "cancelled"} : SetStatus(Job, st) /\ work' = NoWork
    \/ \E st \in {"error", "excluded"} : SetStatus(Job, st) /\ Step("remember")

EncodeFails ==
    /\ work.step = "encode"
    /\ GiveUp
    /\ file' = IF Source \in Films THEN [file EXCEPT ![Temp[Source]] = Missing]
               ELSE file
    /\ UNCHANGED <<last, record, held>> /\ WorkKeeps

\* The verified encode gets its name.
Place ==
    /\ work.step = "encode"
    /\ Source \in Films
    /\ file[Output[Source]] = Missing
    /\ file' = [file EXCEPT ![Output[Source]] = file[Temp[Source]],
                            ![Temp[Source]] = Missing]
    /\ Step("move")
    /\ UNCHANGED <<last, record, row, held>> /\ WorkKeeps

\* moveToProcessed, which skipped directories hide from the scanner ...
Move ==
    /\ work.step = "move"
    /\ held' = [held EXCEPT ![Job] = file[Source]]
    /\ file' = [file EXCEPT ![Source] = Missing]
    /\ Step("stage")
    /\ UNCHANGED <<last, record, row>> /\ WorkKeeps

\* ... or fails, and the output goes again.
MoveFails ==
    /\ work.step = "move"
    /\ GiveUp
    /\ file' = [file EXCEPT ![Output[Source]] = Missing]
    /\ UNCHANGED <<last, record, held>> /\ WorkKeeps

Stage ==
    /\ work.step = "stage"
    /\ row' = [row EXCEPT ![Job].status = "staged",
                          ![Job].output = Output[Source]]
    /\ Step("rememberOutput")
    /\ UNCHANGED <<file, last, record, held>> /\ WorkKeeps

\* UpsertProcessedFile, under the name of the film: what was staged is known
\* by the size and mtime of its output, anything else by the film's own.
Remember ==
    /\ work.step \in {"remember", "rememberOutput"}
    /\ LET seen == IF work.step = "remember" THEN file[Source]
                   ELSE file[Output[Source]]
       IN  record' = IF seen = Missing THEN record
                     ELSE [record EXCEPT ![Source] = seen]
    /\ work' = NoWork
    /\ UNCHANGED <<file, last, row, held>> /\ WorkKeeps

Work == \/ \E r \in Rows : Claim(r)
        \/ EncodeFails \/ Place \/ Move \/ MoveFails \/ Stage \/ Remember

\* The encode of the running job, under its temporary or its final name.
BeingWritten ==
    CASE work.step = "encode" /\ Source \in Films -> {Temp[Source]}
      [] work.step \in {"move", "stage"} -> {Output[Source]}
      [] OTHER -> {}

\* Time passes. A file that is still being written, or has just been, is
\* younger than min_age.
Ripen(v) ==
    /\ v \in 1..last \ ripe
    /\ v \notin {file[p] : p \in BeingWritten}
    /\ ripe' = ripe \cup {v}
    /\ UNCHANGED <<file, last, record, rowVars, actorVars, historyVars>>

\* The process dies, and another one starts with ResetRunningJobs.
Crash ==
    /\ crashes < MaxCrashes
    /\ crashes' = crashes + 1
    /\ row' = [r \in Rows |-> IF row[r].status = "running"
                              THEN [row[r] EXCEPT !.status = "pending"]
                              ELSE row[r]]
    /\ scan' = [s \in Scanners |-> NoScan]
    /\ ask' = [c \in Clients |-> NoPath]
    /\ work' = NoWork
    /\ UNCHANGED <<diskVars, record, nextRow, held, historyVars>>

User == \/ \E c \in Clients : AskCheck(c) \/ AskInsert(c)
        \/ \E r \in Rows : Retry(r) \/ Cancel(r) \/ Restore(r) \/ Accept(r)
        \/ \E p \in Paths : Reprocess(p)
        \/ \E p \in Films : Edit(p)
        \/ ClearHistory

Next == \/ \E s \in Scanners : Walk(s)
        \/ User \/ Work
        \/ \E v \in Versions : Ripen(v)
        \/ Crash

Spec == Init /\ [][Next]_vars

\* The scheduler keeps scanning.
FairSpec == Spec /\ \A s \in Scheduled : WF_vars(Walk(s))

-----------------------------------------------------------------------------
(* Properties. *)

\* Every variable has its type, and a scan compares nothing with the database
\* before it has statted the file.
TypeOK ==
    /\ file \in [Paths -> Versions \cup {Missing}]
    /\ last \in Versions \cup {Missing}
    /\ ripe \subseteq Versions
    /\ record \in [Paths -> Versions \cup {Missing}]
    /\ row \in [Rows -> [path : Paths \cup {NoPath}, status : Statuses,
                         output : Paths \cup {NoPath}]]
    /\ nextRow \in 1..(MaxRows + 1)
    /\ held \in [Rows -> Versions \cup {Missing}]
    /\ scan \in [Scanners ->
                   [at : {"idle", "walk", "record", "forget", "status",
                          "output", "insert"},
                    path : Paths \cup {NoPath},
                    seen : Versions \cup {Missing},
                    todo : SUBSET DOMAIN Listing]]
    /\ \A s \in Scanners :
          scan[s].seen = Missing <=> scan[s].at \in {"idle", "walk"}
    /\ ask \in [Clients -> Paths \cup {NoPath}]
    /\ work \in [row : Rows \cup {NoRow}, path : Paths \cup {NoPath},
                 step : {"idle", "encode", "move", "stage", "remember",
                         "rememberOutput"}]
    /\ crashes \in 0..MaxCrashes
    /\ overlapped \subseteq Paths
    /\ cleared \subseteq Versions

\* A file waits or runs in one row at a time: a second row needs an enqueue or
\* a retry that relied on a status which another row had outdated by then. To
\* look at the latest row alone is enough for everybody else, whatever has
\* been retried, restored or cleared before (jobs.go:299, scanner.go:138-149).
OneActiveRow ==
    \A p \in Paths \ overlapped :
        Cardinality({r \in RowsOf(p) : Active(r)}) <= 1

Inserts(s) == scan[s].at = "insert" /\ scan'[s].at = "walk"

\* A scan never enqueues the file it has looked at if that is the output some
\* row names, or an encode being written: not between the rename of the output
\* and the UPDATE that records it, and not after the film has been restored
\* and encoded again (scanner.go:151-165, jobs.go:313-323).
EncodesStayOut ==
    [][\A s \in Scanners : Inserts(s) /\ file[scan[s].path] = scan[s].seen =>
          /\ ~OutputPathExists(scan[s].path)
          /\ scan[s].path \notin BeingWritten]_vars

\* A film that the scanner's rules call for.
Deserving(p) ==
    /\ file[p] \in ripe
    /\ record[p] # file[p]
    /\ SourcePathStatus(p) \in {"none", "failed", "restored", "error"}
    /\ ~OutputPathExists(p)
    /\ nextRow \in Rows

\* No film that deserves it waits for ever: some scan enqueues it, unless it
\* stops deserving it first - also after a failure, a restore, a crash in the
\* middle of a walk, or a scan that a request ended (scanner.go:121-209).
DeservingIsQueued == \A p \in Paths : Deserving(p) ~> ~Deserving(p)

\* "cleared files will NOT be re-queued by the scanner" (jobs.go:233-235): no
\* scan that looks at an encode, or at an excluded film, after its row has been
\* cleared enqueues it, unless a user asks for it (POST /files/reprocess).
ClearedStaysOut ==
    [][\A s \in Scanners : Inserts(s) => scan[s].seen \notin cleared]_vars
=============================================================================
