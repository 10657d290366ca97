------------------------------ MODULE Staging ------------------------------
(***************************************************************************)
(* The files of sqzarr: a film is encoded into a temporary file, which is  *)
(* verified and renamed next to it; the original is moved to the processed *)
(* directory and recorded in the originals table; later a user restores or *)
(* deletes it, or its retention period ends                                *)
(* (worker.go processJob, handlers.go handleRestoreOriginal and            *)
(* handleDeleteOriginal, originals_gc.go Sweep, main.go runRestore).       *)
(*                                                                         *)
(* One file-system call or one SQL statement is one step, and the process  *)
(* may die between any two. How rows are claimed, cancelled and retried is *)
(* the subject of JobQueue; here a row is claimed in one step.             *)
(***************************************************************************)
EXTENDS Naturals, Sequences, FiniteSets

CONSTANTS
    Films,      \* the names the films have in the library at the start
    Sources,    \* the names that may be enqueued
    Names,      \* every name the library may come to hold
    Candidates, \* per source: the output names OutputPath tries, in order
    Fallback,   \* per source: the name it settles for when all are taken
    Jobs,       \* ids of the jobs table, in creation order
    Originals,  \* ids of the originals table
    Workers,    \* goroutines encoding at one time
    Users,      \* restore and delete requests served at one time, CLI included
    MaxCrashes, \* bound on the crashes of one behaviour
    MayClear,   \* does anybody clear the history?
    IOMayFail,  \* may a rename, a remove or the INSERT of a record fail?
    NoFile, NoName, NoJob

NoRecord == 0
Gc == "gc"
Reviewers == Users \cup {Gc}
Content == [film : Films, kind : {"original", "encoded"}]

ASSUME NamesAssumption ==
    /\ Films \subseteq Names /\ Sources \subseteq Names
    /\ Candidates \in [Sources -> Seq(Names)]
    /\ Fallback \in [Sources -> Names]
    /\ NoName \notin Names /\ NoFile \notin Content
ASSUME JobsAssumption == Jobs \subseteq Nat \ {0} /\ NoJob = 0
ASSUME OriginalsAssumption == Originals \subseteq Nat \ {0}
ASSUME UsersAssumption == Gc \notin Users
ASSUME BoundsAssumption == /\ MaxCrashes \in Nat
                           /\ MayClear \in BOOLEAN /\ IOMayFail \in BOOLEAN

VARIABLES
    lib,        \* library: the file under each name
    held,       \* processed directory, per source name
    tmp,        \* temporary output, per source name
    status,     \* jobs.status
    path,       \* jobs.source_path
    result,     \* jobs.output_path, set when the job is staged
    record,     \* originals: no row, active, or deleted (deleted_at set)
    owner,      \* originals.job_id, whose source_path is original_path
    output,     \* originals.output_path
    bytes,      \* history: what the worker that wrote the record had moved
    expired,    \* active records whose expires_at has passed
    wpc, wjob, wout,    \* per worker: next step, its job, its output name
    wsrc,       \* history, per worker: the bytes it has moved
    rpc, rrec,          \* per reviewer: next step, the record it has read
    todo,       \* the records the sweep has listed and not yet come to
    clearing,   \* ClearHistory is between its two statements
    crashes,    \* crashes so far
    discarded   \* history: bytes a user or the retention period gave up

diskVars   == <<lib, held, tmp>>
rowVars    == <<status, path, result>>
recordVars == <<record, owner, output, bytes, expired>>
workVars   == <<wpc, wjob, wout, wsrc>>
reviewVars == <<rpc, rrec, todo>>
restVars   == <<clearing, crashes>>
vars == <<diskVars, rowVars, recordVars, workVars, reviewVars, restVars,
          discarded>>

Terminal == {"staged", "done", "restored", "skipped", "failed", "excluded"}
Statuses == {"unborn", "pending", "running", "cleared"} \cup Terminal

HasRow(j) == status[j] \notin {"unborn", "cleared"}

\* UPDATE jobs SET status = st WHERE id = j
SetStatus(j, st) ==
    status' = IF HasRow(j) THEN [status EXCEPT ![j] = st] ELSE status

Encoded(content) == [content EXCEPT !.kind = "encoded"]

\* Mutant of OutputPath: the first name, whether or not it is taken.
OutputPathUnchecked(n) == Candidates[n][1]

\* rename.OutputPath with FileExists.
OutputPath(n) ==
    LET free == {i \in DOMAIN Candidates[n] : lib[Candidates[n][i]] = NoFile}
    IN  IF free = {} THEN Fallback[n]
        ELSE Candidates[n][CHOOSE i \in free : \A k \in free : i <= k]

Init ==
    /\ lib = [n \in Names |-> IF n \in Films
                 THEN [film |-> n, kind |-> "original"] ELSE NoFile]
    /\ held = [n \in Sources |-> NoFile]
    /\ tmp = [n \in Sources |-> NoFile]
    /\ status = [j \in Jobs |-> "unborn"]
    /\ path = [j \in Jobs |-> NoName]
    /\ result = [j \in Jobs |-> NoName]
    /\ record = [o \in Originals |-> "unborn"]
    /\ owner = [o \in Originals |-> NoJob]
    /\ output = [o \in Originals |-> NoName]
    /\ bytes = [o \in Originals |-> NoFile]
    /\ expired = {}
    /\ wpc = [w \in Workers |-> "idle"]
    /\ wjob = [w \in Workers |-> NoJob]
    /\ wout = [w \in Workers |-> NoName]
    /\ wsrc = [w \in Workers |-> NoFile]
    /\ rpc = [r \in Reviewers |-> "idle"]
    /\ rrec = [r \in Reviewers |-> NoRecord]
    /\ todo = {}
    /\ clearing = FALSE
    /\ crashes = 0
    /\ discarded = {}

-----------------------------------------------------------------------------
(* Enqueueing. A retried row is one more attempt at its path, like a new   *)
(* row, and processed_files only ever keeps the scanner from enqueueing.   *)

\* The latest row for a name decides (SourcePathStatus).
LatestStatus(n) ==
    LET rows == {j \in Jobs : HasRow(j) /\ path[j] = n}
    IN  IF rows = {} THEN "none"
        ELSE status[CHOOSE j \in rows : \A k \in rows : k <= j]

\* By hand, or by the scanner, which takes restored files again and passes
\* over the output of any row.
Enqueue(n) ==
    /\ lib[n] # NoFile
    /\ \/ LatestStatus(n) \in {"none", "failed"}
       \/ /\ LatestStatus(n) = "restored"
          /\ \A k \in Jobs : HasRow(k) => result[k] # n
    /\ \E j \in Jobs :
          /\ status[j] = "unborn"
          /\ \A k \in Jobs : k < j => status[k] # "unborn"
          /\ status' = [status EXCEPT ![j] = "pending"]
          /\ path' = [path EXCEPT ![j] = n]
    /\ UNCHANGED <<diskVars, result, recordVars, workVars, reviewVars, restVars,
                   discarded>>

-----------------------------------------------------------------------------
(* A worker: processJob. *)

Advance(w, step) == wpc' = [wpc EXCEPT ![w] = step]

\* The worker has ended its job and knows nothing any more.
Leave(w) ==
    /\ wpc' = [wpc EXCEPT ![w] = "idle"]
    /\ wjob' = [wjob EXCEPT ![w] = NoJob]
    /\ wout' = [wout EXCEPT ![w] = NoName]
    /\ wsrc' = [wsrc EXCEPT ![w] = NoFile]

\* handleFailure and the other ways out that leave the original alone.
GiveUp(w) ==
    /\ \E st \in {"failed", "excluded"} : SetStatus(wjob[w], st)
    /\ Leave(w)

\* hasTempSpace cannot stat a source that has gone: the row is skipped.
Claim(w) ==
    /\ wpc[w] = "idle"
    /\ \E j \in Jobs :
          /\ status[j] = "pending"
          /\ IF lib[path[j]] = NoFile
             THEN SetStatus(j, "skipped") /\ UNCHANGED <<wpc, wjob>>
             ELSE /\ SetStatus(j, "running")
                  /\ Advance(w, "encode")
                  /\ wjob' = [wjob EXCEPT ![w] = j]
    /\ UNCHANGED <<diskVars, path, result, recordVars, wout, wsrc, reviewVars,
                   restVars, discarded>>

\* ffmpeg: a whole file, or none, Run having removed what a failure left.
\* What verification turns down is removed and counts as a failure here.
Encode(w) ==
    /\ wpc[w] = "encode"
    /\ LET n == path[wjob[w]] IN
       \/ /\ lib[n] # NoFile
          /\ tmp' = [tmp EXCEPT ![n] = Encoded(lib[n])]
          /\ Advance(w, "name")
          /\ UNCHANGED <<rowVars, wjob, wout, wsrc>>
       \/ /\ tmp' = [tmp EXCEPT ![n] = NoFile]
          /\ GiveUp(w) /\ UNCHANGED <<path, result>>
    /\ UNCHANGED <<lib, held, recordVars, reviewVars, restVars, discarded>>

\* The output name is chosen by looking which names are taken.
Choose(w) ==
    /\ wpc[w] = "name"
    /\ wout' = [wout EXCEPT ![w] = OutputPath(path[wjob[w]])]
    /\ Advance(w, "place")
    /\ UNCHANGED <<diskVars, rowVars, recordVars, wjob, wsrc, reviewVars,
                   restVars, discarded>>

\* os.Rename(outputPath, finalOutputPath) replaces whatever has the name.
Place(w) ==
    /\ wpc[w] = "place"
    /\ LET n == path[wjob[w]] IN
       \/ /\ tmp[n] # NoFile
          /\ lib' = [lib EXCEPT ![wout[w]] = tmp[n]]
          /\ tmp' = [tmp EXCEPT ![n] = NoFile]
          /\ Advance(w, "hold")
          /\ UNCHANGED <<rowVars, wjob, wout, wsrc>>
       \/ /\ IOMayFail \/ tmp[n] = NoFile
          /\ tmp' = [tmp EXCEPT ![n] = NoFile]
          /\ GiveUp(w) /\ UNCHANGED <<lib, path, result>>
    /\ UNCHANGED <<held, recordVars, reviewVars, restVars, discarded>>

\* Mutant of Hold: a move that failed goes unnoticed.
HoldUnchecked(w) ==
    /\ wpc[w] = "hold"
    /\ LET n == path[wjob[w]] IN
       \/ /\ lib[n] # NoFile
          /\ held' = [held EXCEPT ![n] = lib[n]]
          /\ lib' = [lib EXCEPT ![n] = NoFile]
          /\ wsrc' = [wsrc EXCEPT ![w] = lib[n]]
       \/ (IOMayFail \/ lib[n] = NoFile) /\ UNCHANGED <<held, lib, wsrc>>
    /\ Advance(w, "record")
    /\ UNCHANGED <<tmp, rowVars, recordVars, wjob, wout, reviewVars, restVars,
                   discarded>>

\* moveToProcessed; when it fails, the output is taken away again.
Hold(w) ==
    /\ wpc[w] = "hold"
    /\ LET n == path[wjob[w]] IN
       \/ /\ lib[n] # NoFile
          /\ held' = [held EXCEPT ![n] = lib[n]]
          /\ lib' = [lib EXCEPT ![n] = NoFile]
          /\ wsrc' = [wsrc EXCEPT ![w] = lib[n]]
          /\ Advance(w, "record")
          /\ UNCHANGED <<rowVars, wjob, wout>>
       \/ /\ IOMayFail \/ lib[n] = NoFile
          /\ lib' = [lib EXCEPT ![wout[w]] = NoFile]
          /\ GiveUp(w) /\ UNCHANGED <<held, path, result>>
    /\ UNCHANGED <<tmp, recordVars, reviewVars, restVars, discarded>>

\* InsertOriginal; its failure is logged and nothing else. The foreign key
\* makes it fail when the row of the job has gone.
Record(w) ==
    /\ wpc[w] = "record"
    /\ \/ /\ HasRow(wjob[w])
          /\ \E o \in Originals :
                /\ record[o] = "unborn"
                /\ \A p \in Originals : p < o => record[p] # "unborn"
                /\ record' = [record EXCEPT ![o] = "active"]
                /\ owner' = [owner EXCEPT ![o] = wjob[w]]
                /\ output' = [output EXCEPT ![o] = wout[w]]
                /\ bytes' = [bytes EXCEPT ![o] = wsrc[w]]
       \/ /\ IOMayFail \/ ~HasRow(wjob[w])
          /\ UNCHANGED <<record, owner, output, bytes>>
    /\ Advance(w, "stage")
    /\ UNCHANGED <<diskVars, rowVars, expired, wjob, wout, wsrc, reviewVars,
                   restVars, discarded>>

\* StageJob.
Stage(w) ==
    /\ wpc[w] = "stage"
    /\ SetStatus(wjob[w], "staged")
    /\ result' = [result EXCEPT ![wjob[w]] = IF HasRow(wjob[w])
                                             THEN wout[w] ELSE @]
    /\ Leave(w)
    /\ UNCHANGED <<diskVars, path, recordVars, reviewVars, restVars, discarded>>

Work(w) == \/ Claim(w) \/ Encode(w) \/ Choose(w) \/ Place(w)
           \/ Hold(w) \/ Record(w) \/ Stage(w)

-----------------------------------------------------------------------------
(* Restore, delete and the sweep. A request acts on the record it has read; *)
(* the sweep acts on those it listed, however long ago.                     *)

Step(r, next) == rpc' = [rpc EXCEPT ![r] = next]

End(r) == /\ rpc' = [rpc EXCEPT ![r] = "idle"]
          /\ rrec' = [rrec EXCEPT ![r] = NoRecord]

\* The name a record gives as original_path.
Path(o) == path[owner[o]]

\* GetOriginal, or GetOriginalByJobID, found an undeleted record.
Ask(u) ==
    /\ rpc[u] = "idle"
    /\ \E o \in Originals, first \in {"move", "remove"} :
          /\ record[o] = "active"
          /\ rpc' = [rpc EXCEPT ![u] = first]
          /\ rrec' = [rrec EXCEPT ![u] = o]
    /\ UNCHANGED <<diskVars, rowVars, recordVars, workVars, todo, restVars,
                   discarded>>

Expire ==
    /\ \E o \in Originals : /\ record[o] = "active" /\ o \notin expired
                            /\ expired' = expired \cup {o}
    /\ UNCHANGED <<diskVars, rowVars, record, owner, output, bytes, workVars,
                   reviewVars, restVars, discarded>>

\* ExpiredOriginals, once per sweep.
List ==
    /\ rpc[Gc] = "idle" /\ todo = {} /\ expired # {}
    /\ todo' = expired
    /\ UNCHANGED <<diskVars, rowVars, recordVars, workVars, rpc, rrec, restVars,
                   discarded>>

TakeNext ==
    /\ rpc[Gc] = "idle"
    /\ \E o \in todo : /\ todo' = todo \ {o}
                       /\ rpc' = [rpc EXCEPT ![Gc] = "remove"]
                       /\ rrec' = [rrec EXCEPT ![Gc] = o]
    /\ UNCHANGED <<diskVars, rowVars, recordVars, workVars, restVars,
                   discarded>>

\* Mutant of Move: goes on although there was nothing to move.
MoveUnchecked(r) ==
    /\ rpc[r] = "move"
    /\ LET n == Path(rrec[r]) IN
       IF held[n] = NoFile THEN UNCHANGED <<lib, held>>
       ELSE /\ lib' = [lib EXCEPT ![n] = held[n]]
            /\ held' = [held EXCEPT ![n] = NoFile]
    /\ Step(r, "drop")
    /\ UNCHANGED <<tmp, rowVars, recordVars, workVars, rrec, todo, restVars,
                   discarded>>

\* Mutant of Move: the two paths of the record swapped.
MoveToOutput(r) ==
    /\ rpc[r] = "move"
    /\ LET n == Path(rrec[r]) IN
       IF held[n] = NoFile THEN End(r) /\ UNCHANGED <<lib, held>>
       ELSE /\ lib' = [lib EXCEPT ![output[rrec[r]]] = held[n]]
            /\ held' = [held EXCEPT ![n] = NoFile]
            /\ Step(r, "drop") /\ UNCHANGED rrec
    /\ UNCHANGED <<tmp, rowVars, recordVars, workVars, todo, restVars,
                   discarded>>

\* os.Rename(held, original) replaces whatever has the name by now.
Move(r) ==
    /\ rpc[r] = "move"
    /\ LET n == Path(rrec[r]) IN
       \/ /\ held[n] # NoFile
          /\ lib' = [lib EXCEPT ![n] = held[n]]
          /\ held' = [held EXCEPT ![n] = NoFile]
          /\ Step(r, "drop") /\ UNCHANGED rrec
       \/ /\ IOMayFail \/ held[n] = NoFile
          /\ End(r) /\ UNCHANGED <<lib, held>>
    /\ UNCHANGED <<tmp, rowVars, recordVars, workVars, todo, restVars,
                   discarded>>

\* The encoded copy is removed; that it cannot be is no reason to stop. The
\* command line does not remove a copy that has the name of the original.
Drop(r) ==
    /\ rpc[r] = "drop"
    /\ LET out == output[rrec[r]] IN
       \/ lib' = [lib EXCEPT ![out] = NoFile]
       \/ (IOMayFail \/ out = Path(rrec[r])) /\ UNCHANGED lib
    /\ Step(r, "markRestored")
    /\ UNCHANGED <<held, tmp, rowVars, recordVars, workVars, rrec, todo,
                   restVars, discarded>>

\* Mutant of Remove: a held file that is missing is an error.
RemoveStrict(r) ==
    /\ rpc[r] = "remove"
    /\ IF held[Path(rrec[r])] = NoFile
       THEN End(r) /\ UNCHANGED <<held, discarded>>
       ELSE /\ held' = [held EXCEPT ![Path(rrec[r])] = NoFile]
            /\ discarded' = discarded \cup {bytes[rrec[r]]}
            /\ Step(r, "markDone") /\ UNCHANGED rrec
    /\ UNCHANGED <<lib, tmp, rowVars, recordVars, workVars, todo, restVars>>

\* A held file that is missing counts as removed.
Remove(r) ==
    /\ rpc[r] = "remove"
    /\ \/ /\ held' = [held EXCEPT ![Path(rrec[r])] = NoFile]
          /\ discarded' = discarded \cup {bytes[rrec[r]]}
          /\ Step(r, "markDone") /\ UNCHANGED rrec
       \/ /\ IOMayFail
          /\ End(r) /\ UNCHANGED <<held, discarded>>
    /\ UNCHANGED <<lib, tmp, rowVars, recordVars, workVars, todo, restVars>>

\* Mutant of Mark: WHERE original_path = ? in place of WHERE id = ?.
MarkByPath(r) ==
    /\ \/ rpc[r] = "markRestored" /\ Step(r, "restored")
       \/ rpc[r] = "markDone" /\ Step(r, "done")
    /\ record' = [o \in Originals |->
                     IF record[o] = "active" /\ Path(o) = Path(rrec[r])
                     THEN "deleted" ELSE record[o]]
    /\ expired' = {o \in expired : Path(o) # Path(rrec[r])}
    /\ UNCHANGED <<diskVars, rowVars, owner, output, bytes, workVars, rrec,
                   todo, restVars, discarded>>

\* MarkOriginalDeleted, of a record that may have been cleared.
Mark(r) ==
    /\ \/ rpc[r] = "markRestored" /\ Step(r, "restored")
       \/ rpc[r] = "markDone" /\ Step(r, "done")
    /\ record' = [record EXCEPT ![rrec[r]] =
                     IF @ = "active" THEN "deleted" ELSE @]
    /\ expired' = expired \ {rrec[r]}
    /\ UNCHANGED <<diskVars, rowVars, owner, output, bytes, workVars, rrec,
                   todo, restVars, discarded>>

\* The status is written whatever the row says by now.
Conclude(r) ==
    /\ LET j == owner[rrec[r]] IN
       \/ /\ rpc[r] = "restored"
          /\ \E st \in {"restored", "excluded"} : SetStatus(j, st)
       \/ rpc[r] = "done" /\ SetStatus(j, "done")
    /\ End(r)
    /\ UNCHANGED <<diskVars, path, result, recordVars, workVars, todo, restVars,
                   discarded>>

Review(r) == Move(r) \/ Drop(r) \/ Remove(r) \/ Mark(r) \/ Conclude(r)

-----------------------------------------------------------------------------
(* ClearHistory, its two statements, and the process. *)

ClearRecords ==
    /\ MayClear /\ ~clearing
    /\ \E j \in Jobs : status[j] \in Terminal
    /\ record' = [o \in Originals |->
                     IF record[o] # "unborn" /\ status[owner[o]] \in Terminal
                     THEN "cleared" ELSE record[o]]
    /\ expired' = {o \in expired : status[owner[o]] \notin Terminal}
    /\ clearing' = TRUE
    /\ UNCHANGED <<diskVars, rowVars, owner, output, bytes, workVars,
                   reviewVars, crashes, discarded>>

\* A record that has appeared meanwhile refers to a row about to be deleted:
\* the foreign key makes the statement fail, and no row is deleted.
ClearRows ==
    /\ clearing
    /\ clearing' = FALSE
    /\ LET gone == {j \in Jobs : status[j] \in Terminal}
           present == {o \in Originals : record[o] \in {"active", "deleted"}}
           referred == {owner[o] : o \in present}
       IN  IF gone \cap referred = {}
           THEN /\ status' = [j \in Jobs |-> IF j \in gone THEN "cleared"
                                             ELSE status[j]]
                /\ result' = [j \in Jobs |-> IF j \in gone THEN NoName
                                             ELSE result[j]]
           ELSE UNCHANGED <<status, result>>
    /\ UNCHANGED <<diskVars, path, recordVars, workVars, reviewVars, crashes,
                   discarded>>

Restoring == {"move", "drop", "markRestored", "restored"}

\* The daemon dies and starts again (ResetRunningJobs). A restore run from
\* the command line is a process of its own and may outlive it.
Crash ==
    /\ crashes < MaxCrashes
    /\ crashes' = crashes + 1
    /\ status' = [j \in Jobs |-> IF status[j] = "running" THEN "pending"
                                 ELSE status[j]]
    /\ wpc' = [w \in Workers |-> "idle"]
    /\ wjob' = [w \in Workers |-> NoJob]
    /\ wout' = [w \in Workers |-> NoName]
    /\ wsrc' = [w \in Workers |-> NoFile]
    /\ \E survivors \in SUBSET Users :
          /\ \A u \in survivors : rpc[u] \in Restoring
          /\ rpc' = [r \in Reviewers |-> IF r \in survivors THEN rpc[r]
                                        ELSE "idle"]
          /\ rrec' = [r \in Reviewers |-> IF r \in survivors THEN rrec[r]
                                         ELSE NoRecord]
    /\ todo' = {}
    /\ clearing' = FALSE
    /\ UNCHANGED <<diskVars, path, result, recordVars, discarded>>

Sweep == List \/ TakeNext

Next == \/ \E n \in Sources : Enqueue(n)
        \/ \E w \in Workers : Work(w)
        \/ \E u \in Users : Ask(u)
        \/ \E r \in Reviewers : Review(r)
        \/ Expire \/ Sweep
        \/ ClearRecords \/ ClearRows
        \/ Crash

Spec == Init /\ [][Next]_vars

\* Goroutines and requests run on, time passes, and the sweep comes round.
Fairness == /\ \A w \in Workers : WF_vars(Work(w))
            /\ \A r \in Reviewers : WF_vars(Review(r))
            /\ WF_vars(Expire) /\ WF_vars(Sweep) /\ WF_vars(ClearRows)

FairSpec == Spec /\ Fairness

-----------------------------------------------------------------------------
(* Properties. *)

\* Every variable has its type.
TypeOK ==
    /\ lib \in [Names -> Content \cup {NoFile}]
    /\ held \in [Sources -> Content \cup {NoFile}]
    /\ tmp \in [Sources -> Content \cup {NoFile}]
    /\ status \in [Jobs -> Statuses]
    /\ path \in [Jobs -> Sources \cup {NoName}]
    /\ result \in [Jobs -> Names \cup {NoName}]
    /\ record \in [Originals -> {"unborn", "active", "deleted", "cleared"}]
    /\ owner \in [Originals -> Jobs \cup {NoJob}]
    /\ output \in [Originals -> Names \cup {NoName}]
    /\ bytes \in [Originals -> Content \cup {NoFile}]
    /\ \A o \in Originals : record[o] # "unborn" =>
          owner[o] \in Jobs /\ output[o] \in Names /\ bytes[o] \in Content
    /\ expired \subseteq {o \in Originals : record[o] = "active"}
    /\ todo \subseteq Originals
    /\ wpc \in [Workers -> {"idle", "encode", "name", "place", "hold",
                            "record", "stage"}]
    /\ wjob \in [Workers -> Jobs \cup {NoJob}]
    /\ wout \in [Workers -> Names \cup {NoName}]
    /\ wsrc \in [Workers -> Content \cup {NoFile}]
    /\ rpc \in [Reviewers ->
                   {"idle", "remove", "markDone", "done"} \cup Restoring]
    /\ rrec \in [Reviewers -> Originals \cup {NoRecord}]
    /\ clearing \in BOOLEAN
    /\ crashes \in 0..MaxCrashes
    /\ discarded \subseteq Content

OnDisk(content) == \/ \E n \in Names : lib[n] = content
                   \/ \E n \in Sources : held[n] = content

\* The specification of Custody, the copies of a film being those found in
\* the library or the processed directory: whatever step fails and wherever
\* the process dies, each film keeps a whole copy, its original bytes go only
\* when an encoded copy is there, and the encoded copy goes only when the
\* original bytes are back.
Safekeeping == INSTANCE Custody WITH
    copies <- [f \in Films |-> {k \in {"original", "encoded"} :
                                   OnDisk([film |-> f, kind |-> k])}]

CustodyKept == Safekeeping!Spec

\* The original bytes of a film are on disk until somebody deletes them from
\* the review page, or the sweep does when their time is up: no crash, failed
\* step or race of restore, delete and sweep costs an original
\* (worker.go:286-337, handlers.go:1029-1097, originals_gc.go:45-66).
OriginalSurvives ==
    \A f \in Films : LET original == [film |-> f, kind |-> "original"] IN
                     original \in discarded \/ OnDisk(original)

\* An active record tells the truth about the original bytes it stands for:
\* they are in the processed directory under the path it names or back in the
\* library, or they were given up (originals.go ActiveOriginals, which the
\* review page shows).
RecordTellsWhere ==
    \A o \in Originals :
        record[o] = "active" /\ bytes[o].kind = "original"
        => \/ held[Path(o)] = bytes[o] \/ lib[Path(o)] = bytes[o]
           \/ bytes[o] \in discarded

\* Whatever lies in the processed directory can be restored and will be swept:
\* an active record names it, or the worker that put it there is about to
\* write one. Restores, deletes and sweeps that overlap leave no orphan behind.
HeldIsTracked ==
    \A n \in Sources : held[n] # NoFile =>
        \/ \E o \in Originals : record[o] = "active" /\ Path(o) = n
        \/ \E w \in Workers : wpc[w] = "record" /\ path[wjob[w]] = n

\* An expired original does not stay: the record is closed in the end.
ExpiredAreSwept ==
    \A o \in Originals : o \in expired ~> record[o] # "active"

-----------------------------------------------------------------------------
(* What the repository says of its files and the code does not do. *)

\* docs/architecture.md:12 "Never corrupt or lose a file": some whole copy of
\* every film is on disk.
NoFilmLost ==
    \A f \in Films : \E k \in {"original", "encoded"} :
        OnDisk([film |-> f, kind |-> k])
=============================================================================
