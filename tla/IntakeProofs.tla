---------------------------- MODULE IntakeProofs ----------------------------
(* Theorems about Intake, for every set of films, scans and requests and    *)
(* every bound.                                                            *)
EXTENDS Intake, FiniteSetTheorems, TLAPS

-----------------------------------------------------------------------------
(* Types. *)

\* What a variable means while somebody is using it.
Shape ==
    /\ ripe \subseteq 1..last
    /\ \A s \in Scanners : scan[s].at \notin {"idle", "walk"} =>
          scan[s].path \in Paths
    /\ \A r \in Rows : row[r].status # "none" =>
          row[r].path \in Paths /\ r < nextRow
    /\ \A r \in Rows : row[r].status \in {"staged", "done"} =>
          row[r].output \in Paths
    /\ work.step # "idle" =>
          work.row \in Rows /\ work.row < nextRow /\ work.path \in Paths
    /\ work.step \in {"move", "stage", "rememberOutput"} => work.path \in Films

ScanType == [at : {"idle", "walk", "record", "forget", "status", "output",
                   "insert"},
             path : Paths \cup {NoPath},
             seen : Versions \cup {Missing},
             todo : SUBSET DOMAIN Listing]
RowType  == [path : Paths \cup {NoPath}, status : Statuses,
             output : Paths \cup {NoPath}]

LEMMA ListingNames == \A i \in DOMAIN Listing : Listing[i] \in Paths
BY DEF Paths

LEMMA TypeInit == Init => TypeOK /\ Shape
<1> SUFFICES ASSUME Init PROVE TypeOK /\ Shape
    OBVIOUS
<1>1. /\ Cardinality(Films) \in Nat
      /\ Cardinality(Films) <= MaxVersion
      /\ MaxVersion \in Nat /\ MaxRows \in Nat /\ MaxCrashes \in Nat
      BY FS_CardinalityType, FilmsAssumption, BoundsAssumption
      DEF FilmsAssumption, BoundsAssumption
<1>2. file \in [Paths -> Versions \cup {Missing}]
      BY <1>1, PathsAssumption DEF Init, Versions, PathsAssumption
<1>3. last \in Versions \cup {Missing} /\ nextRow \in 1..(MaxRows + 1)
      BY <1>1 DEF Init, Versions, Missing
<1>4. /\ row \in [Rows -> RowType]
      /\ scan \in [Scanners -> ScanType]
      BY DEF Init, RowType, ScanType, Absent, NoScan, Statuses
<1>5. /\ ripe \subseteq Versions
      /\ record \in [Paths -> Versions \cup {Missing}]
      /\ held \in [Rows -> Versions \cup {Missing}]
      /\ \A s \in Scanners :
            scan[s].seen = Missing <=> scan[s].at \in {"idle", "walk"}
      /\ ask \in [Clients -> Paths \cup {NoPath}]
      /\ work \in [row : Rows \cup {NoRow}, path : Paths \cup {NoPath},
                   step : {"idle", "encode", "move", "stage", "remember",
                           "rememberOutput"}]
      /\ crashes \in 0..MaxCrashes
      /\ overlapped \subseteq Paths /\ cleared \subseteq Versions
      BY <1>1 DEF Init, NoScan, NoWork
<1>6. TypeOK BY <1>2, <1>3, <1>4, <1>5 DEF TypeOK, RowType, ScanType
<1>7. Shape BY DEF Init, Shape, NoScan, NoWork, Absent
<1> QED BY <1>6, <1>7

\* A scan that only moves on: what it is about to know is well typed.
LEMMA ScanMoves ==
    ASSUME TypeOK, Shape, NEW s \in Scanners, NEW new \in ScanType,
           scan' = [scan EXCEPT ![s] = new],
           new.seen = Missing <=> new.at \in {"idle", "walk"},
           new.at \notin {"idle", "walk"} => new.path \in Paths,
           UNCHANGED <<diskVars, rowVars, ask, work, crashes, cleared,
                       overlapped>>,
           record' \in [Paths -> Versions \cup {Missing}]
    PROVE  TypeOK' /\ Shape'
<1> USE DEF diskVars, rowVars
<1>1. TypeOK' BY DEF TypeOK, ScanType
<1>2. Shape' BY DEF Shape, TypeOK
<1> QED BY <1>1, <1>2

LEMMA WalkTypes ==
    ASSUME TypeOK, Shape, NEW s \in Scanners, Walk(s)
    PROVE  TypeOK' /\ Shape'
<1> USE DEF ScanKeeps
<1>0. scan \in [Scanners -> ScanType] /\ scan[s] \in ScanType
      BY DEF TypeOK, ScanType
<1>1. ASSUME NEW at \in {"record", "forget", "status", "output", "insert"},
             scan[s].at \notin {"idle", "walk"}
      PROVE  /\ [scan[s] EXCEPT !.at = at] \in ScanType
             /\ [scan[s] EXCEPT !.at = at].seen # Missing
             /\ [scan[s] EXCEPT !.at = at].path \in Paths
      BY <1>0, <1>1 DEF ScanType, TypeOK, Shape
<1>2. ASSUME NEW at \in {"record", "forget", "status", "output", "insert"},
             scan[s].at \notin {"idle", "walk"}, Goto(s, at),
             UNCHANGED <<diskVars, rowVars, ask, work, crashes, cleared,
                         overlapped>>,
             record' \in [Paths -> Versions \cup {Missing}]
      PROVE  TypeOK' /\ Shape'
  <2> DEFINE new == [scan[s] EXCEPT !.at = at]
  <2>1. scan' = [scan EXCEPT ![s] = new] BY <1>2 DEF Goto
  <2>2. /\ new \in ScanType /\ new.seen # Missing /\ new.path \in Paths
        /\ new.at = at
        BY <1>0, <1>1, <1>2 DEF ScanType
  <2> HIDE DEF new
  <2> QED BY <1>2, <2>1, <2>2, ScanMoves
<1> DEFINE skipped == [at |-> "walk", path |-> NoPath, seen |-> Missing,
                       todo |-> scan[s].todo]
<1>3. /\ skipped \in ScanType
      /\ Skip(s) => scan' = [scan EXCEPT ![s] = skipped]
      BY <1>0 DEF ScanType, Skip
<1>4. ASSUME Skip(s),
             UNCHANGED <<diskVars, rowVars, ask, work, crashes, cleared,
                         overlapped>>,
             record' \in [Paths -> Versions \cup {Missing}]
      PROVE  TypeOK' /\ Shape'
      BY <1>3, <1>4, ScanMoves
<1>5. CASE WalkStart(s)
  <2> DEFINE new == [scan[s] EXCEPT !.at = "walk",
                        !.todo = {i \in DOMAIN Listing :
                                     file[Listing[i]] # Missing}]
  <2>1. /\ new \in ScanType /\ new.at = "walk" /\ new.seen = scan[s].seen
        /\ scan[s].seen = Missing
        BY <1>0, <1>5 DEF ScanType, WalkStart, TypeOK
  <2>2. scan' = [scan EXCEPT ![s] = new] BY <1>5 DEF WalkStart
  <2>3. record' \in [Paths -> Versions \cup {Missing}]
        BY <1>5 DEF WalkStart, TypeOK
  <2> HIDE DEF new
  <2> QED BY <1>5, <2>1, <2>2, <2>3, ScanMoves DEF WalkStart
<1>6. CASE WalkNext(s)
  <2>1. PICK i \in NextIn(scan[s].todo) :
           scan' = IF file[Listing[i]] = Missing
                   THEN [scan EXCEPT ![s].todo = @ \ {i}]
                   ELSE [scan EXCEPT ![s] = Visit(i, scan[s].todo)]
        BY <1>6 DEF WalkNext
  <2>2. i \in DOMAIN Listing /\ scan[s].todo \ {i} \subseteq DOMAIN Listing
        BY <1>0 DEF NextIn, ScanType
  <2>3. Listing[i] \in Paths /\ file[Listing[i]] \in Versions \cup {Missing}
        BY <2>2, ListingNames DEF TypeOK
  <2>4. scan[s].at = "walk" /\ scan[s].seen = Missing
        BY <1>6 DEF WalkNext, TypeOK
  <2>5. record' \in [Paths -> Versions \cup {Missing}]
        BY <1>6 DEF WalkNext, TypeOK
  <2>6. CASE file[Listing[i]] = Missing
    <3> DEFINE new == [scan[s] EXCEPT !.todo = scan[s].todo \ {i}]
    <3>1. new \in ScanType /\ new.seen = Missing /\ new.at = "walk"
          BY <1>0, <2>2, <2>4 DEF ScanType
    <3>2. scan' = [scan EXCEPT ![s] = new] BY <2>1, <2>6
    <3> HIDE DEF new
    <3> QED BY <1>6, <2>5, <3>1, <3>2, ScanMoves DEF WalkNext
  <2>7. CASE file[Listing[i]] # Missing
    <3> DEFINE new == Visit(i, scan[s].todo)
    <3>1. /\ new \in ScanType /\ new.seen # Missing
          /\ new.at = "record" /\ new.path \in Paths
          BY <2>2, <2>3, <2>7 DEF ScanType, Visit
    <3>2. scan' = [scan EXCEPT ![s] = new] BY <2>1, <2>7
    <3> HIDE DEF new
    <3> QED BY <1>6, <2>5, <3>1, <3>2, ScanMoves DEF WalkNext
  <2> QED BY <2>6, <2>7
<1>7. CASE WalkEnd(s)
  <2>1. NoScan \in ScanType /\ NoScan.seen = Missing /\ NoScan.at = "idle"
        BY DEF NoScan, ScanType
  <2>2. record' \in [Paths -> Versions \cup {Missing}]
        BY <1>7 DEF WalkEnd, TypeOK
  <2> QED BY <1>7, <2>1, <2>2, ScanMoves DEF WalkEnd
<1>8. CASE WalkRecord(s)
      BY <1>2, <1>4, <1>8 DEF WalkRecord, TypeOK
<1>9. CASE WalkForget(s)
      BY <1>2, <1>9 DEF WalkForget, TypeOK
<1>10. CASE WalkStatus(s)
      BY <1>2, <1>4, <1>10 DEF WalkStatus, TypeOK
<1>11. CASE WalkOutput(s)
      BY <1>2, <1>4, <1>11 DEF WalkOutput, TypeOK
<1>12. CASE WalkInsert(s)
  <2>1. scan[s].path \in Paths BY <1>12 DEF WalkInsert, Shape
  <2>2. /\ row' \in [Rows -> RowType]
        /\ nextRow \in Rows /\ nextRow' = nextRow + 1
        /\ \A r \in Rows : r # nextRow => row'[r] = row[r]
        /\ row'[nextRow] = [path |-> scan[s].path, status |-> "pending",
                            output |-> NoPath]
        BY <1>12, <2>1
        DEF WalkInsert, InsertJob, TypeOK, RowType, Statuses
  <2>3. overlapped' \subseteq Paths
        BY <1>12, <2>1 DEF WalkInsert, InsertJob, TypeOK
  <2>4. nextRow' \in 1..(MaxRows + 1)
        BY <2>2, BoundsAssumption DEF Rows, BoundsAssumption
  <2>5. scan' = [scan EXCEPT ![s] = skipped]
        BY <1>3, <1>12 DEF WalkInsert
  <2>6. UNCHANGED <<file, last, ripe, record, held, ask, work, crashes,
                    cleared>>
        BY <1>12 DEF WalkInsert, InsertJob, diskVars
  <2>7. TypeOK'
        BY <1>3, <2>2, <2>3, <2>4, <2>5, <2>6
        DEF TypeOK, ScanType, RowType
  <2>8. Shape'
    <3>1. \A r \in Rows : row'[r].status # "none" =>
             row'[r].path \in Paths /\ r < nextRow'
          BY <2>1, <2>2 DEF Shape, Rows
    <3>2. \A r \in Rows : row'[r].status \in {"staged", "done"} =>
             row'[r].output \in Paths
          BY <2>2 DEF Shape
    <3>3. work.row \in Rows /\ work.row < nextRow => work.row < nextRow'
          BY <2>2 DEF Rows
    <3> QED BY <1>0, <2>5, <2>6, <3>1, <3>2, <3>3 DEF Shape
  <2> QED BY <2>7, <2>8
<1> HIDE DEF skipped
<1> QED BY <1>5, <1>6, <1>7, <1>8, <1>9, <1>10, <1>11, <1>12 DEF Walk

\* A new status for a row that exists.
LEMMA StatusType ==
    ASSUME TypeOK, Shape, NEW r \in Rows, NEW st \in Statuses \ {"none"},
           row[r].status # "none",
           st \in {"staged", "done"} => row[r].status \in {"staged", "done"},
           SetStatus(r, st)
    PROVE  /\ row' \in [Rows -> RowType]
           /\ \A k \in Rows : row'[k].status # "none" =>
                 row'[k].path \in Paths /\ k < nextRow
           /\ \A k \in Rows : row'[k].status \in {"staged", "done"} =>
                 row'[k].output \in Paths
BY DEF TypeOK, Shape, SetStatus, RowType

LEMMA ReviewTypes ==
    ASSUME TypeOK, Shape, NEW r \in Rows,
           Retry(r) \/ Cancel(r) \/ Restore(r) \/ Accept(r)
    PROVE  TypeOK' /\ Shape'
<1> USE DEF UserKeeps, historyVars, diskVars
<1>1. CASE Retry(r)
  <2>1. /\ row' \in [Rows -> RowType]
        /\ \A k \in Rows : row'[k].status # "none" =>
              row'[k].path \in Paths /\ k < nextRow
        /\ \A k \in Rows : row'[k].status \in {"staged", "done"} =>
              row'[k].output \in Paths
        BY <1>1, StatusType DEF Retry, Statuses
  <2>2. overlapped' \subseteq Paths BY <1>1 DEF Retry, TypeOK, Shape
  <2> QED BY <1>1, <2>1, <2>2 DEF Retry, TypeOK, Shape, RowType
<1>2. CASE Cancel(r)
  <2>1. /\ row' \in [Rows -> RowType]
        /\ \A k \in Rows : row'[k].status # "none" =>
              row'[k].path \in Paths /\ k < nextRow
        /\ \A k \in Rows : row'[k].status \in {"staged", "done"} =>
              row'[k].output \in Paths
        BY <1>2, StatusType DEF Cancel, Statuses, Terminal
  <2> QED BY <1>2, <2>1 DEF Cancel, TypeOK, Shape, RowType
<1>3. CASE Restore(r)
  <2>1. PICK st \in {"restored", "excluded"} : SetStatus(r, st)
        BY <1>3 DEF Restore
  <2>2. /\ row' \in [Rows -> RowType]
        /\ \A k \in Rows : row'[k].status # "none" =>
              row'[k].path \in Paths /\ k < nextRow
        /\ \A k \in Rows : row'[k].status \in {"staged", "done"} =>
              row'[k].output \in Paths
        BY <1>3, <2>1, StatusType DEF Restore, Statuses, Terminal
  <2>3. /\ file' \in [Paths -> Versions \cup {Missing}]
        /\ held' \in [Rows -> Versions \cup {Missing}]
        BY <1>3 DEF Restore, TypeOK
  <2> QED BY <1>3, <2>2, <2>3 DEF Restore, TypeOK, Shape, RowType
<1>4. CASE Accept(r)
  <2>1. /\ row' \in [Rows -> RowType]
        /\ \A k \in Rows : row'[k].status # "none" =>
              row'[k].path \in Paths /\ k < nextRow
        /\ \A k \in Rows : row'[k].status \in {"staged", "done"} =>
              row'[k].output \in Paths
        BY <1>4, StatusType DEF Accept, Statuses, Terminal
  <2>2. held' \in [Rows -> Versions \cup {Missing}]
        BY <1>4 DEF Accept, TypeOK
  <2> QED BY <1>4, <2>1, <2>2 DEF Accept, TypeOK, Shape, RowType
<1> QED BY <1>1, <1>2, <1>3, <1>4

LEMMA InsertType ==
    ASSUME TypeOK, Shape, NEW p \in Paths, NEW expected,
           InsertJob(p, expected)
    PROVE  /\ row' \in [Rows -> RowType]
           /\ nextRow' \in 1..(MaxRows + 1)
           /\ overlapped' \subseteq Paths
           /\ \A r \in Rows : row'[r].status # "none" =>
                 row'[r].path \in Paths /\ r < nextRow'
           /\ \A r \in Rows : row'[r].status \in {"staged", "done"} =>
                 row'[r].output \in Paths
           /\ \A r \in Rows : r < nextRow => r < nextRow'
<1>1. /\ nextRow \in Rows /\ nextRow' = nextRow + 1
      /\ row' = [row EXCEPT ![nextRow] =
                    [path |-> p, status |-> "pending", output |-> NoPath]]
      /\ overlapped' \subseteq Paths
      BY DEF InsertJob, TypeOK
<1>2. row' \in [Rows -> RowType]
      BY <1>1 DEF TypeOK, RowType, Statuses
<1>3. /\ nextRow' \in 1..(MaxRows + 1)
      /\ \A r \in Rows : r < nextRow => r < nextRow'
      BY <1>1, BoundsAssumption DEF Rows, BoundsAssumption
<1> QED BY <1>1, <1>2, <1>3 DEF Shape, Rows, TypeOK

LEMMA UserTypes ==
    ASSUME TypeOK, Shape, User
    PROVE  TypeOK' /\ Shape'
<1> USE DEF UserKeeps, historyVars, diskVars, rowVars
<1>1. ASSUME NEW c \in Clients, AskCheck(c) PROVE TypeOK' /\ Shape'
  <2>1. ask' \in [Clients -> Paths \cup {NoPath}]
        BY <1>1, AskedAssumption DEF AskCheck, TypeOK, AskedAssumption
  <2> QED BY <1>1, <2>1 DEF AskCheck, TypeOK, Shape
<1>2. ASSUME NEW c \in Clients, AskInsert(c) PROVE TypeOK' /\ Shape'
  <2>1. ask[c] \in Paths BY <1>2 DEF AskInsert, TypeOK
  <2>2. InsertJob(ask[c], Askable) BY <1>2 DEF AskInsert
  <2>3. ask' \in [Clients -> Paths \cup {NoPath}]
        BY <1>2 DEF AskInsert, TypeOK
  <2>4. UNCHANGED <<file, last, ripe, record, held, scan, work, crashes,
                    cleared>>
        BY <1>2, <2>2 DEF AskInsert, InsertJob
  <2>5. TypeOK' BY <2>1, <2>2, <2>3, <2>4, InsertType DEF TypeOK, RowType
  <2>6. Shape' BY <2>1, <2>2, <2>4, InsertType DEF Shape
  <2> QED BY <2>5, <2>6
<1>3. ASSUME NEW p \in Paths, Reprocess(p) PROVE TypeOK' /\ Shape'
      BY <1>3 DEF Reprocess, TypeOK, Shape
<1>4. ASSUME NEW p \in Films, Edit(p) PROVE TypeOK' /\ Shape'
  <2>1. p \in Paths BY PathsAssumption DEF PathsAssumption
  <2>2. last' \in Versions /\ last \in Nat /\ last' = last + 1
        BY <1>4, BoundsAssumption
        DEF Edit, TypeOK, Versions, Missing, BoundsAssumption
  <2>3. file' \in [Paths -> Versions \cup {Missing}]
        BY <1>4, <2>1, <2>2 DEF Edit, TypeOK
  <2> QED BY <1>4, <2>2, <2>3 DEF Edit, TypeOK, Shape
<1>5. CASE ClearHistory
  <2>1. PICK gone \in SUBSET Rows :
           /\ gone = {r \in Rows : row[r].status \in Terminal}
           /\ row' = [r \in Rows |-> IF r \in gone THEN Absent ELSE row[r]]
           /\ held' = [r \in Rows |-> IF r \in gone THEN Missing
                                      ELSE held[r]]
           /\ cleared' = (cleared \cup UNION {Handled(r) :
                             r \in gone \ {work.row}})
                         \ ({Missing} \cup {scan[s].seen : s \in Scanners})
        BY <1>5 DEF ClearHistory
  <2>2. UNCHANGED <<file, last, ripe, record, nextRow, scan, ask, work,
                    crashes, overlapped>>
        BY <1>5 DEF ClearHistory
  <2>3. row' \in [Rows -> RowType]
        BY <2>1 DEF TypeOK, RowType, Absent, Statuses
  <2>4. held' \in [Rows -> Versions \cup {Missing}]
        BY <2>1 DEF TypeOK
  <2>5. \A r \in gone : Handled(r) \subseteq Versions \cup {Missing}
        BY <2>1 DEF Handled, TypeOK, Shape, Terminal
  <2>6. cleared' \subseteq Versions
        BY <2>1, <2>5 DEF TypeOK
  <2>7. TypeOK' BY <2>2, <2>3, <2>4, <2>6 DEF TypeOK, RowType
  <2>8. \A r \in Rows : row'[r].status # "none" => row'[r] = row[r]
        BY <2>1 DEF Absent
  <2>9. Shape' BY <2>2, <2>8 DEF Shape
  <2> QED BY <2>7, <2>9
<1> QED BY <1>1, <1>2, <1>3, <1>4, <1>5, ReviewTypes DEF User

WorkType == [row : Rows \cup {NoRow}, path : Paths \cup {NoPath},
             step : {"idle", "encode", "move", "stage", "remember",
                     "rememberOutput"}]

\* What the worker does not do.
LEMMA WorkLeaves ==
    ASSUME Work
    PROVE  UNCHANGED <<ripe, nextRow, scan, ask, crashes, overlapped, cleared>>
BY DEF Work, Claim, EncodeFails, Place, Move, MoveFails, Stage, Remember,
   WorkKeeps, historyVars

\* What any step of the worker leaves well typed.
LEMMA WorkMoves ==
    ASSUME TypeOK, Shape,
           UNCHANGED <<ripe, nextRow, scan, ask, crashes, overlapped, cleared>>,
           file' \in [Paths -> Versions \cup {Missing}],
           last' \in Versions \cup {Missing}, last <= last', last \in Nat,
           record' \in [Paths -> Versions \cup {Missing}],
           held' \in [Rows -> Versions \cup {Missing}],
           row' \in [Rows -> RowType],
           \A r \in Rows : row'[r].status # "none" =>
               row'[r].path \in Paths /\ r < nextRow,
           \A r \in Rows : row'[r].status \in {"staged", "done"} =>
               row'[r].output \in Paths,
           work' \in WorkType,
           work'.step # "idle" =>
               /\ work'.row \in Rows /\ work'.row < nextRow
               /\ work'.path \in Paths,
           work'.step \in {"move", "stage", "rememberOutput"} =>
               work'.path \in Films
    PROVE  TypeOK' /\ Shape'
<1>1. TypeOK' BY DEF TypeOK, WorkType, RowType
<1>2. ripe \subseteq 1..last'
      BY DEF Shape, TypeOK, Versions, Missing
<1>3. Shape' BY <1>2 DEF Shape
<1> QED BY <1>1, <1>3

\* The worker's row is running until it is staged or given up: neither a user
\* nor a scan touches a row that runs.
WorkerRow ==
    work.step \in {"encode", "move", "stage"} =>
        row[work.row].status = "running" /\ row[work.row].path = work.path

LEMMA WorkTypes ==
    ASSUME TypeOK, Shape, Work,
           WorkerRow, last \in Nat
    PROVE  TypeOK' /\ Shape'
<1> USE DEF WorkKeeps, Job, Source, WorkerRow
<1>0. /\ work \in WorkType
      /\ row \in [Rows -> RowType]
      /\ NoWork \in WorkType /\ NoWork.step = "idle"
      /\ UNCHANGED <<ripe, nextRow, scan, ask, crashes, overlapped, cleared>>
      /\ last \in Versions \cup {Missing} /\ last <= last
      /\ record \in [Paths -> Versions \cup {Missing}]
      /\ held \in [Rows -> Versions \cup {Missing}]
      BY WorkLeaves DEF TypeOK, WorkType, RowType, NoWork
<1>10. ASSUME row' = row
       PROVE  /\ row' \in [Rows -> RowType]
              /\ \A k \in Rows : row'[k].status # "none" =>
                    row'[k].path \in Paths /\ k < nextRow
              /\ \A k \in Rows : row'[k].status \in {"staged", "done"} =>
                    row'[k].output \in Paths
       BY <1>0, <1>10 DEF Shape
<1>11. work.step \in {"encode", "move"} =>
          work.row \in Rows /\ work.row < nextRow /\ work.path \in Paths
       BY DEF Shape
<1>1. ASSUME GiveUp, work.step \in {"encode", "move"}
      PROVE  /\ row' \in [Rows -> RowType]
             /\ \A k \in Rows : row'[k].status # "none" =>
                   row'[k].path \in Paths /\ k < nextRow
             /\ \A k \in Rows : row'[k].status \in {"staged", "done"} =>
                   row'[k].output \in Paths
             /\ work' = NoWork \/ work' = [work EXCEPT !.step = "remember"]
  <2>1. PICK st \in {"failed", "cancelled", "error", "excluded"} :
           SetStatus(work.row, st)
        BY <1>1 DEF GiveUp
  <2>2. work.row \in Rows BY <1>1 DEF Shape
  <2>3. work' = NoWork \/ work' = [work EXCEPT !.step = "remember"]
        BY <1>1 DEF GiveUp, Step
  <2> QED BY <1>1, <2>1, <2>2, <2>3, StatusType DEF Statuses, Terminal
<1>2. ASSUME NEW step \in {"move", "stage", "rememberOutput", "remember"},
             work.step # "idle", Step(step)
      PROVE  /\ work' \in WorkType /\ work'.step = step
             /\ work'.row = work.row /\ work'.path = work.path
             /\ work.row \in Rows /\ work.row < nextRow /\ work.path \in Paths
  <2>1. work' = [work EXCEPT !.step = step] BY <1>2 DEF Step
  <2> QED BY <1>0, <1>2, <2>1 DEF WorkType, Shape
<1>3. ASSUME NEW r \in Rows, Claim(r) PROVE TypeOK' /\ Shape'
  <2> DEFINE p == row[r].path
  <2>1. p \in Paths /\ r < nextRow BY <1>3 DEF Claim, Shape
  <2>2. CASE file[p] = Missing
    <3>1. /\ SetStatus(r, "skipped")
          /\ UNCHANGED <<file, last, work, record, held>>
          BY <1>3, <2>2 DEF Claim
    <3>2. /\ row' \in [Rows -> RowType]
          /\ \A k \in Rows : row'[k].status # "none" =>
                row'[k].path \in Paths /\ k < nextRow
          /\ \A k \in Rows : row'[k].status \in {"staged", "done"} =>
                row'[k].output \in Paths
          BY <1>3, <3>1, StatusType DEF Claim, Statuses, Terminal
    <3>3. file' \in [Paths -> Versions \cup {Missing}]
          BY <3>1 DEF TypeOK
    <3>4. work' = NoWork BY <1>3, <3>1 DEF Claim
    <3> QED BY <1>0, <3>1, <3>2, <3>3, <3>4, WorkMoves
  <2>3. CASE file[p] # Missing
    <3>1. /\ SetStatus(r, "running")
          /\ work' = [row |-> r, path |-> p, step |-> "encode"]
          /\ UNCHANGED <<record, held>>
          BY <1>3, <2>3 DEF Claim
    <3>2. /\ row' \in [Rows -> RowType]
          /\ \A k \in Rows : row'[k].status # "none" =>
                row'[k].path \in Paths /\ k < nextRow
          /\ \A k \in Rows : row'[k].status \in {"staged", "done"} =>
                row'[k].output \in Paths
          BY <1>3, <3>1, StatusType DEF Claim, Statuses
    <3>3. /\ file' \in [Paths -> Versions \cup {Missing}]
          /\ last' \in Versions \cup {Missing} /\ last <= last'
      <4>1. CASE p \in Films
        <5>1. /\ last < MaxVersion /\ last' = last + 1
              /\ file' = [file EXCEPT ![Temp[p]] = last']
              BY <1>3, <2>3, <4>1 DEF Claim
        <5>2. last' \in Versions
              BY <5>1, BoundsAssumption DEF Versions, BoundsAssumption
        <5>3. Temp[p] \in Paths
              BY <4>1, PathsAssumption DEF PathsAssumption
        <5>4. last <= last' BY <5>1
        <5> HIDE DEF p
        <5> QED BY <5>1, <5>2, <5>3, <5>4 DEF TypeOK
      <4>2. CASE p \notin Films
        <5>1. UNCHANGED <<file, last>> BY <1>3, <2>3, <4>2 DEF Claim
        <5> QED BY <5>1 DEF TypeOK
      <4> QED BY <4>1, <4>2
    <3>4. work' \in WorkType BY <2>1, <3>1 DEF WorkType
    <3> HIDE DEF p
    <3>5. work'.row = r /\ work'.path = p /\ work'.step = "encode" BY <3>1
    <3> QED BY <1>0, <2>1, <3>1, <3>2, <3>3, <3>4, <3>5, WorkMoves
  <2> QED BY <2>2, <2>3
<1>4. CASE EncodeFails
  <2>1. GiveUp /\ work.step = "encode" /\ UNCHANGED <<last, record, held>>
        BY <1>4 DEF EncodeFails
  <2>2. file' \in [Paths -> Versions \cup {Missing}]
        BY <1>4 DEF EncodeFails, TypeOK
  <2>3. work' = NoWork \/ Step("remember") BY <1>1, <2>1 DEF Step
  <2>4. CASE work' = NoWork BY <1>0, <1>1, <2>1, <2>2, <2>4, WorkMoves
  <2>5. CASE Step("remember")
        BY <1>0, <1>1, <1>2, <2>1, <2>2, <2>5, WorkMoves
  <2> QED BY <2>3, <2>4, <2>5
<1>5. CASE Place
  <2>1. /\ work.step = "encode" /\ work.path \in Films /\ Step("move")
        /\ UNCHANGED <<last, record, row, held>>
        BY <1>5 DEF Place
  <2>2. file' \in [Paths -> Versions \cup {Missing}]
        BY <1>5, PathsAssumption DEF Place, TypeOK, PathsAssumption
  <2> QED BY <1>0, <1>2, <1>10, <2>1, <2>2, WorkMoves
<1>6. CASE Move
  <2>1. /\ work.step = "move" /\ work.path \in Films /\ Step("stage")
        /\ UNCHANGED <<last, record, row>>
        BY <1>6 DEF Move, Shape
  <2>2. /\ file' \in [Paths -> Versions \cup {Missing}]
        /\ held' \in [Rows -> Versions \cup {Missing}]
        BY <1>6, <2>1, PathsAssumption DEF Move, TypeOK, PathsAssumption
  <2> QED BY <1>0, <1>2, <1>10, <2>1, <2>2, WorkMoves
<1>7. CASE MoveFails
  <2>1. GiveUp /\ work.step = "move" /\ UNCHANGED <<last, record, held>>
        BY <1>7 DEF MoveFails
  <2>2. file' \in [Paths -> Versions \cup {Missing}]
        BY <1>7 DEF MoveFails, TypeOK
  <2>3. work' = NoWork \/ Step("remember") BY <1>1, <2>1 DEF Step
  <2>4. CASE work' = NoWork BY <1>0, <1>1, <2>1, <2>2, <2>4, WorkMoves
  <2>5. CASE Step("remember")
        BY <1>0, <1>1, <1>2, <2>1, <2>2, <2>5, WorkMoves
  <2> QED BY <2>3, <2>4, <2>5
<1>8. CASE Stage
  <2>1. /\ work.step = "stage" /\ work.path \in Films /\ Step("rememberOutput")
        /\ UNCHANGED <<file, last, record, held>>
        BY <1>8 DEF Stage, Shape
  <2>2. Output[work.path] \in Paths BY <2>1, PathsAssumption DEF PathsAssumption
  <2>3. row' = [row EXCEPT ![work.row].status = "staged",
                           ![work.row].output = Output[work.path]]
        BY <1>8 DEF Stage
  <2>4. /\ row' \in [Rows -> RowType]
        /\ \A k \in Rows : row'[k].status # "none" =>
              row'[k].path \in Paths /\ k < nextRow
        /\ \A k \in Rows : row'[k].status \in {"staged", "done"} =>
              row'[k].output \in Paths
        BY <1>0, <2>1, <2>2, <2>3 DEF RowType, Shape, Statuses, Terminal
  <2>5. file' \in [Paths -> Versions \cup {Missing}] BY <2>1 DEF TypeOK
  <2> QED BY <1>0, <1>2, <2>1, <2>4, <2>5, WorkMoves
<1>9. CASE Remember
  <2>1. /\ work' = NoWork /\ UNCHANGED <<file, last, row, held>>
        /\ work.step \in {"remember", "rememberOutput"}
        BY <1>9 DEF Remember
  <2>2. record' \in [Paths -> Versions \cup {Missing}]
    <3>1. file[work.path] \in Versions \cup {Missing}
          BY <2>1 DEF TypeOK, Shape
    <3>2. work.step = "rememberOutput" =>
             file[Output[work.path]] \in Versions \cup {Missing}
          BY PathsAssumption DEF TypeOK, Shape, PathsAssumption
    <3> QED BY <1>9, <2>1, <3>1, <3>2 DEF Remember, TypeOK
  <2>3. file' \in [Paths -> Versions \cup {Missing}] BY <2>1 DEF TypeOK
  <2> QED BY <1>0, <1>10, <2>1, <2>2, <2>3, WorkMoves
<1> QED BY <1>3, <1>4, <1>5, <1>6, <1>7, <1>8, <1>9, Zenon DEF Work

LEMMA RestTypes ==
    ASSUME TypeOK, Shape,
           Crash \/ (\E v \in Versions : Ripen(v)) \/ UNCHANGED vars
    PROVE  TypeOK' /\ Shape'
<1> USE DEF diskVars, rowVars, actorVars, historyVars
<1>1. CASE Crash
  <2>1. NoScan \in ScanType /\ NoScan.at = "idle" /\ NoScan.seen = Missing
        BY DEF NoScan, ScanType
  <2>2. /\ scan' \in [Scanners -> ScanType]
        /\ \A s \in Scanners : scan'[s] = NoScan
        BY <1>1, <2>1 DEF Crash
  <2>3. row' \in [Rows -> RowType]
        BY <1>1 DEF Crash, TypeOK, RowType, Statuses
  <2>4. ASSUME NEW r \in Rows
        PROVE  /\ row'[r].path = row[r].path
               /\ row'[r].output = row[r].output
               /\ row'[r].status # "none" => row[r].status # "none"
               /\ row'[r].status \in {"staged", "done"} =>
                      row'[r].status = row[r].status
        BY <1>1 DEF Crash, TypeOK
  <2>5. NoWork \in WorkType /\ NoWork.step = "idle" BY DEF NoWork, WorkType
  <2>6. crashes' \in 0..MaxCrashes
        BY <1>1, BoundsAssumption DEF Crash, TypeOK, BoundsAssumption
  <2>7. ask' \in [Clients -> Paths \cup {NoPath}] BY <1>1 DEF Crash
  <2>8. UNCHANGED <<file, last, ripe, record, nextRow, held, overlapped,
                    cleared>> /\ work' = NoWork
        BY <1>1 DEF Crash
  <2>9. TypeOK' BY <2>1, <2>2, <2>3, <2>5, <2>6, <2>7, <2>8
               DEF TypeOK, ScanType, RowType, WorkType
  <2>10. Shape'
    <3>1. ASSUME NEW r \in Rows
          PROVE  /\ row'[r].status # "none" =>
                        row'[r].path \in Paths /\ r < nextRow
                 /\ row'[r].status \in {"staged", "done"} =>
                        row'[r].output \in Paths
          BY <2>4, <3>1 DEF Shape
    <3>2. \A s \in Scanners : scan'[s].at \notin {"idle", "walk"} =>
                                  scan'[s].path \in Paths
          BY <2>1, <2>2
    <3>3. ripe' \subseteq 1..last' BY <2>8 DEF Shape
    <3>4. work'.step = "idle" BY <2>5, <2>8
    <3> QED BY <2>8, <3>1, <3>2, <3>3, <3>4 DEF Shape
  <2> QED BY <2>9, <2>10
<1>2. ASSUME NEW v \in Versions, Ripen(v) PROVE TypeOK' /\ Shape'
      BY <1>2 DEF Ripen, TypeOK, Shape
<1>3. CASE UNCHANGED vars BY <1>3 DEF vars, TypeOK, Shape
<1> QED BY <1>1, <1>2, <1>3

LEMMA InsertKeeps ==
    ASSUME TypeOK, Shape, NEW p, NEW expected, InsertJob(p, expected),
           NEW r \in Rows, row[r].status # "none"
    PROVE  row'[r] = row[r]
BY DEF InsertJob, Shape, TypeOK, Rows

LEMMA WorkerRowKept ==
    ASSUME TypeOK, Shape, WorkerRow, [Next]_vars
    PROVE  WorkerRow'
<1> USE DEF WorkerRow
<1>1. ASSUME work' = work,
             \A r \in Rows : row[r].status = "running" => row'[r] = row[r]
      PROVE  WorkerRow'
  <2>1. work.step \in {"encode", "move", "stage"} => work.row \in Rows
        BY DEF Shape
  <2> QED BY <1>1, <2>1
<1>2. ASSUME NEW s \in Scanners, Walk(s) PROVE WorkerRow'
  <2>1. work' = work
        BY <1>2 DEF Walk, WalkStart, WalkNext, WalkEnd, WalkRecord, WalkForget,
           WalkStatus, WalkOutput, WalkInsert, ScanKeeps
  <2>2. row' = row \/ InsertJob(scan[s].path, Requeueable)
        BY <1>2 DEF Walk, WalkStart, WalkNext, WalkEnd, WalkRecord, WalkForget,
           WalkStatus, WalkOutput, WalkInsert, rowVars
  <2> QED BY <1>1, <2>1, <2>2, InsertKeeps
<1>3. CASE User
  <2>1. work' = work
        BY <1>3 DEF User, AskCheck, AskInsert, Retry, Cancel, Restore, Accept,
           Reprocess, Edit, ClearHistory, UserKeeps
  <2>2. \A r \in Rows : row[r].status = "running" => row'[r] = row[r]
    <3> SUFFICES ASSUME NEW r \in Rows, row[r].status = "running"
                 PROVE  row'[r] = row[r]
        OBVIOUS
    <3>1. ASSUME NEW k \in Rows,
                 Retry(k) \/ Cancel(k) \/ Restore(k) \/ Accept(k)
          PROVE  row'[r] = row[r]
          BY <3>1 DEF Retry, Cancel, Restore, Accept, SetStatus, TypeOK
    <3>2. ASSUME NEW c \in Clients, AskInsert(c) PROVE row'[r] = row[r]
          BY <3>2, InsertKeeps DEF AskInsert
    <3>3. ASSUME ClearHistory PROVE row'[r] = row[r]
          BY <3>3 DEF ClearHistory, Terminal, TypeOK
    <3> QED BY <1>3, <3>1, <3>2, <3>3
            DEF User, AskCheck, Reprocess, Edit, rowVars
  <2> QED BY <1>1, <2>1, <2>2
<1>4. CASE Work
  <2> USE DEF Job, Source, Step
  <2>1. ASSUME NEW r \in Rows, Claim(r) PROVE WorkerRow'
    <3>1. CASE work' = work
          BY <2>1, <3>1 DEF Claim, NoWork
    <3>2. CASE work' # work
          BY <2>1, <3>2 DEF Claim, SetStatus, TypeOK
    <3> QED BY <3>1, <3>2
  <2>2. CASE EncodeFails
        BY <2>2 DEF EncodeFails, GiveUp, NoWork, TypeOK
  <2>3. CASE Place BY <2>3 DEF Place, TypeOK
  <2>4. CASE Move BY <2>4 DEF Move, TypeOK
  <2>5. CASE MoveFails BY <2>5 DEF MoveFails, GiveUp, NoWork, TypeOK
  <2>6. CASE Stage BY <2>6 DEF Stage, TypeOK
  <2>7. CASE Remember BY <2>7 DEF Remember, NoWork
  <2> QED BY <1>4, <2>1, <2>2, <2>3, <2>4, <2>5, <2>6, <2>7 DEF Work
<1>5. ASSUME NEW v \in Versions, Ripen(v) PROVE WorkerRow'
      BY <1>5 DEF Ripen, rowVars, actorVars
<1>6. CASE Crash BY <1>6 DEF Crash, NoWork
<1>7. CASE UNCHANGED vars
      BY <1>7 DEF vars, rowVars, actorVars
<1> QED BY <1>2, <1>3, <1>4, <1>5, <1>6, <1>7 DEF Next

Typed == TypeOK /\ Shape /\ WorkerRow

LEMMA TypedInit == Init => Typed
BY TypeInit DEF Init, Typed, WorkerRow, NoWork

LEMMA TypedStep == Typed /\ [Next]_vars => Typed'
<1> SUFFICES ASSUME Typed, [Next]_vars PROVE Typed'
    OBVIOUS
<1>1. last \in Nat
      BY BoundsAssumption DEF Typed, TypeOK, Versions, Missing, BoundsAssumption
<1>2. TypeOK' /\ Shape'
      BY <1>1, WalkTypes, UserTypes, WorkTypes, RestTypes DEF Typed, Next
<1> QED BY <1>2, WorkerRowKept DEF Typed

\* Every variable has its type: a scan works with names of the directory, a
\* row that is somebody's job stays that job, and the worker's row is there
\* when it writes to it (scanner.go:121-209, worker.go:209-450).
THEOREM TypeCorrect == Spec => []TypeOK
<1>1. Init => Typed BY TypedInit
<1>2. Typed /\ [Next]_vars => Typed' BY TypedStep
<1>3. Typed => TypeOK BY DEF Typed
<1> QED BY <1>1, <1>2, <1>3, PTL DEF Spec

-----------------------------------------------------------------------------
(* A scan enqueues no encode.                                              *)

\* An encode is young until the row that names it is written; outputs have
\* names that no film has, and only films are kept in the processed directory.
Unripe == \A p \in BeingWritten : file[p] \notin ripe
Apart  == /\ \A r \in Rows : row[r].output \notin Films
          /\ \A r \in Rows : held[r] # Missing =>
                row[r].path \in Films /\ row[r].status # "none"
Looked == \A s \in Scanners : scan[s].at = "insert" =>
              /\ scan[s].seen \in ripe
              /\ file[scan[s].path] = scan[s].seen =>
                    ~OutputPathExists(scan[s].path)
EncodesInv == Typed /\ Unripe /\ Apart /\ Looked

LEMMA Names == /\ Films \subseteq Paths /\ NoPath \notin Paths
               /\ \A p \in Films : /\ Temp[p] \in Paths /\ Temp[p] \notin Films
                                   /\ Output[p] \in Paths
                                   /\ Output[p] \notin Films
BY PathsAssumption, ListingAssumption DEF PathsAssumption, ListingAssumption

LEMMA Young == TypeOK /\ Shape => /\ last \in Nat /\ last + 1 \notin ripe
                                  /\ Missing \notin ripe
BY BoundsAssumption DEF TypeOK, Shape, Versions, Missing, BoundsAssumption

LEMMA BeingWrittenIs ==
    TypeOK /\ Shape => BeingWritten \in SUBSET (Paths \ Films)
BY Names DEF BeingWritten, Shape, Source

\* What a scan does to everything but itself.
LEMMA WalkLeaves ==
    ASSUME NEW s \in Scanners, Walk(s)
    PROVE  /\ UNCHANGED <<file, last, ripe, held, work>>
           /\ row' = row \/ InsertJob(scan[s].path, Requeueable)
BY DEF Walk, WalkStart, WalkNext, WalkEnd, WalkRecord, WalkForget, WalkStatus,
   WalkOutput, WalkInsert, ScanKeeps, InsertJob, diskVars, rowVars

\* What users do not do.
LEMMA UserLeaves ==
    ASSUME User
    PROVE  UNCHANGED <<ripe, scan, work, crashes>>
BY DEF User, AskCheck, AskInsert, Retry, Cancel, Restore, Accept, Reprocess,
   Edit, ClearHistory, UserKeeps, diskVars

\* Under the name of no film there is, after a step, what was there before, or
\* something young, or nothing.
LEMMA NewContents ==
    ASSUME EncodesInv, [Next]_vars, NEW p \in Paths \ Films
    PROVE  file'[p] = file[p] \/ file'[p] \notin ripe'
<1> USE DEF EncodesInv, Typed
<1>0. /\ Missing \notin ripe /\ last + 1 \notin ripe
      /\ file \in [Paths -> Versions \cup {Missing}]
      BY Young DEF TypeOK
<1>1. CASE file' = file BY <1>1
<1>2. ASSUME NEW r \in Rows, Restore(r) PROVE file'[p] \notin ripe'
                                              \/ file'[p] = file[p]
  <2>1. row[r].path \in Films BY <1>2 DEF Restore, Apart
  <2> QED BY <1>0, <1>2, <2>1 DEF Restore, UserKeeps
<1>3. ASSUME NEW q \in Films, Edit(q) PROVE file'[p] = file[p]
      BY <1>0, <1>3 DEF Edit
<1>4. CASE User
      BY <1>1, <1>2, <1>3, <1>4 DEF User, AskCheck, AskInsert, Retry, Cancel,
         Accept, Reprocess, ClearHistory, diskVars
<1>5. CASE Work
  <2> USE DEF Source
  <2>0. ripe' = ripe BY <1>5, WorkLeaves
  <2>1. ASSUME NEW r \in Rows, Claim(r)
        PROVE  file' = file \/ \E q \in Paths :
                                  file' = [file EXCEPT ![q] = last + 1]
        BY <2>1, Names DEF Claim
  <2>2. CASE EncodeFails BY <1>0, <2>0, <2>2 DEF EncodeFails
  <2>3. ASSUME Place PROVE file'[p] \notin ripe' \/ file'[p] = file[p]
    <3>1. /\ work.step = "encode" /\ work.path \in Films
          /\ file' = [file EXCEPT ![Output[work.path]] = file[Temp[work.path]],
                                  ![Temp[work.path]] = Missing]
          BY <2>3 DEF Place
    <3>2. file[Temp[work.path]] \notin ripe
          BY <3>1 DEF Unripe, BeingWritten
    <3> QED BY <1>0, <2>0, <3>1, <3>2
  <2>4. CASE Move BY <1>0, <2>0, <2>4 DEF Move
  <2>5. CASE MoveFails BY <1>0, <2>0, <2>5 DEF MoveFails
  <2>6. CASE Stage \/ Remember BY <2>6 DEF Stage, Remember
  <2> QED BY <1>0, <1>5, <2>0, <2>1, <2>2, <2>3, <2>4, <2>5, <2>6 DEF Work
<1> QED BY <1>1, <1>4, <1>5, WalkLeaves DEF Next, Ripen, Crash, vars, diskVars

\* A row comes to name only the encode that the worker has just placed.
LEMMA NewOutputs ==
    ASSUME EncodesInv, [Next]_vars, NEW r \in Rows
    PROVE  \/ row'[r].output \in {row[r].output, NoPath}
           \/ row'[r].output \in BeingWritten
<1> USE DEF EncodesInv, Typed
<1>0. row \in [Rows -> RowType] BY DEF TypeOK, RowType
<1>1. ASSUME NEW q, NEW expected, InsertJob(q, expected)
      PROVE  row'[r].output \in {row[r].output, NoPath}
      BY <1>0, <1>1 DEF InsertJob
<1>2. ASSUME NEW k \in Rows, NEW st, SetStatus(k, st)
      PROVE  row'[r].output = row[r].output
      BY <1>0, <1>2 DEF SetStatus, RowType
<1>3. CASE User
  <2>1. ASSUME ClearHistory PROVE row'[r].output \in {row[r].output, NoPath}
        BY <2>1 DEF ClearHistory, Absent
  <2>2. ASSUME NEW k \in Rows,
               Retry(k) \/ Cancel(k) \/ Restore(k) \/ Accept(k)
        PROVE  row'[r].output = row[r].output
        BY <1>2, <2>2 DEF Retry, Cancel, Restore, Accept
  <2> QED BY <1>1, <1>3, <2>1, <2>2
          DEF User, AskCheck, AskInsert, Reprocess, Edit, rowVars
<1>4. CASE Work
  <2> USE DEF Source, Job
  <2>1. ASSUME NEW k \in Rows, Claim(k) PROVE row'[r].output = row[r].output
        BY <1>2, <2>1 DEF Claim
  <2>2. ASSUME GiveUp, work.step \in {"encode", "move"}
        PROVE  row'[r].output = row[r].output
    <3>1. work.row \in Rows BY <2>2 DEF Shape
    <3> QED BY <1>2, <2>2, <3>1 DEF GiveUp
  <2>3. ASSUME Stage PROVE \/ row'[r].output = row[r].output
                           \/ row'[r].output \in BeingWritten
    <3>1. work.row \in Rows /\ work.step = "stage" BY <2>3 DEF Stage, Shape
    <3>2. BeingWritten = {Output[work.path]} BY <3>1 DEF BeingWritten
    <3> QED BY <1>0, <2>3, <3>1, <3>2 DEF Stage, RowType
  <2> QED BY <1>4, <2>1, <2>2, <2>3
          DEF Work, EncodeFails, Place, Move, MoveFails, Remember
<1>5. CASE Crash BY <1>0, <1>5 DEF Crash, RowType
<1> QED BY <1>1, <1>3, <1>4, <1>5, WalkLeaves
        DEF Next, Ripen, vars, rowVars

\* A row stays the row of its film until it goes, original and all.
LEMMA RowsStay ==
    ASSUME Typed, [Next]_vars, NEW r \in Rows, row[r].status # "none"
    PROVE  \/ row'[r].path = row[r].path /\ row'[r].status # "none"
           \/ held'[r] = Missing
<1> USE DEF Typed
<1>0. row \in [Rows -> RowType] BY DEF TypeOK, RowType
<1>1. ASSUME NEW k \in Rows, NEW st, st # "none", SetStatus(k, st)
      PROVE  row'[r].path = row[r].path /\ row'[r].status # "none"
      BY <1>0, <1>1 DEF SetStatus, RowType
<1>2. CASE User
  <2>1. ASSUME ClearHistory
        PROVE  row'[r] = row[r] \/ held'[r] = Missing
        BY <2>1 DEF ClearHistory
  <2>2. ASSUME NEW k \in Rows,
               Retry(k) \/ Cancel(k) \/ Restore(k) \/ Accept(k)
        PROVE  row'[r].path = row[r].path /\ row'[r].status # "none"
        BY <1>1, <2>2 DEF Retry, Cancel, Restore, Accept
  <2>3. ASSUME NEW c \in Clients, AskInsert(c) PROVE row'[r] = row[r]
        BY <2>3, InsertKeeps DEF AskInsert
  <2> QED BY <1>2, <2>1, <2>2, <2>3
          DEF User, AskCheck, Reprocess, Edit, rowVars
<1>3. CASE Work
  <2> USE DEF Source, Job
  <2>1. ASSUME NEW k \in Rows, Claim(k)
        PROVE  row'[r].path = row[r].path /\ row'[r].status # "none"
        BY <1>1, <2>1 DEF Claim
  <2>2. ASSUME GiveUp, work.step \in {"encode", "move"}
        PROVE  row'[r].path = row[r].path /\ row'[r].status # "none"
    <3>1. work.row \in Rows BY <2>2 DEF Shape
    <3> QED BY <1>1, <2>2, <3>1 DEF GiveUp
  <2>3. ASSUME Stage
        PROVE  row'[r].path = row[r].path /\ row'[r].status # "none"
        BY <1>0, <2>3 DEF Stage, RowType
  <2> QED BY <1>3, <2>1, <2>2, <2>3
          DEF Work, EncodeFails, Place, Move, MoveFails, Remember
<1>4. CASE Crash BY <1>0, <1>4 DEF Crash, RowType
<1>5. ASSUME NEW s \in Scanners, Walk(s) PROVE row'[r] = row[r]
      BY <1>5, WalkLeaves, InsertKeeps
<1> QED BY <1>2, <1>3, <1>4, <1>5 DEF Next, Ripen, vars, rowVars

\* Only the worker puts a film in the processed directory.
LEMMA NewHeld ==
    ASSUME Typed, [Next]_vars, NEW r \in Rows
    PROVE  \/ held'[r] \in {held[r], Missing}
           \/ /\ row[r].path \in Films /\ row[r].status = "running"
              /\ row' = row
<1> USE DEF Typed
<1>0. held \in [Rows -> Versions \cup {Missing}] BY DEF TypeOK
<1>1. CASE User
      BY <1>0, <1>1 DEF User, AskCheck, AskInsert, InsertJob, Retry, Cancel,
         Restore, Accept, Reprocess, Edit, ClearHistory, rowVars
<1>2. CASE Move
  <2>1. /\ held' = [held EXCEPT ![work.row] = file[work.path]]
        /\ row' = row
        /\ row[work.row].path \in Films /\ row[work.row].status = "running"
        BY <1>2 DEF Move, WorkerRow, Shape, Job, Source
  <2> QED BY <1>0, <2>1
<1>3. CASE Work
      BY <1>2, <1>3 DEF Work, Claim, EncodeFails, Place, MoveFails, Stage,
         Remember
<1> QED BY <1>1, <1>3, WalkLeaves DEF Next, Ripen, Crash, vars, rowVars

LEMMA ApartKept == EncodesInv /\ [Next]_vars => Apart'
<1> SUFFICES ASSUME EncodesInv, [Next]_vars, NEW r \in Rows
             PROVE  /\ row'[r].output \notin Films
                    /\ held'[r] # Missing =>
                          row'[r].path \in Films /\ row'[r].status # "none"
    BY DEF Apart
<1>1. row'[r].output \notin Films
      BY NewOutputs, BeingWrittenIs, Names DEF EncodesInv, Typed, Apart
<1>2. ASSUME held'[r] # Missing
      PROVE  row'[r].path \in Films /\ row'[r].status # "none"
  <2>1. CASE held'[r] = held[r]
    <3>1. row[r].path \in Films /\ row[r].status # "none"
          BY <1>2, <2>1 DEF EncodesInv, Apart
    <3> QED BY <1>2, <3>1, RowsStay DEF EncodesInv
  <2>2. CASE held'[r] # held[r]
        BY <1>2, <2>2, NewHeld DEF EncodesInv
  <2> QED BY <2>1, <2>2
<1> QED BY <1>1, <1>2

LEMMA UnripeKept == EncodesInv /\ [Next]_vars => Unripe'
<1> SUFFICES ASSUME EncodesInv, [Next]_vars, NEW p \in BeingWritten'
             PROVE  file'[p] \notin ripe'
    BY DEF Unripe
<1> USE DEF EncodesInv, Typed
<1>0. /\ last + 1 \notin ripe
      /\ file \in [Paths -> Versions \cup {Missing}]
      BY Young DEF TypeOK
<1>1. ASSUME work' = work, UNCHANGED <<ripe>> PROVE file'[p] \notin ripe'
  <2>1. p \in BeingWritten BY <1>1 DEF BeingWritten, Source
  <2>2. p \in Paths \ Films BY <2>1, BeingWrittenIs
  <2> QED BY <1>1, <2>1, <2>2, NewContents DEF Unripe
<1>2. CASE Work
  <2> USE DEF Source, Job, Step
  <2>0. ripe' = ripe BY <1>2, WorkLeaves
  <2>1. ASSUME NEW r \in Rows, Claim(r) PROVE file'[p] \notin ripe'
    <3>1. CASE work' = work BY <1>1, <2>0, <3>1
    <3>2. CASE work' # work
      <4>1. /\ work'.step = "encode" /\ work'.path = row[r].path
            /\ row[r].path \in Films => /\ last' = last + 1
                  /\ file' = [file EXCEPT ![Temp[row[r].path]] = last']
            BY <2>1, <3>2 DEF Claim
      <4>2. row[r].path \in Films /\ p = Temp[row[r].path]
            BY <4>1 DEF BeingWritten
      <4> QED BY <1>0, <2>0, <4>1, <4>2, Names
    <3> QED BY <3>1, <3>2
  <2>2. ASSUME work' = NoWork \/ Step("remember") PROVE FALSE
    <3>1. work'.step \in {"idle", "remember"}
          BY <2>2 DEF NoWork, TypeOK
    <3> QED BY <3>1 DEF BeingWritten
  <2>3. CASE Place
    <3>1. /\ work.step = "encode" /\ work.path \in Films
          /\ file' = [file EXCEPT ![Output[work.path]] = file[Temp[work.path]],
                                  ![Temp[work.path]] = Missing]
          /\ work' = [work EXCEPT !.step = "move"]
          BY <2>3 DEF Place
    <3>2. file[Temp[work.path]] \notin ripe
          BY <3>1 DEF Unripe, BeingWritten
    <3>3. p = Output[work.path] BY <3>1 DEF BeingWritten, TypeOK
    <3> QED BY <1>0, <2>0, <3>1, <3>2, <3>3, Names, Young
  <2>4. CASE Move
    <3>1. /\ work.step = "move" /\ work.path \in Films
          /\ file' = [file EXCEPT ![work.path] = Missing]
          /\ work' = [work EXCEPT !.step = "stage"]
          BY <2>4 DEF Move, Shape
    <3>2. p = Output[work.path] BY <3>1 DEF BeingWritten, TypeOK
    <3>3. file[p] \notin ripe BY <3>1, <3>2 DEF Unripe, BeingWritten
    <3> QED BY <1>0, <2>0, <3>1, <3>2, <3>3, Names
  <2>5. CASE Stage
    <3>1. work' = [work EXCEPT !.step = "rememberOutput"] BY <2>5 DEF Stage
    <3> QED BY <3>1 DEF BeingWritten, TypeOK
  <2> QED BY <1>2, <2>1, <2>2, <2>3, <2>4, <2>5
          DEF Work, EncodeFails, MoveFails, Remember, GiveUp
<1>3. ASSUME NEW v \in Versions, Ripen(v) PROVE file'[p] \notin ripe'
  <2>1. work' = work /\ file' = file /\ ripe' = ripe \cup {v}
        BY <1>3 DEF Ripen, actorVars
  <2>2. p \in BeingWritten BY <2>1 DEF BeingWritten, Source
  <2> QED BY <1>3, <2>1, <2>2 DEF Ripen, Unripe
<1>4. CASE Crash
  <2>1. work' = NoWork BY <1>4 DEF Crash
  <2> QED BY <2>1 DEF BeingWritten, NoWork
<1>5. CASE UNCHANGED vars BY <1>1, <1>5 DEF vars, diskVars, actorVars
<1>6. CASE User BY <1>1, <1>6, UserLeaves
<1>7. ASSUME NEW s \in Scanners, Walk(s) PROVE file'[p] \notin ripe'
      BY <1>1, <1>7, WalkLeaves
<1> QED BY <1>2, <1>3, <1>4, <1>5, <1>6, <1>7 DEF Next

\* A scan that is about to insert was so before, or has just looked.
LEMMA NewInserts ==
    ASSUME Typed, [Next]_vars, NEW s \in Scanners, scan'[s].at = "insert"
    PROVE  \/ scan'[s] = scan[s]
           \/ /\ scan'[s].path = scan[s].path /\ scan'[s].seen = scan[s].seen
              /\ scan[s].seen \in ripe /\ ~OutputPathExists(scan[s].path)
              /\ UNCHANGED <<file, row, ripe>>
<1> USE DEF Typed
<1>0. scan \in [Scanners -> ScanType] BY DEF TypeOK, ScanType
<1>1. ASSUME NEW k \in Scanners, Walk(k), k # s PROVE scan'[s] = scan[s]
      BY <1>0, <1>1 DEF Walk, WalkStart, WalkNext, WalkEnd, WalkRecord,
         WalkForget, WalkStatus, WalkOutput, WalkInsert, Goto, Skip
<1>2. ASSUME WalkOutput(s)
      PROVE  /\ scan'[s].path = scan[s].path /\ scan'[s].seen = scan[s].seen
             /\ scan[s].seen \in ripe /\ ~OutputPathExists(scan[s].path)
             /\ UNCHANGED <<file, row, ripe>>
  <2>1. ~Skip(s) BY <1>0 DEF Skip, ScanType
  <2> QED BY <1>0, <1>2, <2>1
          DEF WalkOutput, Goto, ScanKeeps, diskVars, rowVars, ScanType
<1>3. ASSUME Walk(s) PROVE WalkOutput(s)
  <2>1. ~Skip(s) BY <1>0 DEF Skip, ScanType
  <2>2. ~WalkStart(s) /\ ~WalkEnd(s)
        BY <1>0 DEF WalkStart, WalkEnd, NoScan, ScanType
  <2>3. ~WalkNext(s)
    <3>1. ASSUME NEW i, NEW todo,
                 scan' = [scan EXCEPT ![s] = Visit(i, todo)]
          PROVE  FALSE
          BY <1>0, <3>1 DEF Visit
    <3>2. ASSUME NEW i, scan' = [scan EXCEPT ![s].todo = scan[s].todo \ {i}]
          PROVE  scan'[s].at = scan[s].at
          BY <1>0, <3>2 DEF ScanType
    <3> QED BY <3>1, <3>2 DEF WalkNext
  <2>4. ASSUME NEW at, Goto(s, at) PROVE at = "insert"
        BY <1>0, <2>4 DEF Goto, ScanType
  <2> QED BY <1>3, <2>1, <2>2, <2>3, <2>4
          DEF Walk, WalkRecord, WalkForget, WalkStatus, WalkInsert
<1>4. CASE Crash BY <1>4 DEF Crash, NoScan
<1> QED BY <1>1, <1>2, <1>3, <1>4, UserLeaves, WorkLeaves
        DEF Next, Ripen, vars, actorVars

LEMMA LookedKept == EncodesInv /\ [Next]_vars => Looked'
<1> SUFFICES ASSUME EncodesInv, [Next]_vars, NEW s \in Scanners,
                    scan'[s].at = "insert"
             PROVE  /\ scan'[s].seen \in ripe'
                    /\ file'[scan'[s].path] = scan'[s].seen =>
                          \A r \in Rows : row'[r].output # scan'[s].path
    BY DEF Looked, OutputPathExists
<1>1. CASE scan'[s] = scan[s]
  <2> DEFINE p == scan[s].path
  <2>1. scan[s].at = "insert" /\ p \in Paths /\ scan[s].seen \in ripe
        BY <1>1 DEF EncodesInv, Typed, Looked, Shape
  <2>2. ripe \subseteq ripe'
        BY WalkLeaves, UserLeaves, WorkLeaves
        DEF Next, Ripen, Crash, vars, diskVars
  <2>3. ASSUME file'[p] = scan[s].seen, NEW r \in Rows, row'[r].output = p
        PROVE  FALSE
    <3>1. p \in Paths \ Films
          BY <2>1, <2>3, ApartKept DEF Apart
    <3>2. file[p] = scan[s].seen
          BY <2>1, <2>2, <2>3, <3>1, NewContents
    <3>3. ~OutputPathExists(p) BY <2>1, <3>2 DEF EncodesInv, Looked
    <3>4. p \in BeingWritten
          BY <2>1, <2>3, <3>3, NewOutputs, Names DEF OutputPathExists
    <3> QED BY <2>1, <3>2, <3>4 DEF EncodesInv, Unripe
  <2> QED BY <1>1, <2>1, <2>2, <2>3
<1>2. CASE scan'[s] # scan[s]
  <2>1. /\ scan'[s].path = scan[s].path /\ scan'[s].seen = scan[s].seen
        /\ scan[s].seen \in ripe /\ ~OutputPathExists(scan[s].path)
        /\ UNCHANGED <<file, row, ripe>>
        BY <1>2, NewInserts DEF EncodesInv
  <2> QED BY <2>1 DEF OutputPathExists
<1> QED BY <1>1, <1>2

\* A scan never enqueues the file it has looked at if that is the output some
\* row names, or an encode being written: while the encode is written nobody
\* may enqueue it because it is too young, and from then on its row names it
\* (scanner.go:151-165, jobs.go:313-323).
THEOREM EncodesAreLeftAlone == Spec => EncodesStayOut
<1>1. Init => EncodesInv
  <2>1. Init => Unripe /\ Apart /\ Looked
        BY Names DEF Init, Unripe, Apart, Looked, BeingWritten, Source, NoWork,
           NoScan, Absent
  <2> QED BY <2>1, TypedInit DEF EncodesInv
<1>2. EncodesInv /\ [Next]_vars => EncodesInv'
      BY TypedStep, UnripeKept, ApartKept, LookedKept DEF EncodesInv
<1>3. EncodesInv =>
         \A s \in Scanners : Inserts(s) /\ file[scan[s].path] = scan[s].seen =>
            /\ ~OutputPathExists(scan[s].path)
            /\ scan[s].path \notin BeingWritten
      BY DEF EncodesInv, Looked, Unripe, Inserts
<1>4. EncodesInv =>
         [\A s \in Scanners : Inserts(s) /\ file[scan[s].path] = scan[s].seen =>
            /\ ~OutputPathExists(scan[s].path)
            /\ scan[s].path \notin BeingWritten]_vars
      BY <1>3
<1> QED BY <1>1, <1>2, <1>4, PTL DEF Spec, EncodesStayOut

-----------------------------------------------------------------------------
(* A film has one active row.                                              *)

\* Only the latest row of a film waits or runs.
LatestOnly ==
    \A p \in Paths \ overlapped : \A r \in RowsOf(p) :
        Active(r) => \A k \in RowsOf(p) : k <= r
Used == \A r \in Rows : row[r].path # NoPath => r < nextRow
LatestInv == Typed /\ LatestOnly /\ Used

\* No row wakes up, and no row changes its film.
Settling ==
    /\ \A r \in Rows : /\ row'[r].path \in {row[r].path, NoPath}
                       /\ row'[r].status \in {"pending", "running"} => Active(r)
    /\ UNCHANGED <<nextRow, overlapped>>

LEMMA SettlingKeeps ==
    ASSUME LatestInv, Settling
    PROVE  LatestOnly' /\ Used'
<1>1. LatestOnly'
  <2> SUFFICES ASSUME NEW p \in Paths \ overlapped,
                      NEW r \in Rows, row'[r].path = p,
                      row'[r].status \in {"pending", "running"},
                      NEW k \in Rows, row'[k].path = p
               PROVE  k <= r
      BY DEF LatestOnly, RowsOf, Active, Settling
  <2>1. row[r].path = p /\ row[k].path = p /\ Active(r)
        BY Names DEF Settling
  <2> QED BY <2>1 DEF LatestInv, LatestOnly, RowsOf
<1>2. Used' BY DEF LatestInv, Used, Settling
<1> QED BY <1>1, <1>2

\* Who enqueues a film that has just been looked up finds no active row.
LEMMA InsertKeepsLatest ==
    ASSUME LatestInv, NEW p \in Paths,
           NEW expected \in SUBSET (Statuses \ {"pending", "running"}),
           InsertJob(p, expected)
    PROVE  LatestOnly' /\ Used'
<1>1. /\ nextRow \in Rows /\ nextRow' = nextRow + 1 /\ nextRow \in Nat
      /\ row \in [Rows -> RowType]
      /\ row' = [row EXCEPT ![nextRow] =
                    [path |-> p, status |-> "pending", output |-> NoPath]]
      /\ overlapped' = IF SourcePathStatus(p) \in expected THEN overlapped
                       ELSE overlapped \cup {p}
      BY DEF InsertJob, LatestInv, Typed, TypeOK, RowType, Rows
<1>2. Used'
      BY <1>1 DEF Used, LatestInv, Rows
<1>3. ASSUME p \notin overlapped', NEW r \in RowsOf(p), Active(r)
      PROVE  FALSE
  <2>1. p \notin overlapped /\ SourcePathStatus(p) \in expected
        BY <1>1, <1>3
  <2>2. \A k \in RowsOf(p) : k <= r
        BY <1>3, <2>1 DEF LatestInv, LatestOnly
  <2>3. \A k \in RowsOf(p) : (\A j \in RowsOf(p) : j <= k) => k = r
        BY <1>3, <2>2 DEF RowsOf, Rows
  <2>4. r = CHOOSE k \in RowsOf(p) : \A j \in RowsOf(p) : j <= k
        BY <1>3, <2>2, <2>3
  <2>5. SourcePathStatus(p) = row[r].status
        BY <1>3, <2>4 DEF SourcePathStatus
  <2> QED BY <1>3, <2>1, <2>5 DEF Active
<1>4. ASSUME NEW q \in Paths \ overlapped',
             NEW r \in Rows, row'[r].path = q,
             row'[r].status \in {"pending", "running"},
             NEW k \in Rows, row'[k].path = q
      PROVE  k <= r
  <2>1. q \notin overlapped BY <1>1, <1>4
  <2>2. CASE r = nextRow
        BY <1>1, <1>4, <2>2, Names DEF LatestInv, Used, Rows
  <2>3. CASE r # nextRow
    <3>1. r \in RowsOf(q) /\ Active(r)
          BY <1>1, <1>4, <2>3 DEF RowsOf, Active
    <3>2. CASE k = nextRow
          BY <1>1, <1>3, <1>4, <3>1, <3>2
    <3>3. CASE k # nextRow
          BY <1>1, <1>4, <2>1, <3>1, <3>3 DEF LatestInv, LatestOnly, RowsOf
    <3> QED BY <3>2, <3>3
  <2> QED BY <2>2, <2>3
<1> QED BY <1>2, <1>4 DEF LatestOnly, RowsOf, Active

LEMMA RetryKeepsLatest ==
    ASSUME LatestInv, NEW r \in Rows, Retry(r)
    PROVE  LatestOnly' /\ Used'
<1>1. /\ row \in [Rows -> RowType]
      /\ row' = [row EXCEPT ![r].status = "pending"]
      /\ overlapped' = IF \A k \in RowsOf(row[r].path) : k <= r
                       THEN overlapped ELSE overlapped \cup {row[r].path}
      /\ nextRow' = nextRow
      BY DEF Retry, SetStatus, LatestInv, Typed, TypeOK, RowType
<1>2. \A k \in Rows : row'[k].path = row[k].path
      BY <1>1 DEF RowType
<1>3. ASSUME NEW q \in Paths \ overlapped',
             NEW j \in Rows, row'[j].path = q,
             row'[j].status \in {"pending", "running"},
             NEW k \in Rows, row'[k].path = q
      PROVE  k <= j
  <2>1. q \notin overlapped /\ k \in RowsOf(q) /\ j \in RowsOf(q)
        BY <1>1, <1>2, <1>3 DEF RowsOf
  <2>2. CASE j = r BY <1>1, <1>2, <1>3, <2>1, <2>2
  <2>3. CASE j # r
    <3>1. Active(j) BY <1>1, <1>3, <2>3 DEF Active
    <3> QED BY <2>1, <3>1 DEF LatestInv, LatestOnly
  <2> QED BY <2>2, <2>3
<1>4. LatestOnly' BY <1>3 DEF LatestOnly, RowsOf, Active
<1>5. Used' BY <1>1, <1>2 DEF LatestInv, Used
<1> QED BY <1>4, <1>5

LEMMA LatestKept == LatestInv /\ [Next]_vars => LatestInv'
<1> SUFFICES ASSUME LatestInv, [Next]_vars PROVE LatestOnly' /\ Used'
    BY TypedStep DEF LatestInv
<1>0. row \in [Rows -> RowType]
      BY DEF LatestInv, Typed, TypeOK, RowType
<1>1. ASSUME UNCHANGED <<row, nextRow, overlapped>>
      PROVE  LatestOnly' /\ Used'
      BY <1>1, SettlingKeeps DEF Settling, Active
<1>2. ASSUME NEW r \in Rows, NEW st, st \in {"pending", "running"} => Active(r),
             SetStatus(r, st), UNCHANGED <<nextRow, overlapped>>
      PROVE  LatestOnly' /\ Used'
  <2>1. Settling BY <1>0, <1>2 DEF Settling, SetStatus, RowType, Active
  <2> QED BY <2>1, SettlingKeeps
<1>3. Requeueable \in SUBSET (Statuses \ {"pending", "running"})
      /\ Askable \in SUBSET (Statuses \ {"pending", "running"})
      BY DEF Requeueable, Askable, Statuses, Terminal
<1>4. ASSUME NEW s \in Scanners, Walk(s) PROVE LatestOnly' /\ Used'
  <2>1. CASE WalkInsert(s)
    <3>1. scan[s].path \in Paths
          BY <2>1 DEF WalkInsert, LatestInv, Typed, Shape
    <3> QED BY <1>3, <2>1, <3>1, InsertKeepsLatest DEF WalkInsert
  <2> QED BY <1>1, <1>4, <2>1
          DEF Walk, WalkStart, WalkNext, WalkEnd, WalkRecord, WalkForget,
              WalkStatus, WalkOutput, rowVars
<1>5. CASE User
  <2>1. ASSUME NEW c \in Clients, AskInsert(c) PROVE LatestOnly' /\ Used'
    <3>1. ask[c] \in Paths
          BY <2>1 DEF AskInsert, LatestInv, Typed, TypeOK
    <3> QED BY <1>3, <2>1, <3>1, InsertKeepsLatest DEF AskInsert
  <2>2. ASSUME NEW r \in Rows, Cancel(r) \/ Restore(r) \/ Accept(r)
        PROVE  LatestOnly' /\ Used'
        BY <1>2, <2>2 DEF Cancel, Restore, Accept, historyVars
  <2>3. ASSUME ClearHistory PROVE LatestOnly' /\ Used'
    <3>1. Settling
          BY <1>0, <2>3 DEF ClearHistory, Settling, Absent, Active
    <3> QED BY <3>1, SettlingKeeps
  <2> QED BY <1>1, <1>5, <2>1, <2>2, <2>3, RetryKeepsLatest
          DEF User, AskCheck, Reprocess, Edit, rowVars, historyVars
<1>6. CASE Work
  <2> USE DEF Source, Job
  <2>0. UNCHANGED <<nextRow, overlapped>> BY <1>6, WorkLeaves
  <2>1. ASSUME NEW r \in Rows, Claim(r) PROVE LatestOnly' /\ Used'
        BY <1>2, <2>0, <2>1 DEF Claim, Active
  <2>2. ASSUME GiveUp, work.step \in {"encode", "move"}
        PROVE  LatestOnly' /\ Used'
    <3>1. work.row \in Rows BY <2>2 DEF LatestInv, Typed, Shape
    <3> QED BY <1>2, <2>0, <2>2, <3>1 DEF GiveUp
  <2>3. ASSUME Stage PROVE LatestOnly' /\ Used'
    <3>1. Settling
          BY <1>0, <2>0, <2>3 DEF Stage, Settling, RowType, Active
    <3> QED BY <3>1, SettlingKeeps
  <2> QED BY <1>1, <1>6, <2>0, <2>1, <2>2, <2>3
          DEF Work, EncodeFails, Place, Move, MoveFails, Remember
<1>7. CASE Crash
  <2>1. Settling
        BY <1>0, <1>7 DEF Crash, Settling, RowType, Active, historyVars
  <2> QED BY <2>1, SettlingKeeps
<1> QED BY <1>1, <1>4, <1>5, <1>6, <1>7
        DEF Next, Ripen, vars, rowVars, historyVars

\* A film waits or runs in one row at a time unless somebody relied on a status
\* that another row had outdated: to look at the latest row is enough, because
\* no older row of the film is ever active (jobs.go:299, scanner.go:138-149).
THEOREM FilmsHaveOneActiveRow == Spec => []OneActiveRow
<1>1. Init => LatestInv
  <2>1. Init => LatestOnly /\ Used
        BY DEF Init, LatestOnly, Used, RowsOf, Active, Absent
  <2> QED BY <2>1, TypedInit DEF LatestInv
<1>2. LatestInv /\ [Next]_vars => LatestInv' BY LatestKept
<1>3. LatestInv => OneActiveRow
  <2> SUFFICES ASSUME LatestInv, NEW p \in Paths \ overlapped
               PROVE  Cardinality({r \in RowsOf(p) : Active(r)}) <= 1
      BY DEF OneActiveRow
  <2> DEFINE active == {r \in RowsOf(p) : Active(r)}
  <2>1. \A r, k \in active : r = k
        BY DEF LatestInv, LatestOnly, RowsOf, Rows
  <2>2. CASE active = {} BY <2>2, FS_EmptySet
  <2>3. CASE active # {}
    <3>1. PICK r \in active : active = {r} BY <2>1, <2>3
    <3> QED BY <3>1, FS_Singleton
  <2> QED BY <2>2, <2>3
<1> QED BY <1>1, <1>2, <1>3, PTL DEF Spec
=============================================================================
