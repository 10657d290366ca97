---------------------------- MODULE StagingProofs ----------------------------
(* Theorems about Staging, for every set of films, jobs, workers and users. *)
EXTENDS Staging, FiniteSetTheorems, WellFoundedInduction, TLAPS

\* The names an output of n may get.
Outs(n) == {Fallback[n]} \cup {Candidates[n][i] : i \in DOMAIN Candidates[n]}

\* The name of the film in a worker's hands.
On(w) == path[wjob[w]]

Named == {"place", "hold", "record", "stage"}
Moved == {"record", "stage"}

-----------------------------------------------------------------------------
(* Types. *)

\* TypeOK alone is not inductive: whoever is at work works on a row, a record
\* and a name that exist.
Shape ==
    /\ \A j \in Jobs : status[j] # "unborn" => path[j] \in Sources
    /\ \A w \in Workers :
          /\ wpc[w] # "idle" => /\ wjob[w] \in Jobs
                                /\ status[wjob[w]] # "unborn"
          /\ wpc[w] \in Named => wout[w] \in Outs(On(w))
          /\ wpc[w] \in Moved => wsrc[w] \in Content
    /\ \A r \in Reviewers : rpc[r] # "idle" =>
          rrec[r] \in Originals /\ record[rrec[r]] # "unborn"
    /\ \A o \in todo : record[o] # "unborn"
    /\ \A o \in Originals : record[o] # "unborn" =>
          /\ status[owner[o]] # "unborn"
          /\ output[o] \in Outs(Path(o))

Typed == TypeOK /\ Shape

\* A set of numbers up to n has a least one.
LEMMA Least ==
    ASSUME NEW n \in Nat, NEW S \in SUBSET (1 .. n), S # {}
    PROVE  \E i \in S : \A k \in S : i <= k
<1> DEFINE Below(i) == {k \in S : k <= i}
           T == {Below(i) : i \in S}
           R == StrictSubsetOrdering(S)
<1>1. IsFiniteSet(S)
  <2>1. 1 \in Int /\ n \in Int OBVIOUS
  <2>2. IsFiniteSet(1 .. n) BY <2>1, FS_Interval
  <2> QED BY <2>2, FS_Subset
<1>2. IsWellFoundedOn(R, FiniteSubsetsOf(S))
      BY <1>1, FS_StrictSubsetOrderingWellFounded
<1>3. T \subseteq FiniteSubsetsOf(S) /\ T # {}
  <2>1. FiniteSubsetsOf(S) = SUBSET S BY <1>1, FS_FiniteSubsetsOfFinite
  <2>2. \A i \in S : Below(i) \in T BY DEF T
  <2>3. T \subseteq SUBSET S OBVIOUS
  <2> QED BY <2>1, <2>2, <2>3
<1>4. \E x \in T : \A y \in T : ~(<<y, x>> \in R)
  <2> HIDE DEF R, T
  <2> QED BY <1>2, <1>3, WFMin
<1>5. PICK i \in S : \A k \in S : ~(<<Below(k), Below(i)>> \in R)
      BY <1>4
<1>6. ASSUME NEW k \in S, k < i PROVE FALSE
  <2>1. k \in Int /\ i \in Int /\ S \subseteq Int OBVIOUS
  <2>2. \A j \in S : j <= k => j <= i BY <2>1, <1>6
  <2>3. i <= i /\ ~(i <= k) BY <2>1, <1>6
  <2>4. /\ Below(k) \subseteq Below(i) /\ Below(k) # Below(i)
        /\ Below(k) \in SUBSET S /\ Below(i) \in SUBSET S
        BY <2>2, <2>3
  <2> QED BY <2>4, <1>5 DEF StrictSubsetOrdering
<1> QED BY <1>6

\* OutputPath gives one of the names, and none that is taken but the last.
LEMMA OutputNames ==
    ASSUME NEW n \in Sources
    PROVE  /\ OutputPath(n) \in Outs(n)
           /\ OutputPath(n) # Fallback[n] => lib[OutputPath(n)] = NoFile
           /\ Outs(n) \subseteq Names
<1> DEFINE free == {i \in DOMAIN Candidates[n] :
                        lib[Candidates[n][i]] = NoFile}
<1>1. Candidates[n] \in Seq(Names) /\ Fallback[n] \in Names
      BY NamesAssumption
<1>2. PICK m \in Nat : DOMAIN Candidates[n] = 1 .. m
      BY <1>1
<1>3. \A i \in DOMAIN Candidates[n] : Candidates[n][i] \in Names
      BY <1>1
<1>4. CASE free = {} BY <1>1, <1>3, <1>4 DEF OutputPath, Outs
<1>5. CASE free # {}
  <2>1. \E i \in free : \A k \in free : i <= k
    <3>1. free \in SUBSET (1 .. m) BY <1>2
    <3> HIDE DEF free
    <3> QED BY <3>1, <1>5, Least
  <2> DEFINE first == CHOOSE i \in free : \A k \in free : i <= k
  <2>2. first \in free
    <3> HIDE DEF free
    <3> QED BY <2>1
  <2>3. OutputPath(n) = Candidates[n][first] BY <1>5 DEF OutputPath
  <2> QED BY <2>2, <2>3, <1>1, <1>3 DEF Outs
<1> QED BY <1>4, <1>5

\* Every state of the types, at the start.
LEMMA TypedStart == Init => Typed
<1> SUFFICES ASSUME Init PROVE Typed OBVIOUS
<1>1. \A n \in Films : [film |-> n, kind |-> "original"] \in Content
      BY DEF Content
<1>2. TypeOK
  <2>1. clearing \in BOOLEAN BY DEF Init
  <2>2. crashes \in 0 .. MaxCrashes BY BoundsAssumption DEF Init
  <2>3. /\ lib \in [Names -> Content \cup {NoFile}]
        /\ held \in [Sources -> Content \cup {NoFile}]
        /\ tmp \in [Sources -> Content \cup {NoFile}]
        BY <1>1 DEF Init
  <2>4. /\ status \in [Jobs -> Statuses]
        /\ path \in [Jobs -> Sources \cup {NoName}]
        /\ result \in [Jobs -> Names \cup {NoName}]
        BY DEF Init, Statuses
  <2>5. /\ record \in [Originals ->
                        {"unborn", "active", "deleted", "cleared"}]
        /\ owner \in [Originals -> Jobs \cup {NoJob}]
        /\ output \in [Originals -> Names \cup {NoName}]
        /\ bytes \in [Originals -> Content \cup {NoFile}]
        /\ \A o \in Originals : record[o] = "unborn"
        /\ expired = {} /\ todo = {} /\ discarded = {}
        BY DEF Init
  <2>6. /\ wpc \in [Workers -> {"idle", "encode", "name", "place", "hold",
                                "record", "stage"}]
        /\ wjob \in [Workers -> Jobs \cup {NoJob}]
        /\ wout \in [Workers -> Names \cup {NoName}]
        /\ wsrc \in [Workers -> Content \cup {NoFile}]
        BY DEF Init
  <2>7. /\ rpc \in [Reviewers ->
                     {"idle", "remove", "markDone", "done"} \cup Restoring]
        /\ rrec \in [Reviewers -> Originals \cup {NoRecord}]
        BY DEF Init
  <2> QED BY <2>1, <2>2, <2>3, <2>4, <2>5, <2>6, <2>7 DEF TypeOK
<1>3. Shape BY DEF Shape, Init, Named, Moved
<1> QED BY <1>2, <1>3 DEF Typed

\* UPDATE ... SET status: rows stay rows.
LEMMA StatusSet ==
    ASSUME TypeOK, NEW j \in Jobs, NEW st \in Statuses \ {"unborn"},
           SetStatus(j, st)
    PROVE  /\ status' \in [Jobs -> Statuses]
           /\ \A k \in Jobs : status'[k] = "unborn" <=> status[k] = "unborn"
           /\ \A k \in Jobs \ {j} : status'[k] = status[k]
           /\ status'[j] = IF HasRow(j) THEN st ELSE status[j]
BY DEF TypeOK, SetStatus, HasRow

\* The row of a job that is given up.
LEMMA GivenUp ==
    ASSUME TypeOK, NEW w \in Workers, wjob[w] \in Jobs, GiveUp(w)
    PROVE  /\ status' \in [Jobs -> Statuses]
           /\ \A k \in Jobs : status'[k] = "unborn" <=> status[k] = "unborn"
           /\ \A k \in Jobs \ {wjob[w]} : status'[k] = status[k]
           /\ status'[wjob[w]] \in {status[wjob[w]], "failed", "excluded"}
           /\ Leave(w)
<1>1. PICK st \in {"failed", "excluded"} : SetStatus(wjob[w], st)
      BY DEF GiveUp
<1>2. st \in Statuses \ {"unborn"} BY DEF Statuses, Terminal
<1> QED BY <1>1, <1>2, StatusSet DEF GiveUp

\* Enqueueing adds one pending row, of a source.
LEMMA EnqueueTyped == ASSUME Typed, NEW n \in Sources, Enqueue(n)
                      PROVE  Typed'
<1>1. PICK j \in Jobs : /\ status[j] = "unborn"
                         /\ status' = [status EXCEPT ![j] = "pending"]
                         /\ path' = [path EXCEPT ![j] = n]
      BY DEF Enqueue
<1>2. UNCHANGED <<diskVars, result, recordVars, workVars, reviewVars, restVars,
                  discarded>>
      BY DEF Enqueue
<1>3. /\ status' \in [Jobs -> Statuses]
      /\ path' \in [Jobs -> Sources \cup {NoName}]
      BY <1>1 DEF Typed, TypeOK, Statuses
<1>4. TypeOK' BY <1>2, <1>3 DEF Typed, TypeOK, diskVars, recordVars, workVars,
                                reviewVars, restVars
<1>5. /\ \A k \in Jobs \ {j} : status'[k] = status[k] /\ path'[k] = path[k]
      /\ status[j] = "unborn" /\ path'[j] = n
      BY <1>1 DEF Typed, TypeOK
<1>6. \A k \in Jobs : status[k] # "unborn" =>
                       status'[k] # "unborn" /\ path'[k] = path[k]
      BY <1>5
<1>7. Shape'
  <2>1. \A k \in Jobs : status'[k] # "unborn" => path'[k] \in Sources
        BY <1>5 DEF Typed, Shape
  <2>2. \A w \in Workers : wpc[w] # "idle" => On(w)' = On(w)
        BY <1>2, <1>6 DEF Typed, Shape, On, workVars
  <2>3. \A o \in Originals : record[o] # "unborn" => Path(o)' = Path(o)
        BY <1>2, <1>6 DEF Typed, TypeOK, Shape, Path, recordVars
  <2>4. \A w \in Workers :
           /\ wpc'[w] # "idle" => /\ wjob'[w] \in Jobs
                                  /\ status'[wjob'[w]] # "unborn"
           /\ wpc'[w] \in Named => wout'[w] \in Outs(On(w)')
           /\ wpc'[w] \in Moved => wsrc'[w] \in Content
        BY <1>2, <1>6, <2>2 DEF Typed, Shape, workVars, Named
  <2>5. \A o \in Originals : record'[o] # "unborn" =>
           /\ status'[owner'[o]] # "unborn"
           /\ output'[o] \in Outs(Path(o)')
        BY <1>2, <1>6, <2>3 DEF Typed, TypeOK, Shape, recordVars
  <2>6. /\ \A r \in Reviewers : rpc'[r] # "idle" =>
              rrec'[r] \in Originals /\ record'[rrec'[r]] # "unborn"
        /\ \A o \in todo' : record'[o] # "unborn"
        BY <1>2 DEF Typed, Shape, recordVars, reviewVars
  <2> QED BY <2>1, <2>4, <2>5, <2>6 DEF Shape, Outs
<1> QED BY <1>4, <1>7 DEF Typed

\* Claiming sets one row to running and starts one worker.
LEMMA ClaimTyped == ASSUME Typed, NEW w \in Workers, Claim(w)
                    PROVE  Typed'
<1> USE DEF diskVars, recordVars, workVars, reviewVars, restVars
<1>1. PICK j \in Jobs :
          /\ status[j] = "pending"
          /\ IF lib[path[j]] = NoFile
             THEN SetStatus(j, "skipped") /\ UNCHANGED <<wpc, wjob>>
             ELSE /\ SetStatus(j, "running")
                  /\ Advance(w, "encode")
                  /\ wjob' = [wjob EXCEPT ![w] = j]
      BY DEF Claim
<1>2. /\ status' \in [Jobs -> Statuses]
      /\ \A k \in Jobs : status'[k] = "unborn" <=> status[k] = "unborn"
      BY <1>1, StatusSet DEF Typed, Statuses, Terminal
<1>3. TypeOK' BY <1>1, <1>2 DEF Typed, TypeOK, Claim, Advance
<1>4. Shape' BY <1>1, <1>2
             DEF Typed, TypeOK, Shape, Claim, Advance, On, Path, Named, Moved
<1> QED BY <1>3, <1>4 DEF Typed

\* The encoder's end leaves a partial file or none.
LEMMA EncodeTyped == ASSUME Typed, NEW w \in Workers, Encode(w)
                     PROVE  Typed'
<1> USE DEF diskVars, rowVars, recordVars, workVars, reviewVars, restVars
<1> DEFINE n == path[wjob[w]]
<1>1. wpc[w] = "encode" /\ wjob[w] \in Jobs /\ n \in Sources
      BY DEF Encode, Typed, Shape
<1>2. CASE /\ lib[n] # NoFile
           /\ tmp' = [tmp EXCEPT ![n] = Encoded(lib[n])]
           /\ Advance(w, "name")
           /\ UNCHANGED <<rowVars, wjob, wout, wsrc>>
  <2>1. lib[n] \in Content BY <1>1, <1>2, NamesAssumption DEF Typed, TypeOK
  <2>2. Encoded(lib[n]) \in Content BY <2>1 DEF Encoded, Content
  <2>3. TypeOK' BY <1>1, <1>2, <2>2 DEF Typed, TypeOK, Encode, Advance
  <2>4. Shape' BY <1>1, <1>2
               DEF Typed, TypeOK, Shape, Encode, Advance, On, Path, Named, Moved
  <2> QED BY <2>3, <2>4 DEF Typed
<1>3. CASE /\ tmp' = [tmp EXCEPT ![n] = NoFile]
           /\ GiveUp(w) /\ UNCHANGED <<path, result>>
  <2>1. /\ status' \in [Jobs -> Statuses] /\ Leave(w)
        /\ \A k \in Jobs : status'[k] = "unborn" <=> status[k] = "unborn"
        BY <1>1, <1>3, GivenUp DEF Typed
  <2>2. TypeOK' BY <1>1, <1>3, <2>1 DEF Typed, TypeOK, Encode, Leave
  <2>3. Shape' BY <1>1, <1>3, <2>1
               DEF Typed, TypeOK, Shape, Encode, Leave, On, Path, Named, Moved
  <2> QED BY <2>2, <2>3 DEF Typed
<1> QED BY <1>2, <1>3 DEF Encode

\* The worker chooses where its output goes.
LEMMA ChooseTyped == ASSUME Typed, NEW w \in Workers, Choose(w)
                     PROVE  Typed'
<1> USE DEF diskVars, rowVars, recordVars, workVars, reviewVars, restVars
<1> DEFINE out == OutputPath(path[wjob[w]])
<1>1. wpc[w] = "name" /\ wjob[w] \in Jobs /\ On(w) \in Sources
      BY DEF Choose, Typed, Shape, On
<1>2. out \in Outs(On(w)) /\ out \in Names BY <1>1, OutputNames DEF On
<1>3. wout' = [wout EXCEPT ![w] = out] /\ Advance(w, "place")
      BY DEF Choose
<1> HIDE DEF out
<1>4. TypeOK' BY <1>2, <1>3 DEF Typed, TypeOK, Choose, Advance
<1>5. Shape' BY <1>1, <1>2, <1>3
             DEF Typed, TypeOK, Shape, Choose, Advance, On, Path, Named, Moved
<1> QED BY <1>4, <1>5 DEF Typed

\* The output gets its name and the original its place in staging.
LEMMA PlaceTyped == ASSUME Typed, NEW w \in Workers, Place(w)
                    PROVE  Typed'
<1> USE DEF diskVars, rowVars, recordVars, workVars, reviewVars, restVars
<1> DEFINE n == path[wjob[w]]
<1>1. wpc[w] = "place" /\ wjob[w] \in Jobs /\ n \in Sources
      BY DEF Place, Typed, Shape
<1>2. CASE /\ tmp[n] # NoFile
           /\ lib' = [lib EXCEPT ![wout[w]] = tmp[n]]
           /\ tmp' = [tmp EXCEPT ![n] = NoFile]
           /\ Advance(w, "hold")
           /\ UNCHANGED <<rowVars, wjob, wout, wsrc>>
  <2>1. TypeOK' BY <1>1, <1>2 DEF Typed, TypeOK, Place, Advance
  <2>2. Shape' BY <1>1, <1>2
               DEF Typed, TypeOK, Shape, Place, Advance, On, Path, Named, Moved
  <2> QED BY <2>1, <2>2 DEF Typed
<1>3. CASE /\ tmp' = [tmp EXCEPT ![n] = NoFile]
           /\ GiveUp(w) /\ UNCHANGED <<lib, path, result>>
  <2>1. /\ status' \in [Jobs -> Statuses] /\ Leave(w)
        /\ \A k \in Jobs : status'[k] = "unborn" <=> status[k] = "unborn"
        BY <1>1, <1>3, GivenUp DEF Typed
  <2>2. TypeOK' BY <1>1, <1>3, <2>1 DEF Typed, TypeOK, Place, Leave
  <2>3. Shape' BY <1>1, <1>3, <2>1
               DEF Typed, TypeOK, Shape, Place, Leave, On, Path, Named, Moved
  <2> QED BY <2>2, <2>3 DEF Typed
<1> QED BY <1>2, <1>3 DEF Place

\* The original is moved into staging, or the attempt is undone.
LEMMA HoldTyped == ASSUME Typed, NEW w \in Workers, Hold(w)
                   PROVE  Typed'
<1> USE DEF diskVars, rowVars, recordVars, workVars, reviewVars, restVars
<1> DEFINE n == path[wjob[w]]
<1>1. wpc[w] = "hold" /\ wjob[w] \in Jobs /\ n \in Sources
      BY DEF Hold, Typed, Shape
<1>2. CASE /\ lib[n] # NoFile
           /\ held' = [held EXCEPT ![n] = lib[n]]
           /\ lib' = [lib EXCEPT ![n] = NoFile]
           /\ wsrc' = [wsrc EXCEPT ![w] = lib[n]]
           /\ Advance(w, "record")
           /\ UNCHANGED <<rowVars, wjob, wout>>
  <2>1. lib[n] \in Content BY <1>1, <1>2, NamesAssumption DEF Typed, TypeOK
  <2>2. TypeOK' BY <1>1, <1>2, <2>1 DEF Typed, TypeOK, Hold, Advance
  <2>3. Shape' BY <1>1, <1>2, <2>1
               DEF Typed, TypeOK, Shape, Hold, Advance, On, Path, Named, Moved
  <2> QED BY <2>2, <2>3 DEF Typed
<1>3. CASE /\ lib' = [lib EXCEPT ![wout[w]] = NoFile]
           /\ GiveUp(w) /\ UNCHANGED <<held, path, result>>
  <2>1. /\ status' \in [Jobs -> Statuses] /\ Leave(w)
        /\ \A k \in Jobs : status'[k] = "unborn" <=> status[k] = "unborn"
        BY <1>1, <1>3, GivenUp DEF Typed
  <2>2. TypeOK' BY <1>1, <1>3, <2>1 DEF Typed, TypeOK, Hold, Leave
  <2>3. Shape' BY <1>1, <1>3, <2>1
               DEF Typed, TypeOK, Shape, Hold, Leave, On, Path, Named, Moved
  <2> QED BY <2>2, <2>3 DEF Typed
<1> QED BY <1>2, <1>3 DEF Hold

\* The record of what is held is written.
LEMMA RecordTyped == ASSUME Typed, NEW w \in Workers, Record(w)
                     PROVE  Typed'
<1> USE DEF diskVars, rowVars, recordVars, workVars, reviewVars, restVars
<1>1. /\ wpc[w] = "record" /\ wjob[w] \in Jobs /\ status[wjob[w]] # "unborn"
      /\ wsrc[w] \in Content /\ wout[w] \in Outs(On(w)) /\ On(w) \in Sources
      BY DEF Record, Typed, Shape, On, Named, Moved
<1>2. wout[w] \in Names BY <1>1, OutputNames
<1>3. CASE \E o \in Originals :
              /\ record[o] = "unborn"
              /\ record' = [record EXCEPT ![o] = "active"]
              /\ owner' = [owner EXCEPT ![o] = wjob[w]]
              /\ output' = [output EXCEPT ![o] = wout[w]]
              /\ bytes' = [bytes EXCEPT ![o] = wsrc[w]]
  <2>1. PICK o \in Originals :
              /\ record[o] = "unborn"
              /\ record' = [record EXCEPT ![o] = "active"]
              /\ owner' = [owner EXCEPT ![o] = wjob[w]]
              /\ output' = [output EXCEPT ![o] = wout[w]]
              /\ bytes' = [bytes EXCEPT ![o] = wsrc[w]]
        BY <1>3
  <2>2. TypeOK' BY <1>1, <1>2, <2>1 DEF Typed, TypeOK, Record, Advance
  <2>3. Shape' BY <1>1, <2>1
               DEF Typed, TypeOK, Shape, Record, Advance, On, Path, Named, Moved
  <2> QED BY <2>2, <2>3 DEF Typed
<1>4. CASE UNCHANGED <<record, owner, output, bytes>>
  <2>1. TypeOK' BY <1>1, <1>4 DEF Typed, TypeOK, Record, Advance
  <2>2. Shape' BY <1>1, <1>4
               DEF Typed, TypeOK, Shape, Record, Advance, On, Path, Named, Moved
  <2> QED BY <2>1, <2>2 DEF Typed
<1> QED BY <1>3, <1>4 DEF Record

\* The row is set to staged, or the job is left as it was.
LEMMA StageTyped == ASSUME Typed, NEW w \in Workers, Stage(w)
                    PROVE  Typed'
<1> USE DEF diskVars, rowVars, recordVars, workVars, reviewVars, restVars
<1>1. /\ wpc[w] = "stage" /\ wjob[w] \in Jobs
      /\ wout[w] \in Outs(On(w)) /\ On(w) \in Sources
      BY DEF Stage, Typed, Shape, On, Named
<1>2. wout[w] \in Names BY <1>1, OutputNames
<1>3. /\ status' \in [Jobs -> Statuses]
      /\ \A k \in Jobs : status'[k] = "unborn" <=> status[k] = "unborn"
      BY <1>1, StatusSet DEF Typed, Statuses, Terminal, Stage
<1>4. result' \in [Jobs -> Names \cup {NoName}]
      BY <1>1, <1>2 DEF Typed, TypeOK, Stage
<1>5. TypeOK' BY <1>1, <1>3, <1>4 DEF Typed, TypeOK, Stage, Leave
<1>6. Shape' BY <1>1, <1>3
             DEF Typed, TypeOK, Shape, Stage, Leave, On, Path, Named, Moved
<1> QED BY <1>5, <1>6 DEF Typed
\* The steps of the review and of the sweep.
LEMMA RequestTyped ==
    ASSUME Typed, (\E u \in Users : Ask(u)) \/ Expire \/ List \/ TakeNext
    PROVE  Typed'
<1> USE DEF diskVars, rowVars, recordVars, workVars, reviewVars, restVars
<1>1. CASE \E u \in Users : Ask(u)
  <2>1. PICK u \in Users, o \in Originals, first \in {"move", "remove"} :
            /\ record[o] = "active"
            /\ rpc' = [rpc EXCEPT ![u] = first]
            /\ rrec' = [rrec EXCEPT ![u] = o]
            /\ UNCHANGED <<diskVars, rowVars, recordVars, workVars, todo,
                           restVars, discarded>>
        BY <1>1 DEF Ask
  <2>2. u \in Reviewers BY DEF Reviewers
  <2>3. TypeOK' BY <2>1, <2>2 DEF Typed, TypeOK, Restoring
  <2>4. Shape' BY <2>1, <2>2 DEF Typed, TypeOK, Shape, On, Path
  <2> QED BY <2>3, <2>4 DEF Typed
<1>2. CASE Expire
  <2>1. TypeOK' BY <1>2 DEF Typed, TypeOK, Expire
  <2>2. Shape' BY <1>2 DEF Typed, Shape, Expire, On, Path
  <2> QED BY <2>1, <2>2 DEF Typed
<1>3. CASE List
  <2>1. TypeOK' BY <1>3 DEF Typed, TypeOK, List
  <2>2. Shape' BY <1>3 DEF Typed, TypeOK, Shape, List, On, Path
  <2> QED BY <2>1, <2>2 DEF Typed
<1>4. CASE TakeNext
  <2>1. PICK o \in todo : /\ todo' = todo \ {o}
                          /\ rpc' = [rpc EXCEPT ![Gc] = "remove"]
                          /\ rrec' = [rrec EXCEPT ![Gc] = o]
        BY <1>4 DEF TakeNext
  <2>2. Gc \in Reviewers /\ o \in Originals BY DEF Reviewers, Typed, TypeOK
  <2>3. UNCHANGED <<diskVars, rowVars, recordVars, workVars, restVars,
                    discarded>>
        BY <1>4 DEF TakeNext
  <2>4. TypeOK' BY <2>1, <2>2, <2>3 DEF Typed, TypeOK
  <2>5. Shape' BY <2>1, <2>2, <2>3 DEF Typed, TypeOK, Shape, On, Path
  <2> QED BY <2>4, <2>5 DEF Typed
<1> QED BY <1>1, <1>2, <1>3, <1>4

\* A reviewer at work has read a record.
LEMMA ReviewedRecord ==
    ASSUME Typed, NEW r \in Reviewers, rpc[r] # "idle"
    PROVE  /\ rrec[r] \in Originals /\ record[rrec[r]] # "unborn"
           /\ owner[rrec[r]] \in Jobs /\ Path(rrec[r]) \in Sources
           /\ output[rrec[r]] \in Outs(Path(rrec[r]))
           /\ output[rrec[r]] \in Names /\ bytes[rrec[r]] \in Content
BY DEF Typed, TypeOK, Shape, Path

\* A review moves a held file back, or gives up.
LEMMA MoveTyped == ASSUME Typed, NEW r \in Reviewers, Move(r)
                   PROVE  Typed'
<1> USE DEF diskVars, rowVars, recordVars, workVars, reviewVars, restVars
<1>1. Path(rrec[r]) \in Sources BY ReviewedRecord DEF Move
<1>2. Path(rrec[r]) \in Names BY <1>1, NamesAssumption
<1>3. TypeOK' BY <1>1, <1>2 DEF Typed, TypeOK, Move, Step, End, Restoring
<1>4. Shape' BY DEF Typed, TypeOK, Shape, Move, Step, End, On, Path
<1> QED BY <1>3, <1>4 DEF Typed

\* A review removes the output of what it moved back.
LEMMA DropTyped == ASSUME Typed, NEW r \in Reviewers, Drop(r)
                   PROVE  Typed'
<1> USE DEF diskVars, rowVars, recordVars, workVars, reviewVars, restVars
<1>1. TypeOK' BY DEF Typed, TypeOK, Drop, Step, Restoring
<1>2. Shape' BY DEF Typed, TypeOK, Shape, Drop, Step, On, Path
<1> QED BY <1>1, <1>2 DEF Typed

\* A review deletes the held file.
LEMMA RemoveTyped == ASSUME Typed, NEW r \in Reviewers, Remove(r)
                     PROVE  Typed'
<1> USE DEF diskVars, rowVars, recordVars, workVars, reviewVars, restVars
<1>1. bytes[rrec[r]] \in Content BY ReviewedRecord DEF Remove
<1>2. TypeOK' BY <1>1 DEF Typed, TypeOK, Remove, Step, End
<1>3. Shape' BY DEF Typed, TypeOK, Shape, Remove, Step, End, On, Path
<1> QED BY <1>2, <1>3 DEF Typed

\* A review marks the record as approved or restored.
LEMMA MarkTyped == ASSUME Typed, NEW r \in Reviewers, Mark(r)
                   PROVE  Typed'
<1> USE DEF diskVars, rowVars, recordVars, workVars, reviewVars, restVars
<1>1. rrec[r] \in Originals BY ReviewedRecord DEF Mark
<1>2. /\ record' = [record EXCEPT ![rrec[r]] =
                       IF record[rrec[r]] = "active" THEN "deleted"
                       ELSE record[rrec[r]]]
      /\ expired' = expired \ {rrec[r]}
      BY DEF Mark
<1>3. /\ record' \in [Originals ->
                         {"unborn", "active", "deleted", "cleared"}]
      /\ \A o \in Originals : record'[o] = "unborn" <=> record[o] = "unborn"
      /\ expired' \subseteq {o \in Originals : record'[o] = "active"}
      BY <1>1, <1>2 DEF Typed, TypeOK
<1>4. TypeOK' BY <1>3 DEF Typed, TypeOK, Mark, Step, Restoring
<1>5. Shape' BY <1>3 DEF Typed, TypeOK, Shape, Mark, Step, On, Path
<1> QED BY <1>4, <1>5 DEF Typed

\* A review sets the state of the row, and is over.
LEMMA ConcludeTyped == ASSUME Typed, NEW r \in Reviewers, Conclude(r)
                       PROVE  Typed'
<1> USE DEF diskVars, rowVars, recordVars, workVars, reviewVars, restVars
<1>1. owner[rrec[r]] \in Jobs BY ReviewedRecord DEF Conclude
<1>2. PICK st \in {"restored", "excluded", "done"} :
          SetStatus(owner[rrec[r]], st)
      BY DEF Conclude
<1>3. st \in Statuses \ {"unborn"} BY DEF Statuses, Terminal
<1>4. /\ status' \in [Jobs -> Statuses]
      /\ \A k \in Jobs : status'[k] = "unborn" <=> status[k] = "unborn"
      BY <1>1, <1>2, <1>3, StatusSet DEF Typed
<1>5. TypeOK' BY <1>4 DEF Typed, TypeOK, Conclude, End
<1>6. Shape' BY <1>4 DEF Typed, TypeOK, Shape, Conclude, End, On, Path
<1> QED BY <1>5, <1>6 DEF Typed

\* Clearing the history deletes records, then rows.
LEMMA ClearTyped == ASSUME Typed, ClearRecords \/ ClearRows
                    PROVE  Typed'
<1> USE DEF diskVars, rowVars, recordVars, workVars, reviewVars, restVars
<1>1. CASE ClearRecords
  <2>1. /\ record' \in [Originals ->
                           {"unborn", "active", "deleted", "cleared"}]
        /\ \A o \in Originals : record'[o] = "unborn" <=> record[o] = "unborn"
        /\ expired' \subseteq {o \in Originals : record'[o] = "active"}
        BY <1>1 DEF Typed, TypeOK, ClearRecords
  <2>2. clearing' \in BOOLEAN BY <1>1 DEF ClearRecords
  <2>3. TypeOK' BY <1>1, <2>1, <2>2 DEF Typed, TypeOK, ClearRecords
  <2>4. Shape' BY <1>1, <2>1 DEF Typed, TypeOK, Shape, ClearRecords, On, Path
  <2> QED BY <2>3, <2>4 DEF Typed
<1>2. CASE ClearRows
  <2>1. /\ status' \in [Jobs -> Statuses]
        /\ result' \in [Jobs -> Names \cup {NoName}]
        /\ \A k \in Jobs : status'[k] = "unborn" <=> status[k] = "unborn"
        BY <1>2 DEF Typed, TypeOK, ClearRows, Statuses, Terminal
  <2>2. clearing' \in BOOLEAN BY <1>2 DEF ClearRows
  <2>3. UNCHANGED <<diskVars, path, recordVars, workVars, reviewVars, crashes,
                    discarded>>
        BY <1>2 DEF ClearRows
  <2>4. TypeOK' BY <2>1, <2>2, <2>3 DEF Typed, TypeOK
  <2>5. Shape' BY <2>1, <2>3 DEF Typed, TypeOK, Shape, On, Path
  <2> QED BY <2>4, <2>5 DEF Typed
<1> QED BY <1>1, <1>2

\* A crash stops every worker and every review.
LEMMA CrashTyped == ASSUME Typed, Crash PROVE Typed'
<1> USE DEF diskVars, rowVars, recordVars, workVars, reviewVars, restVars
<1>1. PICK survivors \in SUBSET Users :
          /\ rpc' = [r \in Reviewers |-> IF r \in survivors THEN rpc[r]
                                         ELSE "idle"]
          /\ rrec' = [r \in Reviewers |-> IF r \in survivors THEN rrec[r]
                                          ELSE NoRecord]
      BY DEF Crash
<1>2. crashes' \in 0 .. MaxCrashes
      BY BoundsAssumption DEF Crash, Typed, TypeOK
<1>3. clearing' \in BOOLEAN BY DEF Crash
<1>4. /\ status' \in [Jobs -> Statuses]
      /\ \A k \in Jobs : status'[k] = "unborn" <=> status[k] = "unborn"
      BY DEF Typed, TypeOK, Crash, Statuses
<1>5. /\ rpc' \in [Reviewers ->
                       {"idle", "remove", "markDone", "done"} \cup Restoring]
      /\ rrec' \in [Reviewers -> Originals \cup {NoRecord}]
      /\ \A r \in Reviewers : rpc'[r] # "idle" =>
                                 rpc[r] # "idle" /\ rrec'[r] = rrec[r]
      BY <1>1 DEF Typed, TypeOK
<1>6. /\ wpc' = [w \in Workers |-> "idle"]
      /\ wjob' = [w \in Workers |-> NoJob]
      /\ wout' = [w \in Workers |-> NoName]
      /\ wsrc' = [w \in Workers |-> NoFile]
      /\ todo' = {}
      /\ UNCHANGED <<diskVars, path, result, recordVars, discarded>>
      BY DEF Crash
<1>7. TypeOK' BY <1>2, <1>3, <1>4, <1>5, <1>6 DEF Typed, TypeOK
<1>8. Shape' BY <1>4, <1>5, <1>6
             DEF Typed, TypeOK, Shape, On, Path, Named, Moved
<1> QED BY <1>7, <1>8 DEF Typed

\* Every step keeps the types and the shape of the actors.
LEMMA TypedStep == Typed /\ [Next]_vars => Typed'
<1> SUFFICES ASSUME Typed, [Next]_vars PROVE Typed' OBVIOUS
<1>1. CASE UNCHANGED vars
      BY <1>1 DEF Typed, TypeOK, Shape, On, Path, vars, diskVars, rowVars,
                  recordVars, workVars, reviewVars, restVars
<1>2. CASE \E w \in Workers : Work(w)
      BY <1>2, ClaimTyped, EncodeTyped, ChooseTyped, PlaceTyped, HoldTyped,
         RecordTyped, StageTyped DEF Work
<1>3. CASE \E r \in Reviewers : Review(r)
      BY <1>3, MoveTyped, DropTyped, RemoveTyped, MarkTyped, ConcludeTyped
      DEF Review
<1> QED BY <1>1, <1>2, <1>3, EnqueueTyped, RequestTyped, ClearTyped, CrashTyped
        DEF Next, Sweep

\* Every variable of Staging has its type in every state.
THEOREM TypeCorrect == Spec => []TypeOK
<1>1. Init => Typed BY TypedStart
<1>2. Typed /\ [Next]_vars => Typed' BY TypedStep
<1>3. Typed => TypeOK BY DEF Typed
<1> QED BY <1>1, <1>2, <1>3, PTL DEF Spec

-----------------------------------------------------------------------------
(* The originals. They are safe, whatever fails, wherever the process dies, *)
(* whatever is cleared, and however many requests and CLI restores overlap, *)
(* unless two workers have one film between the claim and the move of its   *)
(* original, and that film has its own name among its outputs: then the     *)
(* second may find the name free, because the first has moved the film, and *)
(* hold its output in place of the original.                                *)

Original(f) == [film |-> f, kind |-> "original"]

\* No output of one film has the name of another.
NamesApart ==
    \A n \in Sources : /\ Fallback[n] # n
                       /\ Outs(n) \cap (Films \cup Sources) \subseteq {n}

Before == {"encode", "name", "place", "hold"}

\* Nobody else encodes the film a worker encodes.
Alone ==
    \A v, w \in Workers :
        wpc[v] \in Before /\ wpc[w] \in Before /\ On(v) = On(w) => v = w

\* The film has the extension of the encode, so that OutputPath may choose its
\* own name when it is not there.
InPlace(n) == n \in Outs(n)

\* The same as Alone, of the films that this concerns.
AloneInPlace ==
    \A v, w \in Workers :
        /\ wpc[v] \in Before /\ wpc[w] \in Before
        /\ On(v) = On(w) /\ InPlace(On(w))
        => v = w

\* Who is alone is alone at every film.
LEMMA AllAlone == Alone => AloneInPlace
BY DEF Alone, AloneInPlace

SingleWorker == \A v, w \in Workers : v = w

\* No two workers can be at one film whose own name is an output.
Uncontested == SingleWorker \/ \A n \in Sources : ~InPlace(n)

\* The bytes of an original lie under its name or are held, never both.
Places ==
    /\ \A n \in Films \cup Sources : lib[n] \in {NoFile, Original(n)}
    /\ \A n \in Sources : /\ held[n] \in {NoFile, Original(n)}
                          /\ lib[n] = NoFile \/ held[n] = NoFile

\* Nothing but a reviewer's deletion takes them away.
Kept ==
    \A f \in Films : \/ Original(f) \in discarded
                     \/ lib[f] = Original(f)
                     \/ f \in Sources /\ held[f] = Original(f)

\* A worker has its film before it, if the film has its name among its outputs,
\* gives the output another name, and has moved the original bytes.
AtWork ==
    \A w \in Workers : /\ wpc[w] \in Before /\ InPlace(On(w))
                             => lib[On(w)] # NoFile
                       /\ wpc[w] \in Named => wout[w] # On(w)
                       /\ wpc[w] \in Moved => wsrc[w] = Original(On(w))

\* A record stands for the original bytes of its path.
Recorded ==
    \A o \in Originals : record[o] # "unborn" =>
        output[o] # Path(o) /\ bytes[o] = Original(Path(o))

Safe == Places /\ Kept /\ AtWork /\ Recorded

\* Every film is in its place at the start.
LEMMA SafeStart == Init => Safe
<1> SUFFICES ASSUME Init PROVE Safe OBVIOUS
<1>1. \A n \in Films \cup Sources :
          lib[n] = IF n \in Films THEN Original(n) ELSE NoFile
      BY NamesAssumption DEF Init, Original
<1>2. Places BY <1>1 DEF Places, Init
<1>3. Kept BY <1>1 DEF Kept
<1>4. AtWork /\ Recorded BY DEF AtWork, Recorded, Init, Before, Named, Moved
<1> QED BY <1>2, <1>3, <1>4 DEF Safe

\* What a step leaves of workers and records when it neither moves a file nor
\* takes a row for a film.
LEMMA SafeElsewhere ==
    ASSUME Typed, Safe,
           \A n \in Films \cup Sources : lib'[n] = lib[n],
           held' = held, discarded' = discarded,
           \A k \in Jobs : status[k] # "unborn" => path'[k] = path[k],
           \A w \in Workers : \/ wpc'[w] = "idle"
                              \/ /\ wpc[w] # "idle" /\ wjob'[w] = wjob[w]
                                 /\ wpc'[w] \in Before => wpc[w] \in Before
                                 /\ wpc'[w] \in Named => wout'[w] # On(w)
                                 /\ wpc'[w] \in Moved =>
                                       wsrc'[w] = Original(On(w)),
           \A o \in Originals : record'[o] # "unborn" =>
               \/ /\ record[o] # "unborn" /\ owner'[o] = owner[o]
                  /\ output'[o] = output[o] /\ bytes'[o] = bytes[o]
               \/ /\ owner'[o] \in Jobs /\ status[owner'[o]] # "unborn"
                  /\ output'[o] # path[owner'[o]]
                  /\ bytes'[o] = Original(path[owner'[o]])
    PROVE  Safe'
<1>1. Places' BY DEF Safe, Places
<1>2. Kept' BY DEF Safe, Kept
<1>3. AtWork'
  <2> SUFFICES ASSUME NEW w \in Workers, wpc'[w] # "idle"
               PROVE  /\ wpc'[w] \in Before /\ InPlace(On(w)')
                            => lib'[On(w)'] # NoFile
                      /\ wpc'[w] \in Named => wout'[w] # On(w)'
                      /\ wpc'[w] \in Moved => wsrc'[w] = Original(On(w)')
      BY DEF AtWork, Before, Named, Moved, Original, InPlace, Outs
  <2>1. wpc[w] # "idle" /\ wjob'[w] = wjob[w] OBVIOUS
  <2>2. On(w)' = On(w) /\ On(w) \in Sources
        BY <2>1 DEF On, Typed, Shape
  <2> QED BY <2>1, <2>2 DEF Safe, AtWork
<1>4. Recorded'
  <2> SUFFICES ASSUME NEW o \in Originals, record'[o] # "unborn"
               PROVE  /\ output'[o] # Path(o)'
                      /\ bytes'[o] = Original(Path(o)')
      BY DEF Recorded, Original
  <2>1. CASE /\ record[o] # "unborn" /\ owner'[o] = owner[o]
             /\ output'[o] = output[o] /\ bytes'[o] = bytes[o]
    <3>1. Path(o)' = Path(o) BY <2>1 DEF Path, Typed, TypeOK, Shape
    <3> QED BY <2>1, <3>1 DEF Safe, Recorded
  <2>2. CASE /\ owner'[o] \in Jobs /\ status[owner'[o]] # "unborn"
             /\ output'[o] # path[owner'[o]]
             /\ bytes'[o] = Original(path[owner'[o]])
    <3>1. Path(o)' = path[owner'[o]] BY <2>2 DEF Path
    <3> QED BY <2>2, <3>1
  <2> QED BY <2>1, <2>2
<1> QED BY <1>1, <1>2, <1>3, <1>4 DEF Safe

\* An output is not the name of a film, once it is not the film's own.
LEMMA OutputsApart ==
    ASSUME NamesApart, NEW n \in Sources, NEW x \in Outs(n), x # n
    PROVE  x \notin Films \cup Sources
BY DEF NamesApart

\* A worker's job is on a source, and its output is no film's name.
LEMMA WorkersOutput ==
    ASSUME Typed, Safe, NamesApart, NEW w \in Workers, wpc[w] # "idle"
    PROVE  /\ wjob[w] \in Jobs /\ status[wjob[w]] # "unborn"
           /\ On(w) \in Sources /\ path[wjob[w]] = On(w)
           /\ wpc[w] \in Named => wout[w] \notin Films \cup Sources
BY OutputsApart DEF Typed, Shape, On, Safe, AtWork

\* A new row is no worker's, and disturbs nothing.
LEMMA EnqueueSafe == ASSUME Typed, Safe, NEW n \in Sources, Enqueue(n)
                     PROVE  Safe'
<1>1. PICK j \in Jobs : /\ status[j] = "unborn"
                         /\ path' = [path EXCEPT ![j] = n]
      BY DEF Enqueue
<1>2. \A k \in Jobs : status[k] # "unborn" => path'[k] = path[k]
      BY <1>1 DEF Typed, TypeOK
<1>3. UNCHANGED <<diskVars, recordVars, workVars, discarded>>
      BY DEF Enqueue
<1>4. UNCHANGED <<lib, held, record, owner, output, bytes, wpc, wjob, wout,
                  wsrc, discarded>>
      BY <1>3 DEF diskVars, recordVars, workVars
<1>5. \A w \in Workers : /\ wpc[w] \in Named => wout[w] # On(w)
                         /\ wpc[w] \in Moved => wsrc[w] = Original(On(w))
      BY DEF Safe, AtWork
<1> QED BY <1>2, <1>4, <1>5, SafeElsewhere

\* The only thing a step does to workers and records is to end a job, if any.
LEMMA SafeLeft ==
    ASSUME Typed, Safe,
           \A n \in Films \cup Sources : lib'[n] = lib[n],
           UNCHANGED <<held, discarded, path>>,
           \A w \in Workers : \/ wpc'[w] = "idle"
                              \/ /\ wpc'[w] = wpc[w] /\ wjob'[w] = wjob[w]
                                 /\ wout'[w] = wout[w] /\ wsrc'[w] = wsrc[w],
           \A o \in Originals : record'[o] # "unborn" => record[o] # "unborn",
           UNCHANGED <<owner, output, bytes>>
    PROVE  Safe'
<1>1. \A w \in Workers : \/ wpc'[w] = "idle"
                         \/ /\ wpc[w] # "idle" /\ wjob'[w] = wjob[w]
                            /\ wpc'[w] \in Before => wpc[w] \in Before
                            /\ wpc'[w] \in Named => wout'[w] # On(w)
                            /\ wpc'[w] \in Moved =>
                                  wsrc'[w] = Original(On(w))
      BY DEF Safe, AtWork
<1> QED BY <1>1, SafeElsewhere

\* The claim of a job whose film is there puts the worker before its film.
LEMMA ClaimSafe == ASSUME Typed, Safe, NEW w \in Workers, Claim(w)
                   PROVE  Safe'
<1> USE DEF diskVars, recordVars
<1>1. UNCHANGED <<lib, held, path, owner, output, bytes, record, discarded,
                  wout, wsrc>>
      BY DEF Claim
<1>2. PICK j \in Jobs :
          /\ status[j] = "pending"
          /\ \/ lib[path[j]] = NoFile /\ UNCHANGED <<wpc, wjob>>
             \/ /\ lib[path[j]] # NoFile
                /\ wpc' = [wpc EXCEPT ![w] = "encode"]
                /\ wjob' = [wjob EXCEPT ![w] = j]
      BY DEF Claim, Advance
<1>3. CASE UNCHANGED <<wpc, wjob>> BY <1>1, <1>3, SafeLeft
<1>4. CASE /\ lib[path[j]] # NoFile
           /\ wpc' = [wpc EXCEPT ![w] = "encode"]
           /\ wjob' = [wjob EXCEPT ![w] = j]
  <2>1. /\ wpc'[w] = "encode" /\ wjob'[w] = j
        /\ \A v \in Workers \ {w} : wpc'[v] = wpc[v] /\ wjob'[v] = wjob[v]
        BY <1>4 DEF Typed, TypeOK
  <2>2. AtWork'
    <3> SUFFICES ASSUME NEW v \in Workers
                 PROVE  /\ wpc'[v] \in Before /\ InPlace(On(v)')
                              => lib'[On(v)'] # NoFile
                        /\ wpc'[v] \in Named => wout'[v] # On(v)'
                        /\ wpc'[v] \in Moved => wsrc'[v] = Original(On(v)')
        BY DEF AtWork, Original, InPlace, Outs
    <3>1. CASE v = w
          BY <1>1, <1>4, <2>1, <3>1 DEF On, Named, Moved
    <3>2. CASE v # w
          BY <1>1, <2>1, <3>2 DEF On, Safe, AtWork
    <3> QED BY <3>1, <3>2
  <2>3. Places' /\ Kept' /\ Recorded'
        BY <1>1 DEF Safe, Places, Kept, Recorded, Path
  <2> QED BY <2>2, <2>3 DEF Safe
<1> QED BY <1>2, <1>3, <1>4

\* A worker that gives up, or one that goes on without moving a film.
LEMMA EncodeSafe == ASSUME Typed, Safe, NEW w \in Workers, Encode(w)
                    PROVE  Safe'
<1> USE DEF rowVars, recordVars
<1>1. UNCHANGED <<lib, held, path, owner, output, bytes, record, discarded>>
      BY DEF Encode
<1>2. \A v \in Workers : \/ wpc'[v] = "idle"
                         \/ /\ wpc[v] # "idle" /\ wjob'[v] = wjob[v]
                            /\ wpc'[v] \in Before => wpc[v] \in Before
                            /\ wpc'[v] \in Named => wpc[v] \in Named
                            /\ wpc'[v] \in Moved => wpc[v] \in Moved
                            /\ wout'[v] = wout[v] /\ wsrc'[v] = wsrc[v]
  <2>1. wpc[w] = "encode" /\ w \in DOMAIN wpc BY DEF Encode, Typed, TypeOK
  <2>2. CASE wpc' = [wpc EXCEPT ![w] = "name"] /\ UNCHANGED <<wjob, wout, wsrc>>
        BY <2>1, <2>2 DEF Typed, TypeOK, Before, Named, Moved
  <2>3. CASE Leave(w)
        BY <2>1, <2>3 DEF Typed, TypeOK, Leave
  <2> QED BY <2>2, <2>3 DEF Encode, GiveUp, Advance
<1>3. \A v \in Workers : \/ wpc'[v] = "idle"
                         \/ /\ wpc[v] # "idle" /\ wjob'[v] = wjob[v]
                            /\ wpc'[v] \in Before => wpc[v] \in Before
                            /\ wpc'[v] \in Named => wout'[v] # On(v)
                            /\ wpc'[v] \in Moved =>
                                  wsrc'[v] = Original(On(v))
      BY <1>2 DEF Safe, AtWork
<1> QED BY <1>1, <1>3, SafeElsewhere

\* OutputPath does not choose the film's own name: the film has it, or it is
\* none of its outputs.
LEMMA ChooseSafe ==
    ASSUME Typed, Safe, NamesApart, NEW w \in Workers, Choose(w)
    PROVE  Safe'
<1> USE DEF diskVars, rowVars, recordVars
<1>1. UNCHANGED <<lib, held, path, owner, output, bytes, record, discarded,
                  wjob, wsrc>>
      BY DEF Choose
<1>2. /\ wpc[w] = "name" /\ On(w) \in Sources /\ path[wjob[w]] = On(w)
      /\ InPlace(On(w)) => lib[On(w)] # NoFile
      BY WorkersOutput DEF Choose, Safe, AtWork, Before
<1> DEFINE out == OutputPath(path[wjob[w]])
<1>3. out # On(w)
      BY <1>2, OutputNames DEF NamesApart, InPlace
<1>4. wout' = [wout EXCEPT ![w] = out] /\ wpc' = [wpc EXCEPT ![w] = "place"]
      BY DEF Choose, Advance
<1> HIDE DEF out
<1>5. \A v \in Workers : \/ wpc'[v] = "idle"
                         \/ /\ wpc[v] # "idle" /\ wjob'[v] = wjob[v]
                            /\ wpc'[v] \in Before => wpc[v] \in Before
                            /\ wpc'[v] \in Named => wout'[v] # On(v)
                            /\ wpc'[v] \in Moved =>
                                  wsrc'[v] = Original(On(v))
  <2> SUFFICES ASSUME NEW v \in Workers
               PROVE  \/ wpc'[v] = "idle"
                      \/ /\ wpc[v] # "idle" /\ wjob'[v] = wjob[v]
                         /\ wpc'[v] \in Before => wpc[v] \in Before
                         /\ wpc'[v] \in Named => wout'[v] # On(v)
                         /\ wpc'[v] \in Moved => wsrc'[v] = Original(On(v))
      OBVIOUS
  <2>1. CASE v = w
        BY <1>1, <1>2, <1>3, <1>4, <2>1 DEF Typed, TypeOK, Before, Moved
  <2>2. CASE v # w
        BY <1>1, <1>4, <2>2 DEF Typed, TypeOK, Safe, AtWork
  <2> QED BY <2>1, <2>2
<1> QED BY <1>1, <1>5, SafeElsewhere

\* Renaming the output never covers the film it was made from.
LEMMA PlaceSafe ==
    ASSUME Typed, Safe, NamesApart, NEW w \in Workers, Place(w)
    PROVE  Safe'
<1> USE DEF rowVars, recordVars
<1>1. UNCHANGED <<held, path, owner, output, bytes, record, discarded>>
      BY DEF Place
<1>2. wpc[w] = "place" /\ wout[w] \notin Films \cup Sources
      BY WorkersOutput DEF Place, Named
<1>3. \A n \in Films \cup Sources : lib'[n] = lib[n]
      BY <1>2, NamesAssumption DEF Place, Typed, TypeOK
<1>4. \A v \in Workers : \/ wpc'[v] = "idle"
                         \/ /\ wpc[v] # "idle" /\ wjob'[v] = wjob[v]
                            /\ wpc'[v] \in Before => wpc[v] \in Before
                            /\ wpc'[v] \in Named => wpc[v] \in Named
                            /\ wpc'[v] \in Moved => wpc[v] \in Moved
                            /\ wout'[v] = wout[v] /\ wsrc'[v] = wsrc[v]
  <2>1. CASE wpc' = [wpc EXCEPT ![w] = "hold"] /\ UNCHANGED <<wjob, wout, wsrc>>
        BY <1>2, <2>1 DEF Typed, TypeOK, Before, Named, Moved
  <2>2. CASE Leave(w)
        BY <2>2 DEF Typed, TypeOK, Leave
  <2> QED BY <2>1, <2>2 DEF Place, GiveUp, Advance
<1>5. \A v \in Workers : \/ wpc'[v] = "idle"
                         \/ /\ wpc[v] # "idle" /\ wjob'[v] = wjob[v]
                            /\ wpc'[v] \in Before => wpc[v] \in Before
                            /\ wpc'[v] \in Named => wout'[v] # On(v)
                            /\ wpc'[v] \in Moved =>
                                  wsrc'[v] = Original(On(v))
      BY <1>4 DEF Safe, AtWork
<1> QED BY <1>1, <1>3, <1>5, SafeElsewhere

\* The move of the original: nobody else has the film before him who needs it.
LEMMA HoldSafe ==
    ASSUME Typed, Safe, NamesApart, AloneInPlace, NEW w \in Workers, Hold(w)
    PROVE  Safe'
<1> USE DEF rowVars, recordVars
<1> DEFINE n == path[wjob[w]]
<1>1. UNCHANGED <<path, owner, output, bytes, record, discarded>>
      BY DEF Hold
<1>2. /\ wpc[w] = "hold" /\ wout[w] \notin Films \cup Sources /\ n = On(w)
      /\ n \in Sources /\ n \in Names /\ wout[w] # n
      BY WorkersOutput, NamesAssumption DEF Hold, Named
<1>3. CASE /\ lib[n] # NoFile
           /\ held' = [held EXCEPT ![n] = lib[n]]
           /\ lib' = [lib EXCEPT ![n] = NoFile]
           /\ wsrc' = [wsrc EXCEPT ![w] = lib[n]]
           /\ Advance(w, "record")
           /\ UNCHANGED <<wjob, wout>>
  <2>1. /\ lib[n] = Original(n) /\ held'[n] = Original(n)
        /\ lib'[n] = NoFile
        /\ \A m \in Names \ {n} : lib'[m] = lib[m]
        /\ \A m \in Sources \ {n} : held'[m] = held[m]
        BY <1>2, <1>3 DEF Safe, Places, Typed, TypeOK
  <2> HIDE DEF n
  <2>2. Places' BY <2>1, NamesAssumption DEF Safe, Places, Original
  <2>3. Kept' BY <1>1, <1>2, <2>1, NamesAssumption DEF Safe, Kept, Original
  <2>4. AtWork'
    <3>1. /\ wpc'[w] = "record" /\ wsrc'[w] = Original(n)
          /\ wout'[w] = wout[w] /\ On(w)' = n
          BY <1>1, <1>2, <1>3, <2>1 DEF Typed, TypeOK, Advance, On
    <3>2. ASSUME NEW v \in Workers, v # w
          PROVE  /\ wpc'[v] = wpc[v] /\ wsrc'[v] = wsrc[v]
                 /\ wout'[v] = wout[v] /\ On(v)' = On(v)
                 /\ wpc[v] \in Before /\ InPlace(On(v))
                       => lib'[On(v)] = lib[On(v)]
      <4>1. /\ wpc'[v] = wpc[v] /\ wsrc'[v] = wsrc[v]
            /\ wout'[v] = wout[v] /\ On(v)' = On(v)
            BY <1>1, <1>3, <3>2 DEF Typed, TypeOK, Advance, On
      <4>2. wpc[v] \in Before /\ InPlace(On(v))
                => On(v) # n /\ On(v) \in Names
            BY <1>2, <3>2, WorkersOutput, NamesAssumption
            DEF AloneInPlace, Before
      <4> QED BY <2>1, <4>1, <4>2
    <3>3. ASSUME NEW v \in Workers
          PROVE  /\ wpc'[v] \in Before /\ InPlace(On(v)')
                       => lib'[On(v)'] # NoFile
                 /\ wpc'[v] \in Named => wout'[v] # On(v)'
                 /\ wpc'[v] \in Moved => wsrc'[v] = Original(On(v)')
      <4>1. CASE v = w BY <1>2, <3>1, <4>1 DEF Before
      <4>2. CASE v # w BY <3>2, <4>2 DEF Safe, AtWork
      <4> QED BY <4>1, <4>2
    <3> QED BY <3>3 DEF AtWork, Original, InPlace, Outs
  <2>5. Recorded' BY <1>1 DEF Safe, Recorded, Path
  <2> QED BY <2>2, <2>3, <2>4, <2>5 DEF Safe
<1>4. CASE /\ lib' = [lib EXCEPT ![wout[w]] = NoFile]
           /\ GiveUp(w) /\ UNCHANGED held
  <2>1. \A m \in Films \cup Sources : lib'[m] = lib[m]
        BY <1>2, <1>4, NamesAssumption DEF Typed, TypeOK
  <2>2. \A v \in Workers : \/ wpc'[v] = "idle"
                           \/ /\ wpc'[v] = wpc[v] /\ wjob'[v] = wjob[v]
                              /\ wout'[v] = wout[v] /\ wsrc'[v] = wsrc[v]
        BY <1>4 DEF Typed, TypeOK, GiveUp, Leave
  <2> QED BY <1>1, <1>4, <2>1, <2>2, SafeLeft
<1> QED BY <1>3, <1>4 DEF Hold

\* The record that is written names the file just held.
LEMMA RecordSafe == ASSUME Typed, Safe, NEW w \in Workers, Record(w)
                    PROVE  Safe'
<1> USE DEF diskVars, rowVars
<1>1. UNCHANGED <<lib, held, path, discarded, wjob, wout, wsrc>>
      BY DEF Record
<1>2. /\ wpc[w] = "record" /\ wpc' = [wpc EXCEPT ![w] = "stage"]
      /\ wjob[w] \in Jobs /\ status[wjob[w]] # "unborn"
      /\ wout[w] # path[wjob[w]] /\ wsrc[w] = Original(path[wjob[w]])
      BY DEF Record, Advance, Typed, Shape, Safe, AtWork, Named, Moved, On
<1>3. \A v \in Workers : \/ wpc'[v] = "idle"
                         \/ /\ wpc[v] # "idle" /\ wjob'[v] = wjob[v]
                            /\ wpc'[v] \in Before => wpc[v] \in Before
                            /\ wpc'[v] \in Named => wout'[v] # On(v)
                            /\ wpc'[v] \in Moved =>
                                  wsrc'[v] = Original(On(v))
  <2> SUFFICES ASSUME NEW v \in Workers
               PROVE  \/ wpc'[v] = "idle"
                      \/ /\ wpc[v] # "idle" /\ wjob'[v] = wjob[v]
                         /\ wpc'[v] \in Before => wpc[v] \in Before
                         /\ wpc'[v] \in Named => wout'[v] # On(v)
                         /\ wpc'[v] \in Moved => wsrc'[v] = Original(On(v))
      OBVIOUS
  <2>1. CASE v = w
        BY <1>1, <1>2, <2>1 DEF Typed, TypeOK, Before, On
  <2>2. CASE v # w
        BY <1>1, <1>2, <2>2 DEF Typed, TypeOK, Safe, AtWork
  <2> QED BY <2>1, <2>2
<1>4. \A o \in Originals : record'[o] # "unborn" =>
          \/ /\ record[o] # "unborn" /\ owner'[o] = owner[o]
             /\ output'[o] = output[o] /\ bytes'[o] = bytes[o]
          \/ /\ owner'[o] \in Jobs /\ status[owner'[o]] # "unborn"
             /\ output'[o] # path[owner'[o]]
             /\ bytes'[o] = Original(path[owner'[o]])
  <2>1. CASE UNCHANGED <<record, owner, output, bytes>> BY <2>1
  <2>2. CASE \E o \in Originals :
                /\ record' = [record EXCEPT ![o] = "active"]
                /\ owner' = [owner EXCEPT ![o] = wjob[w]]
                /\ output' = [output EXCEPT ![o] = wout[w]]
                /\ bytes' = [bytes EXCEPT ![o] = wsrc[w]]
    <3>1. PICK o \in Originals :
                /\ record' = [record EXCEPT ![o] = "active"]
                /\ owner' = [owner EXCEPT ![o] = wjob[w]]
                /\ output' = [output EXCEPT ![o] = wout[w]]
                /\ bytes' = [bytes EXCEPT ![o] = wsrc[w]]
          BY <2>2
    <3> QED BY <1>2, <3>1 DEF Typed, TypeOK
  <2> QED BY <2>1, <2>2 DEF Record
<1> QED BY <1>1, <1>3, <1>4, SafeElsewhere

\* Ending the job leaves the files and the records alone.
LEMMA StageSafe == ASSUME Typed, Safe, NEW w \in Workers, Stage(w)
                   PROVE  Safe'
<1>1. UNCHANGED <<lib, held, path, owner, output, bytes, record, discarded>>
      BY DEF Stage, diskVars, recordVars
<1>2. \A v \in Workers : \/ wpc'[v] = "idle"
                         \/ /\ wpc'[v] = wpc[v] /\ wjob'[v] = wjob[v]
                            /\ wout'[v] = wout[v] /\ wsrc'[v] = wsrc[v]
      BY DEF Stage, Leave, Typed, TypeOK
<1> QED BY <1>1, <1>2, SafeLeft

\* What a reviewer's record says.
LEMMA ReviewedSafe ==
    ASSUME Typed, Safe, NamesApart, NEW r \in Reviewers, rpc[r] # "idle"
    PROVE  /\ rrec[r] \in Originals /\ Path(rrec[r]) \in Sources
           /\ output[rrec[r]] \notin Films \cup Sources
           /\ output[rrec[r]] \in Names
           /\ bytes[rrec[r]] = Original(Path(rrec[r]))
<1>1. /\ rrec[r] \in Originals /\ record[rrec[r]] # "unborn"
      /\ Path(rrec[r]) \in Sources
      /\ output[rrec[r]] \in Outs(Path(rrec[r]))
      /\ output[rrec[r]] \in Names
      BY ReviewedRecord
<1>2. /\ output[rrec[r]] # Path(rrec[r])
      /\ bytes[rrec[r]] = Original(Path(rrec[r]))
      BY <1>1 DEF Safe, Recorded
<1> QED BY <1>1, <1>2, OutputsApart

\* No step of a review loses the file it is about.
LEMMA ReviewSafe ==
    ASSUME Typed, Safe, NamesApart, NEW r \in Reviewers, Review(r)
    PROVE  Safe'
<1> USE DEF diskVars, rowVars, recordVars, workVars
<1>1. UNCHANGED <<path, wpc, wjob, wout, wsrc, owner, output, bytes>>
      BY DEF Review, Move, Drop, Remove, Mark, Conclude
<1>2. CASE Mark(r) \/ Conclude(r)
  <2>1. UNCHANGED <<lib, held, discarded>> BY <1>2 DEF Mark, Conclude
  <2>2. \A o \in Originals : record'[o] # "unborn" => record[o] # "unborn"
    <3>1. CASE Conclude(r) BY <3>1 DEF Conclude
    <3>2. CASE Mark(r)
          BY <3>2, ReviewedRecord DEF Mark, Typed, TypeOK
    <3> QED BY <1>2, <3>1, <3>2
  <2> QED BY <1>1, <2>1, <2>2, SafeLeft
<1>3. CASE Drop(r)
  <2>1. \A m \in Films \cup Sources : lib'[m] = lib[m]
        BY <1>3, ReviewedSafe, NamesAssumption DEF Drop, Typed, TypeOK
  <2>2. UNCHANGED <<held, discarded, record>> BY <1>3 DEF Drop
  <2> QED BY <1>1, <2>1, <2>2, SafeLeft
<1>4. ASSUME UNCHANGED <<lib, held, discarded, record>> PROVE Safe'
      BY <1>1, <1>4, SafeLeft
<1> DEFINE n == Path(rrec[r])
<1>5. CASE Move(r)
  <2>1. n \in Sources /\ n \in Names
        BY <1>5, ReviewedSafe, NamesAssumption DEF Move
  <2>2. UNCHANGED <<discarded, record>> BY <1>5 DEF Move
  <2>3. CASE UNCHANGED <<lib, held>> BY <2>2, <2>3, <1>4
  <2>4. CASE /\ held[n] # NoFile
             /\ lib' = [lib EXCEPT ![n] = held[n]]
             /\ held' = [held EXCEPT ![n] = NoFile]
    <3> HIDE DEF n
    <3>1. /\ held[n] = Original(n) /\ lib'[n] = Original(n)
          /\ held'[n] = NoFile
          /\ \A m \in Names \ {n} : lib'[m] = lib[m]
          /\ \A m \in Sources \ {n} : held'[m] = held[m]
          BY <2>1, <2>4 DEF Safe, Places, Typed, TypeOK
    <3>2. lib'[n] # NoFile BY <3>1, <2>4
    <3>3. Places' BY <3>1, NamesAssumption DEF Safe, Places, Original
    <3>4. Kept' BY <2>1, <2>2, <3>1, NamesAssumption
          DEF Safe, Kept, Original
    <3>5. AtWork'
      <4>1. \A m \in Names : lib[m] # NoFile => lib'[m] # NoFile
            BY <3>1, <3>2
      <4>2. \A w \in Workers : /\ On(w)' = On(w)
                               /\ wpc[w] \in Before => On(w) \in Names
            BY <1>1, NamesAssumption DEF On, Typed, Shape, Before
      <4> QED BY <1>1, <4>1, <4>2 DEF Safe, AtWork, Original, InPlace, Outs
    <3>6. Recorded' BY <1>1, <2>2 DEF Safe, Recorded, Path
    <3> QED BY <3>3, <3>4, <3>5, <3>6 DEF Safe
  <2> QED BY <1>5, <2>3, <2>4 DEF Move
<1>6. CASE Remove(r)
  <2>1. n \in Sources /\ bytes[rrec[r]] = Original(n)
        BY <1>6, ReviewedSafe DEF Remove
  <2>2. UNCHANGED <<lib, record>> BY <1>6 DEF Remove
  <2>3. CASE UNCHANGED <<held, discarded>> BY <2>2, <2>3, <1>4
  <2>4. CASE /\ held' = [held EXCEPT ![n] = NoFile]
             /\ discarded' = discarded \cup {bytes[rrec[r]]}
    <3> HIDE DEF n
    <3>1. /\ held'[n] = NoFile
          /\ \A m \in Sources \ {n} : held'[m] = held[m]
          /\ discarded' = discarded \cup {Original(n)}
          BY <2>1, <2>4 DEF Typed, TypeOK
    <3>2. Places' BY <2>2, <3>1 DEF Safe, Places, Original
    <3>3. Kept' BY <2>2, <3>1 DEF Safe, Kept, Original
    <3>4. AtWork' /\ Recorded'
          BY <1>1, <2>2
          DEF Safe, AtWork, Recorded, On, Path, InPlace, Outs
    <3> QED BY <3>2, <3>3, <3>4 DEF Safe
  <2> QED BY <1>6, <2>3, <2>4 DEF Remove
<1> QED BY <1>2, <1>3, <1>5, <1>6 DEF Review

\* Every step keeps what is safe, unless two workers contend for a name.
LEMMA SafeStep ==
    ASSUME NamesApart, AloneInPlace, Typed, Safe, [Next]_vars
    PROVE  Safe'
<1> USE DEF diskVars, rowVars, recordVars, workVars
<1>1. CASE UNCHANGED vars BY <1>1, SafeLeft DEF vars
<1>2. CASE \E w \in Workers : Work(w)
      BY <1>2, ClaimSafe, EncodeSafe, ChooseSafe, PlaceSafe, HoldSafe,
         RecordSafe, StageSafe DEF Work
<1>3. CASE \/ \E u \in Users : Ask(u)
           \/ Expire \/ Sweep
  <2>1. UNCHANGED <<lib, held, discarded, path, record, owner, output, bytes,
                    wpc, wjob, wout, wsrc>>
        BY <1>3 DEF Ask, Expire, Sweep, List, TakeNext
  <2> QED BY <2>1, SafeLeft
<1>4. CASE ClearRecords \/ ClearRows
  <2>1. UNCHANGED <<lib, held, discarded, path, owner, output, bytes,
                    wpc, wjob, wout, wsrc>>
        BY <1>4 DEF ClearRecords, ClearRows
  <2>2. \A o \in Originals : record'[o] # "unborn" => record[o] # "unborn"
        BY <1>4 DEF ClearRecords, ClearRows
  <2> QED BY <2>1, <2>2, SafeLeft
<1>5. CASE Crash
  <2>1. /\ UNCHANGED <<lib, held, discarded, path, record, owner, output,
                       bytes>>
        /\ \A w \in Workers : wpc'[w] = "idle"
        BY <1>5 DEF Crash
  <2> QED BY <2>1, SafeLeft
<1> QED BY <1>1, <1>2, <1>3, <1>4, <1>5, EnqueueSafe, ReviewSafe DEF Next

\* What is typed and safe stays so in every behaviour.
LEMMA SafeAlways ==
    NamesApart /\ Uncontested /\ Spec => [](Typed /\ Safe)
<1>1. Init => Typed /\ Safe BY TypedStart, SafeStart
<1>2. ASSUME NamesApart, Uncontested
      PROVE  Typed /\ Safe /\ [Next]_vars => (Typed /\ Safe)'
  <2>1. Typed => AloneInPlace
        BY <1>2
        DEF Uncontested, AloneInPlace, SingleWorker, Typed, Shape, On, Before
  <2> QED BY <1>2, <2>1, TypedStep, SafeStep
<1>3. CASE NamesApart /\ Uncontested BY <1>1, <1>2, <1>3, PTL DEF Spec
<1>4. CASE ~(NamesApart /\ Uncontested) BY <1>4
<1> QED BY <1>3, <1>4

\* A worker that is alone at its film has it before it until it moves it.
Facing == \A w \in Workers : wpc[w] \in Before => lib[On(w)] # NoFile

\* Nobody is at work at the start.
LEMMA FacingStart == Init => Facing
BY DEF Init, Facing, Before

\* Nobody else takes the film from under a worker.
LEMMA FacingStep ==
    ASSUME NamesApart, Alone, Typed, Safe, Facing, [Next]_vars
    PROVE  Facing'
<1> USE DEF diskVars, rowVars, recordVars, workVars
<1>1. \A w \in Workers : wpc[w] \in Before =>
          /\ On(w) \in Sources /\ On(w) \in Names
          /\ wjob[w] \in Jobs /\ status[wjob[w]] # "unborn"
      BY WorkersOutput, NamesAssumption DEF Before
<1>2. ASSUME \A n \in Sources : lib[n] # NoFile => lib'[n] # NoFile,
             \A j \in Jobs : status[j] # "unborn" => path'[j] = path[j],
             \A w \in Workers : wpc'[w] \in Before =>
                 wpc[w] \in Before /\ wjob'[w] = wjob[w]
      PROVE  Facing'
  <2>1. \A w \in Workers : wpc'[w] \in Before => On(w)' = On(w)
        BY <1>1, <1>2 DEF On
  <2> QED BY <1>1, <1>2, <2>1 DEF Facing
<1>3. CASE UNCHANGED vars BY <1>2, <1>3 DEF vars
<1>4. ASSUME NEW n \in Sources, Enqueue(n) PROVE Facing'
  <2>1. \A j \in Jobs : status[j] # "unborn" => path'[j] = path[j]
        BY <1>4 DEF Enqueue, Typed, TypeOK
  <2> QED BY <1>2, <1>4, <2>1 DEF Enqueue
<1>5. ASSUME NEW w \in Workers, Claim(w) PROVE Facing'
  <2>1. PICK j \in Jobs :
            \/ UNCHANGED <<wpc, wjob>>
            \/ /\ lib[path[j]] # NoFile
               /\ wpc' = [wpc EXCEPT ![w] = "encode"]
               /\ wjob' = [wjob EXCEPT ![w] = j]
        BY <1>5 DEF Claim, Advance
  <2>2. UNCHANGED <<lib, path>> BY <1>5 DEF Claim
  <2> QED BY <2>1, <2>2 DEF Facing, On, Typed, TypeOK
<1>6. ASSUME NEW w \in Workers,
             Encode(w) \/ Choose(w) \/ Place(w) \/ Record(w) \/ Stage(w)
      PROVE  Facing'
  <2>1. \A v \in Workers : wpc'[v] \in Before =>
            wpc[v] \in Before /\ wjob'[v] = wjob[v]
        BY <1>6 DEF Encode, Choose, Place, Record, Stage, Advance, GiveUp,
                    Leave, Before, Typed, TypeOK
  <2>2. \A n \in Sources : lib'[n] = lib[n]
    <3>1. CASE Place(w)
          BY <3>1, WorkersOutput, NamesAssumption
          DEF Place, Named, Typed, TypeOK
    <3> QED BY <1>6, <3>1 DEF Encode, Choose, Record, Stage
  <2>3. path' = path
        BY <1>6 DEF Encode, Choose, Place, Record, Stage
  <2> QED BY <1>2, <2>1, <2>2, <2>3
<1>7. ASSUME NEW w \in Workers, Hold(w) PROVE Facing'
  <2> SUFFICES ASSUME NEW v \in Workers, wpc'[v] \in Before
               PROVE  lib'[On(v)'] # NoFile
      BY DEF Facing
  <2>1. path' = path /\ wpc[w] = "hold" BY <1>7 DEF Hold
  <2>2. wpc[v] \in Before /\ wjob'[v] = wjob[v] /\ v # w
        BY <1>7 DEF Hold, Advance, GiveUp, Leave, Before, Typed, TypeOK
  <2>3. On(v)' = On(v) /\ On(v) # On(w)
        BY <2>1, <2>2 DEF On, Alone, Before
  <2>4. wout[w] \notin Sources /\ path[wjob[w]] = On(w)
        BY <2>1, WorkersOutput DEF Named
  <2>5. lib'[On(v)] = lib[On(v)]
        BY <1>1, <1>7, <2>2, <2>3, <2>4 DEF Hold, Typed, TypeOK
  <2> QED BY <2>2, <2>3, <2>5 DEF Facing
<1>8. ASSUME NEW r \in Reviewers, Review(r) PROVE Facing'
  <2>1. UNCHANGED <<path, wpc, wjob>>
        BY <1>8 DEF Review, Move, Drop, Remove, Mark, Conclude
  <2>2. \A n \in Sources : lib[n] # NoFile => lib'[n] # NoFile
    <3>1. CASE Move(r)
          BY <3>1, ReviewedSafe, NamesAssumption DEF Move, Typed, TypeOK
    <3>2. CASE Drop(r)
          BY <3>2, ReviewedSafe, NamesAssumption DEF Drop, Typed, TypeOK
    <3> QED BY <1>8, <3>1, <3>2 DEF Review, Remove, Mark, Conclude
  <2> QED BY <1>2, <2>1, <2>2
<1>9. CASE \/ \E u \in Users : Ask(u)
           \/ Expire \/ Sweep \/ ClearRecords
      BY <1>2, <1>9 DEF Ask, Expire, Sweep, List, TakeNext, ClearRecords
<1>10. CASE ClearRows BY <1>2, <1>10 DEF ClearRows
<1>11. CASE Crash BY <1>11 DEF Crash, Facing, Before
<1> QED BY <1>3, <1>4, <1>5, <1>6, <1>7, <1>8, <1>9, <1>10, <1>11
        DEF Next, Work

\* In a safe state every film is somewhere.
LEMMA SafeKeeps == Safe => OriginalSurvives
BY NamesAssumption DEF Safe, Kept, OriginalSurvives, OnDisk, Original

\* In a safe state a record tells where its film is.
LEMMA SafeTells == Typed /\ Safe => RecordTellsWhere
<1> SUFFICES ASSUME Typed, Safe, NEW o \in Originals, record[o] = "active"
             PROVE  \/ held[Path(o)] = bytes[o] \/ lib[Path(o)] = bytes[o]
                    \/ bytes[o] \in discarded
    BY DEF RecordTellsWhere
<1>1. bytes[o] = Original(Path(o)) /\ bytes[o] \in Content
      BY DEF Safe, Recorded, Typed, TypeOK
<1>2. Path(o) \in Films BY <1>1 DEF Original, Content
<1> QED BY <1>1, <1>2 DEF Safe, Kept

\* With outputs that keep off the films' names, and one worker or no film
\* whose own name is an output, no crash, failed step, race of requests or
\* cleared history costs an original.
THEOREM OriginalsSurvive ==
    NamesApart /\ Uncontested /\ Spec => []OriginalSurvives
BY SafeKeeps, SafeAlways, PTL

\* Under the same conditions an active record tells where the bytes are.
THEOREM RecordsTellWhere ==
    NamesApart /\ Uncontested /\ Spec => []RecordTellsWhere
BY SafeTells, SafeAlways, PTL
=============================================================================
