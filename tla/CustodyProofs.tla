---------------------------- MODULE CustodyProofs ----------------------------
(* That Staging implements Custody: with any number of workers and requests *)
(* while the process does not die and nobody clears the history, when rows, *)
(* records and files stay in step; and with one worker whatever happens, by *)
(* counting the copies of a film against those who rely on one.             *)
EXTENDS StagingProofs

Undisturbed == MaxCrashes = 0 /\ ~MayClear

\* No two films share an output name.
OutputsDiffer ==
    \A m, n \in Sources : m # n => Outs(m) \cap Outs(n) = {}

Copy(f) == [film |-> f, kind |-> "encoded"]

Born(j) == status[j] # "unborn"

Latest(j) == \A k \in Jobs : Born(k) /\ path[k] = path[j] => k <= j

Unowned(j) == \A o \in Originals : record[o] # "unborn" => owner[o] # j

Early == Before \cup {"record"}

-----------------------------------------------------------------------------
(* The rows. *)

\* One row per film is open, the latest, and it has no record yet.
Rows ==
    /\ \A i, j \in Jobs : i < j /\ Born(j) => Born(i)
    /\ \A j \in Jobs : status[j] # "cleared"
    /\ \A j \in Jobs : status[j] = "pending" => Latest(j) /\ Unowned(j)
    /\ \A w \in Workers : wpc[w] # "idle" => status[wjob[w]] # "pending"
    /\ \A v, w \in Workers :
          wpc[v] # "idle" /\ wpc[w] # "idle" /\ wjob[v] = wjob[w] => v = w
    /\ \A w \in Workers : wpc[w] \in Early =>
          /\ status[wjob[w]] = "running"
          /\ Latest(wjob[w]) /\ Unowned(wjob[w])
    /\ \A o, p \in Originals :
          record[o] # "unborn" /\ record[p] # "unborn" /\ owner[o] = owner[p]
          => o = p

\* The latest row of a name is the one that decides.
LEMMA LatestDecides ==
    ASSUME Typed, Rows, NEW j \in Jobs, Born(j), Latest(j)
    PROVE  LatestStatus(path[j]) = status[j]
<1> DEFINE rows == {k \in Jobs : HasRow(k) /\ path[k] = path[j]}
<1>1. /\ j \in rows
      /\ \A k \in rows : k \in Nat /\ k <= j
      BY JobsAssumption DEF Rows, HasRow, Born, Latest
<1>2. ASSUME NEW i \in rows, \A k \in rows : k <= i PROVE i = j
  <2>1. i <= j /\ j <= i BY <1>1, <1>2
  <2>2. i \in Nat /\ j \in Nat BY <1>1
  <2> QED BY <2>1, <2>2
<1>3. (CHOOSE i \in rows : \A k \in rows : k <= i) = j
  <2> HIDE DEF rows
  <2> QED BY <1>1, <1>2
<1> QED BY <1>1, <1>3 DEF LatestStatus

\* Two latest rows of one name are one row.
LEMMA LatestUnique ==
    ASSUME NEW i \in Jobs, NEW j \in Jobs, Born(i), Born(j),
           Latest(i), Latest(j), path[i] = path[j]
    PROVE  i = j
BY JobsAssumption DEF Latest

\* Two workers before the move of one film would have one row.
LEMMA RowsAlone == ASSUME Typed, Rows PROVE Alone
<1> SUFFICES ASSUME NEW v \in Workers, NEW w \in Workers,
                    wpc[v] \in Before, wpc[w] \in Before, On(v) = On(w)
             PROVE  v = w
    BY DEF Alone
<1>1. /\ wjob[v] \in Jobs /\ Born(wjob[v]) /\ Latest(wjob[v])
      /\ wjob[w] \in Jobs /\ Born(wjob[w]) /\ Latest(wjob[w])
      BY DEF Typed, Shape, Rows, Born, Before, Early
<1>2. wjob[v] = wjob[w] BY <1>1, LatestUnique DEF On
<1> QED BY <1>2 DEF Rows, Before

\* A step that takes no row, makes none and writes no record.
LEMMA RowsFrame ==
    ASSUME Typed, Rows, path' = path,
           \A j \in Jobs : /\ Born(j)' <=> Born(j)
                           /\ status'[j] # "cleared"
                           /\ status'[j] = "pending" => status[j] = "pending",
           \A w \in Workers : wpc'[w] # "idle" =>
               /\ wpc[w] # "idle" /\ wjob'[w] = wjob[w]
               /\ wpc'[w] \in Early => /\ wpc[w] \in Early
                                       /\ status'[wjob[w]] = "running",
           \A o \in Originals : record'[o] # "unborn" =>
               record[o] # "unborn" /\ owner'[o] = owner[o]
    PROVE  Rows'
<1>1. \A j \in Jobs : Latest(j)' <=> Latest(j) BY DEF Latest
<1>2. \A j \in Jobs : Unowned(j) => Unowned(j)' BY DEF Unowned
<1>3. \A i, j \in Jobs : i < j /\ Born(j)' => Born(i)' BY DEF Rows
<1>4. \A j \in Jobs : /\ status'[j] # "cleared"
                      /\ status'[j] = "pending" => Latest(j)' /\ Unowned(j)'
      BY <1>1, <1>2 DEF Rows
<1>5. \A w \in Workers : wpc'[w] # "idle" =>
          wjob[w] \in Jobs /\ status[wjob[w]] # "pending"
      BY DEF Rows, Typed, Shape
<1>6. \A w \in Workers : wpc'[w] # "idle" => status'[wjob'[w]] # "pending"
      BY <1>5
<1>7. \A w \in Workers : wpc'[w] \in Early =>
          /\ status'[wjob'[w]] = "running"
          /\ (Latest(wjob[w]) /\ Unowned(wjob[w]))'
  <2> SUFFICES ASSUME NEW w \in Workers, wpc'[w] \in Early
               PROVE  /\ status'[wjob'[w]] = "running"
                      /\ (Latest(wjob[w]) /\ Unowned(wjob[w]))'
      BY DEF Early, Before
  <2>1. /\ wjob'[w] = wjob[w] /\ wjob[w] \in Jobs
        /\ wpc[w] \in Early /\ status'[wjob[w]] = "running"
        BY <1>5 DEF Early, Before
  <2>2. Latest(wjob[w]) /\ Unowned(wjob[w]) BY <2>1 DEF Rows
  <2>3. PICK j \in Jobs : j = wjob[w] BY <2>1
  <2>4. Latest(j)' /\ Unowned(j)' BY <1>1, <1>2, <2>2, <2>3
  <2> QED BY <2>1, <2>3, <2>4 DEF Latest, Unowned
<1>8. \A v, w \in Workers :
          wpc'[v] # "idle" /\ wpc'[w] # "idle" /\ wjob'[v] = wjob'[w] => v = w
      BY DEF Rows
<1>9. \A o, p \in Originals :
          /\ record'[o] # "unborn" /\ record'[p] # "unborn"
          /\ owner'[o] = owner'[p]
          => o = p
      BY DEF Rows
<1> QED BY <1>3, <1>4, <1>6, <1>7, <1>8, <1>9 DEF Rows, Early, Before

\* No row is anyone's at the start.
LEMMA RowsStart == Init => Rows
BY DEF Init, Rows, Born, Early, Before

Lives == {"running", "staged", "done"}

\* A new row comes after all others, and only where none is open or alive.
LEMMA EnqueueNew ==
    ASSUME Typed, Rows, NEW n \in Sources, Enqueue(n)
    PROVE  \E j \in Jobs :
               /\ status' = [status EXCEPT ![j] = "pending"]
               /\ path' = [path EXCEPT ![j] = n]
               /\ ~Born(j) /\ \A k \in Jobs : k < j => Born(k)
               /\ \A k \in Jobs : Born(k) => k <= j /\ k # j
               /\ \A k \in Jobs :
                     /\ Born(k) /\ Latest(k)
                     /\ status[k] \in Lives \cup {"pending"}
                     => path[k] # n /\ Latest(k)'
<1>1. PICK j \in Jobs : /\ status[j] = "unborn"
                        /\ \A k \in Jobs : k < j => status[k] # "unborn"
                        /\ status' = [status EXCEPT ![j] = "pending"]
                        /\ path' = [path EXCEPT ![j] = n]
      BY DEF Enqueue
<1>2. ASSUME NEW k \in Jobs, Born(k) PROVE k <= j /\ k # j
  <2>1. k \in Nat /\ j \in Nat BY JobsAssumption
  <2>2. k # j BY <1>1, <1>2 DEF Born
  <2>3. ~(j < k) BY <1>1, <1>2 DEF Rows, Born
  <2> QED BY <2>1, <2>2, <2>3
<1>3. ASSUME NEW k \in Jobs, Born(k), Latest(k),
             status[k] \in Lives \cup {"pending"}
      PROVE  path[k] # n /\ Latest(k)'
  <2>1. LatestStatus(n) \in {"none", "failed", "restored"} BY DEF Enqueue
  <2>2. path[k] # n BY <2>1, <1>3, LatestDecides DEF Lives
  <2>3. k # j BY <1>2, <1>3
  <2>4. \A i \in Jobs \ {j} : status'[i] = status[i] /\ path'[i] = path[i]
        BY <1>1 DEF Typed, TypeOK
  <2>5. path'[j] = n BY <1>1 DEF Typed, TypeOK
  <2> QED BY <1>3, <2>2, <2>3, <2>4, <2>5 DEF Latest, Born
<1> QED BY <1>1, <1>2, <1>3 DEF Born

\* A new row is nobody's, and the only live one of its film.
LEMMA EnqueueRows == ASSUME Typed, Rows, NEW n \in Sources, Enqueue(n)
                     PROVE  Rows'
<1>1. PICK j \in Jobs :
          /\ status' = [status EXCEPT ![j] = "pending"]
          /\ path' = [path EXCEPT ![j] = n]
          /\ ~Born(j) /\ \A k \in Jobs : k < j => Born(k)
          /\ \A k \in Jobs : Born(k) => k <= j /\ k # j
          /\ \A k \in Jobs : /\ Born(k) /\ Latest(k)
                             /\ status[k] \in Lives \cup {"pending"}
                             => path[k] # n /\ Latest(k)'
      BY EnqueueNew
<1>2. UNCHANGED <<wpc, wjob, record, owner>>
      BY DEF Enqueue, workVars, recordVars
<1>3. /\ status'[j] = "pending" /\ Born(j)'
      /\ \A k \in Jobs \ {j} : /\ status'[k] = status[k]
                               /\ Born(k)' <=> Born(k)
      BY <1>1 DEF Typed, TypeOK, Born
<1>4. \A i, k \in Jobs : i < k /\ Born(k)' => Born(i)'
      BY <1>1, <1>3 DEF Rows
<1>5. \A k \in Jobs : status'[k] # "cleared" BY <1>3 DEF Rows
<1>6. Unowned(j)'
      BY <1>1, <1>2 DEF Unowned, Typed, Shape, Born
<1>7. Latest(j)'
  <2>1. j <= j BY JobsAssumption
  <2> QED BY <1>1, <1>3, <2>1 DEF Latest
<1>8. ASSUME NEW k \in Jobs, status'[k] = "pending"
      PROVE  Latest(k)' /\ Unowned(k)'
  <2>1. CASE k = j BY <2>1, <1>6, <1>7
  <2>2. CASE k # j
    <3>1. status[k] = "pending" /\ Born(k) BY <2>2, <1>3, <1>8 DEF Born
    <3>2. Latest(k) /\ Unowned(k) BY <3>1 DEF Rows
    <3> QED BY <1>1, <1>2, <3>1, <3>2 DEF Unowned
  <2> QED BY <2>1, <2>2
<1>9. \A w \in Workers : wpc'[w] # "idle" => status'[wjob'[w]] # "pending"
      BY <1>1, <1>2, <1>3 DEF Rows, Typed, Shape, Born
<1>10. ASSUME NEW w \in Workers, wpc'[w] \in Early
       PROVE  /\ status'[wjob'[w]] = "running"
              /\ (Latest(wjob[w]) /\ Unowned(wjob[w]))'
  <2>1. /\ wjob[w] \in Jobs /\ Born(wjob[w]) /\ status[wjob[w]] = "running"
        /\ Latest(wjob[w]) /\ Unowned(wjob[w]) /\ wjob'[w] = wjob[w]
        BY <1>2, <1>10 DEF Rows, Typed, Shape, Early, Before, Born
  <2>2. PICK k \in Jobs : k = wjob[w] BY <2>1
  <2>3. Latest(k)' /\ Unowned(k)'
        BY <1>1, <1>2, <2>1, <2>2 DEF Lives, Unowned
  <2>4. status'[k] = "running" BY <1>1, <1>3, <2>1, <2>2
  <2> QED BY <2>1, <2>2, <2>3, <2>4 DEF Latest, Unowned
<1>11. /\ \A v, w \in Workers :
              wpc'[v] # "idle" /\ wpc'[w] # "idle" /\ wjob'[v] = wjob'[w]
              => v = w
       /\ \A o, p \in Originals :
              /\ record'[o] # "unborn" /\ record'[p] # "unborn"
              /\ owner'[o] = owner'[p]
              => o = p
       BY <1>2 DEF Rows
<1> QED BY <1>4, <1>5, <1>8, <1>9, <1>10, <1>11 DEF Rows, Early, Before

\* The worker that claims a row is its only owner.
LEMMA ClaimRows == ASSUME Typed, Rows, NEW w \in Workers, Claim(w)
                   PROVE  Rows'
<1>1. PICK j \in Jobs :
          /\ status[j] = "pending"
          /\ IF lib[path[j]] = NoFile
             THEN SetStatus(j, "skipped") /\ UNCHANGED <<wpc, wjob>>
             ELSE /\ SetStatus(j, "running")
                  /\ wpc' = [wpc EXCEPT ![w] = "encode"]
                  /\ wjob' = [wjob EXCEPT ![w] = j]
      BY DEF Claim, Advance
<1>2. UNCHANGED <<path, record, owner>> BY DEF Claim, recordVars
<1>3. Latest(j) /\ Unowned(j) /\ Born(j) /\ HasRow(j)
      BY <1>1 DEF Rows, Born, HasRow
<1>4. \A v \in Workers : wpc[v] # "idle" =>
          /\ wjob[v] \in Jobs /\ wjob[v] # j
          /\ wpc[v] \in Early => status[wjob[v]] = "running"
      BY <1>1 DEF Rows, Typed, Shape
<1>5. CASE /\ SetStatus(j, "skipped") /\ UNCHANGED <<wpc, wjob>>
  <2>1. /\ status'[j] = "skipped"
        /\ \A k \in Jobs \ {j} : status'[k] = status[k]
        BY <1>3, <1>5 DEF SetStatus, Typed, TypeOK
  <2>2. \A k \in Jobs : /\ Born(k)' <=> Born(k)
                        /\ status'[k] # "cleared"
                        /\ status'[k] = "pending" => status[k] = "pending"
        BY <1>3, <2>1 DEF Born, Rows
  <2>3. \A v \in Workers : wpc'[v] # "idle" =>
            /\ wpc[v] # "idle" /\ wjob'[v] = wjob[v]
            /\ wpc'[v] \in Early => /\ wpc[v] \in Early
                                    /\ status'[wjob[v]] = "running"
        BY <1>4, <1>5, <2>1
  <2> QED BY <1>2, <2>2, <2>3, RowsFrame
<1>6. CASE /\ SetStatus(j, "running")
           /\ wpc' = [wpc EXCEPT ![w] = "encode"]
           /\ wjob' = [wjob EXCEPT ![w] = j]
  <2>1. /\ status'[j] = "running" /\ wpc'[w] = "encode" /\ wjob'[w] = j
        /\ \A k \in Jobs \ {j} : status'[k] = status[k]
        /\ \A v \in Workers \ {w} : wpc'[v] = wpc[v] /\ wjob'[v] = wjob[v]
        BY <1>3, <1>6 DEF SetStatus, Typed, TypeOK
  <2>2. \A k \in Jobs : /\ Born(k)' <=> Born(k)
                        /\ Latest(k)' <=> Latest(k)
                        /\ Unowned(k)' <=> Unowned(k)
        BY <1>2, <1>3, <2>1 DEF Born, Latest, Unowned
  <2>3. /\ \A i, k \in Jobs : i < k /\ Born(k)' => Born(i)'
        /\ \A k \in Jobs : status'[k] # "cleared"
        /\ \A k \in Jobs : status'[k] = "pending" => Latest(k)' /\ Unowned(k)'
        BY <2>1, <2>2 DEF Rows
  <2>4. /\ \A v \in Workers : wpc'[v] # "idle" => status'[wjob'[v]] # "pending"
        /\ \A u, v \in Workers :
              wpc'[u] # "idle" /\ wpc'[v] # "idle" /\ wjob'[u] = wjob'[v]
              => u = v
        BY <1>4, <2>1 DEF Rows
  <2>5. ASSUME NEW v \in Workers, wpc'[v] \in Early
        PROVE  /\ status'[wjob'[v]] = "running"
               /\ (Latest(wjob[v]) /\ Unowned(wjob[v]))'
    <3>1. PICK k \in Jobs : /\ k = wjob'[v] /\ status'[k] = "running"
                            /\ Latest(k) /\ Unowned(k)
      <4>1. CASE v = w BY <4>1, <2>1, <1>3
      <4>2. CASE v # w
            BY <4>2, <2>1, <2>5, <1>4 DEF Rows, Early, Before
      <4> QED BY <4>1, <4>2
    <3>2. Latest(k)' /\ Unowned(k)' BY <3>1, <2>2
    <3> QED BY <3>1, <3>2 DEF Latest, Unowned
  <2>6. \A o, p \in Originals :
            /\ record'[o] # "unborn" /\ record'[p] # "unborn"
            /\ owner'[o] = owner'[p]
            => o = p
        BY <1>2 DEF Rows
  <2> QED BY <2>3, <2>4, <2>5, <2>6 DEF Rows, Early, Before
<1> QED BY <1>1, <1>5, <1>6

\* What the steps of a worker between claim and record, and its last one, do
\* to rows and workers: it goes on, or it ends its job.
Goes(w) ==
    /\ wpc[w] \in Before
    /\ \E s \in {"name", "place", "hold", "record"} :
          wpc' = [wpc EXCEPT ![w] = s]
    /\ UNCHANGED <<status, wjob>>

Ends(w) ==
    /\ Leave(w)
    /\ \A k \in Jobs : Born(k)' <=> Born(k)
    /\ \A k \in Jobs \ {wjob[w]} : status'[k] = status[k]
    /\ \/ /\ wpc[w] \in Before
          /\ status'[wjob[w]] \in {status[wjob[w]], "failed", "excluded"}
       \/ /\ wpc[w] = "stage"
          /\ status'[wjob[w]] \in {status[wjob[w]], "staged"}

\* What a step of a working job changes of its worker and its row.
LEMMA WorkShape ==
    ASSUME Typed, NEW w \in Workers,
           Encode(w) \/ Choose(w) \/ Place(w) \/ Hold(w) \/ Stage(w)
    PROVE  /\ wjob[w] \in Jobs /\ Born(wjob[w])
           /\ UNCHANGED <<path, record, owner, output, rpc, rrec>>
           /\ Goes(w) \/ Ends(w)
<1> USE DEF rowVars, recordVars, reviewVars
<1>1. wpc[w] \in Before \/ wpc[w] = "stage"
      BY DEF Encode, Choose, Place, Hold, Stage, Before
<1>2. wjob[w] \in Jobs /\ Born(wjob[w])
      BY <1>1 DEF Typed, Shape, Before, Born
<1>3. UNCHANGED <<path, record, owner, output, rpc, rrec>>
      BY DEF Encode, Choose, Place, Hold, Stage
<1>4. CASE Stage(w)
  <2>1. Leave(w) /\ SetStatus(wjob[w], "staged") /\ wpc[w] = "stage"
        BY <1>4 DEF Stage
  <2>2. "staged" \in Statuses \ {"unborn"} BY DEF Statuses, Terminal
  <2>3. /\ \A k \in Jobs : Born(k)' <=> Born(k)
        /\ \A k \in Jobs \ {wjob[w]} : status'[k] = status[k]
        /\ status'[wjob[w]] \in {status[wjob[w]], "staged"}
        BY <1>2, <2>1, <2>2, StatusSet DEF Typed, Born
  <2> QED BY <1>2, <1>3, <2>1, <2>3 DEF Ends
<1>5. CASE GiveUp(w) /\ wpc[w] \in Before
  <2>1. Ends(w) BY <1>2, <1>5, GivenUp DEF Ends, Typed, Born
  <2> QED BY <1>2, <1>3, <2>1
<1>6. CASE ~Stage(w) /\ ~GiveUp(w)
  <2>1. Goes(w) BY <1>6 DEF Encode, Choose, Place, Hold, Advance, Goes, Before
  <2> QED BY <1>2, <1>3, <2>1
<1> QED BY <1>4, <1>5, <1>6, <1>1 DEF Encode, Choose, Place, Hold, Before

\* A working job stays the only owner of its row.
LEMMA WorkRows ==
    ASSUME Typed, Rows, NEW w \in Workers,
           Encode(w) \/ Choose(w) \/ Place(w) \/ Hold(w) \/ Stage(w)
    PROVE  Rows'
<1>1. /\ wjob[w] \in Jobs /\ Born(wjob[w])
      /\ UNCHANGED <<path, record, owner>>
      /\ Goes(w) \/ Ends(w)
      BY WorkShape
<1>2. \A v \in Workers :
          /\ wpc[v] # "idle" /\ v # w /\ wpc[w] # "idle" => wjob[v] # wjob[w]
          /\ wpc[v] \in Early => status[wjob[v]] = "running"
          /\ wpc[v] # "idle" => wjob[v] \in Jobs
      BY DEF Rows, Typed, Shape
<1>3. CASE Goes(w)
  <2>1. \A k \in Jobs : /\ Born(k)' <=> Born(k)
                        /\ status'[k] # "cleared"
                        /\ status'[k] = "pending" => status[k] = "pending"
        BY <1>3 DEF Goes, Rows, Born
  <2>2. \A v \in Workers : wpc'[v] # "idle" =>
            /\ wpc[v] # "idle" /\ wjob'[v] = wjob[v]
            /\ wpc'[v] \in Early => wpc[v] \in Early
        BY <1>3 DEF Goes, Typed, TypeOK, Before, Early
  <2>3. \A v \in Workers : wpc'[v] # "idle" =>
            /\ wpc[v] # "idle" /\ wjob'[v] = wjob[v]
            /\ wpc'[v] \in Early => /\ wpc[v] \in Early
                                    /\ status'[wjob[v]] = "running"
        BY <1>2, <1>3, <2>2 DEF Goes
  <2> QED BY <1>1, <2>1, <2>3, RowsFrame
<1>4. CASE Ends(w)
  <2>1. \A k \in Jobs : /\ Born(k)' <=> Born(k)
                        /\ status'[k] # "cleared"
                        /\ status'[k] = "pending" => status[k] = "pending"
        BY <1>1, <1>4 DEF Ends, Rows
  <2>2. /\ wpc'[w] = "idle" /\ wpc[w] # "idle"
        /\ \A v \in Workers \ {w} : wpc'[v] = wpc[v] /\ wjob'[v] = wjob[v]
        BY <1>4 DEF Ends, Leave, Typed, TypeOK, Before
  <2>3. \A v \in Workers : wpc'[v] # "idle" =>
            /\ wpc[v] # "idle" /\ wjob'[v] = wjob[v]
            /\ wpc'[v] \in Early => /\ wpc[v] \in Early
                                    /\ status'[wjob[v]] = "running"
        BY <1>2, <1>4, <2>2 DEF Ends, Early, Before
  <2> QED BY <1>1, <2>1, <2>3, RowsFrame
<1> QED BY <1>1, <1>3, <1>4

\* Recording keeps rows and workers matched.
LEMMA RecordRows == ASSUME Typed, Rows, NEW w \in Workers, Record(w)
                    PROVE  Rows'
<1>1. /\ wpc[w] = "record" /\ wpc' = [wpc EXCEPT ![w] = "stage"]
      /\ UNCHANGED <<status, path, wjob>>
      BY DEF Record, Advance, rowVars
<1>2. /\ wjob[w] \in Jobs /\ Born(wjob[w]) /\ Unowned(wjob[w])
      /\ status[wjob[w]] = "running"
      BY <1>1 DEF Rows, Typed, Shape, Early, Born
<1>3. CASE UNCHANGED <<record, owner>>
  <2>1. \A v \in Workers : wpc'[v] # "idle" =>
            /\ wpc[v] # "idle" /\ wjob'[v] = wjob[v]
            /\ wpc'[v] \in Early => wpc[v] \in Early
        BY <1>1 DEF Typed, TypeOK, Early, Before
  <2>2. \A v \in Workers : wpc'[v] # "idle" =>
            /\ wpc[v] # "idle" /\ wjob'[v] = wjob[v]
            /\ wpc'[v] \in Early => /\ wpc[v] \in Early
                                    /\ status'[wjob[v]] = "running"
        BY <1>1, <2>1 DEF Rows
  <2>3. \A k \in Jobs : status[k] # "cleared" BY DEF Rows
  <2> QED BY <1>1, <1>3, <2>2, <2>3, RowsFrame DEF Born
<1>4. CASE \E o \in Originals :
              /\ record[o] = "unborn"
              /\ record' = [record EXCEPT ![o] = "active"]
              /\ owner' = [owner EXCEPT ![o] = wjob[w]]
  <2>1. PICK o \in Originals :
              /\ record[o] = "unborn"
              /\ record' = [record EXCEPT ![o] = "active"]
              /\ owner' = [owner EXCEPT ![o] = wjob[w]]
        BY <1>4
  <2>2. /\ record'[o] = "active" /\ owner'[o] = wjob[w]
        /\ \A p \in Originals \ {o} :
              record'[p] = record[p] /\ owner'[p] = owner[p]
        BY <2>1 DEF Typed, TypeOK
  <2>3. \A k \in Jobs : /\ Latest(k)' <=> Latest(k)
                        /\ Unowned(k) /\ k # wjob[w] => Unowned(k)'
        BY <1>1, <2>2 DEF Latest, Born, Unowned
  <2>4. /\ \A i, k \in Jobs : i < k /\ Born(k)' => Born(i)'
        /\ \A k \in Jobs : status'[k] # "cleared"
        /\ \A k \in Jobs : status'[k] = "pending" => Latest(k)' /\ Unowned(k)'
        BY <1>1, <1>2, <2>3 DEF Rows, Born
  <2>5. \A v \in Workers :
            /\ wpc'[v] # "idle" <=> wpc[v] # "idle"
            /\ wpc'[v] \in Early => wpc[v] \in Early /\ v # w
        BY <1>1 DEF Typed, TypeOK, Early, Before
  <2>6. /\ \A v \in Workers : wpc'[v] # "idle" => status'[wjob'[v]] # "pending"
        /\ \A u, v \in Workers :
              wpc'[u] # "idle" /\ wpc'[v] # "idle" /\ wjob'[u] = wjob'[v]
              => u = v
        BY <1>1, <2>5 DEF Rows
  <2>7. ASSUME NEW v \in Workers, wpc'[v] \in Early
        PROVE  /\ status'[wjob'[v]] = "running"
               /\ (Latest(wjob[v]) /\ Unowned(wjob[v]))'
    <3>1. PICK k \in Jobs : /\ k = wjob'[v] /\ status'[k] = "running"
                            /\ Latest(k) /\ Unowned(k) /\ k # wjob[w]
          BY <1>1, <2>5, <2>7 DEF Rows, Typed, Shape, Early, Before
    <3>2. Latest(k)' /\ Unowned(k)' BY <3>1, <2>3
    <3> QED BY <3>1, <3>2 DEF Latest, Unowned
  <2>8. \A p, q \in Originals :
            /\ record'[p] # "unborn" /\ record'[q] # "unborn"
            /\ owner'[p] = owner'[q]
            => p = q
        BY <1>2, <2>2 DEF Rows, Unowned
  <2> QED BY <2>4, <2>6, <2>7, <2>8 DEF Rows, Early, Before
<1> QED BY <1>3, <1>4 DEF Record

\* A review writes statuses of rows with a record: no open row has one.
LEMMA ReviewRows == ASSUME Typed, Rows, NEW r \in Reviewers, Review(r)
                    PROVE  Rows'
<1> USE DEF rowVars, recordVars, workVars
<1>1. UNCHANGED <<path, wpc, wjob, owner>>
      BY DEF Review, Move, Drop, Remove, Mark, Conclude
<1>2. \A o \in Originals : record'[o] # "unborn" => record[o] # "unborn"
  <2>1. CASE Mark(r) BY <2>1, ReviewedRecord DEF Mark, Typed, TypeOK
  <2>2. CASE ~Mark(r)
        BY <2>2 DEF Review, Move, Drop, Remove, Conclude
  <2> QED BY <2>1, <2>2
<1>3. CASE UNCHANGED status
  <2>1. \A k \in Jobs : status[k] # "cleared" BY DEF Rows
  <2>2. \A v \in Workers : wpc[v] \in Early => status[wjob[v]] = "running"
        BY DEF Rows
  <2> QED BY <1>1, <1>2, <1>3, <2>1, <2>2, RowsFrame DEF Born
<1>4. CASE Conclude(r)
  <2>1. /\ rrec[r] \in Originals /\ record[rrec[r]] # "unborn"
        /\ owner[rrec[r]] \in Jobs
        BY <1>4, ReviewedRecord DEF Conclude
  <2>2. PICK st \in {"restored", "excluded", "done"} :
            SetStatus(owner[rrec[r]], st)
        BY <1>4 DEF Conclude
  <2>3. st \in Statuses \ {"unborn"} BY DEF Statuses, Terminal
  <2>4. /\ \A k \in Jobs : Born(k)' <=> Born(k)
        /\ \A k \in Jobs \ {owner[rrec[r]]} : status'[k] = status[k]
        /\ status'[owner[rrec[r]]] \in {status[owner[rrec[r]]], st}
        BY <2>1, <2>2, <2>3, StatusSet DEF Typed, Born
  <2>5. \A v \in Workers : wpc[v] \in Early => status'[wjob[v]] = "running"
        BY <2>1, <2>4 DEF Rows, Unowned, Typed, Shape, Early, Before
  <2>6. \A k \in Jobs : /\ status'[k] # "cleared"
                        /\ status'[k] = "pending" => status[k] = "pending"
        BY <2>4 DEF Rows
  <2> QED BY <1>1, <1>2, <2>4, <2>5, <2>6, RowsFrame
<1> QED BY <1>3, <1>4 DEF Review, Move, Drop, Remove, Mark

\* Nothing crashes where MaxCrashes is zero.
LEMMA NoCrash == ASSUME Undisturbed, Typed PROVE ~Crash
<1>1. crashes \in 0 .. 0 BY DEF Undisturbed, Typed, TypeOK
<1> QED BY <1>1 DEF Crash, Undisturbed

\* No user clears the history where MayClear is false.
LEMMA NothingCleared ==
    ASSUME Undisturbed, ~clearing
    PROVE  ~ClearRecords /\ ~ClearRows
BY DEF Undisturbed, ClearRecords, ClearRows

\* No clearing is ever under way.
LEMMA ClearingNever ==
    ASSUME Undisturbed, Typed, ~clearing, [Next]_vars
    PROVE  ~clearing'
<1> USE DEF restVars
<1>1. CASE UNCHANGED vars BY <1>1 DEF vars
<1>2. CASE \E w \in Workers : Work(w)
      BY <1>2 DEF Work, Claim, Encode, Choose, Place, Hold, Record, Stage
<1>3. CASE \E r \in Reviewers : Review(r)
      BY <1>3 DEF Review, Move, Drop, Remove, Mark, Conclude
<1>4. CASE \/ \E u \in Users : Ask(u)
           \/ \E n \in Sources : Enqueue(n)
           \/ Expire \/ Sweep
      BY <1>4 DEF Ask, Enqueue, Expire, Sweep, List, TakeNext
<1> QED BY <1>1, <1>2, <1>3, <1>4, NoCrash, NothingCleared DEF Next

\* Every step keeps rows, workers and reviews matched.
LEMMA RowsStep ==
    ASSUME Undisturbed, Typed, Rows, ~clearing, [Next]_vars
    PROVE  Rows'
<1> USE DEF diskVars, rowVars, recordVars, workVars
<1>1. CASE UNCHANGED <<status, path, record, owner, wpc, wjob>>
  <2>1. \A k \in Jobs : status[k] # "cleared" BY DEF Rows
  <2>2. \A v \in Workers : wpc[v] \in Early => status[wjob[v]] = "running"
        BY DEF Rows
  <2> QED BY <1>1, <2>1, <2>2, RowsFrame DEF Born
<1>2. CASE UNCHANGED vars BY <1>1, <1>2 DEF vars
<1>3. CASE \E w \in Workers : Work(w)
      BY <1>3, ClaimRows, WorkRows, RecordRows DEF Work
<1>4. CASE \/ \E u \in Users : Ask(u)
           \/ Expire \/ Sweep
      BY <1>4, <1>1 DEF Ask, Expire, Sweep, List, TakeNext
<1>5. ~ClearRecords /\ ~ClearRows BY NothingCleared
<1>6. ~Crash BY NoCrash
<1> QED BY <1>2, <1>3, <1>4, <1>5, <1>6, EnqueueRows, ReviewRows DEF Next

-----------------------------------------------------------------------------
(* The records. *)

Undoing == {"drop", "markRestored", "restored"}

Undone(r) == rpc[r] \in Undoing

\* The latest row of n is past the move of the film, or running and there.
Rested(n) ==
    /\ \E j \in Jobs : path[j] = n /\ status[j] \in Lives /\ Latest(j)
    /\ \A w \in Workers : wpc[w] \in Before => On(w) # n

\* What is held, recorded as held, or being restored belongs to the latest
\* row of its film, which keeps the film from being enqueued again; and one
\* request at most is past the move back.
Recs ==
    /\ \A n \in Sources : held[n] # NoFile => Rested(n)
    /\ \A o \in Originals : record[o] = "active" =>
          Latest(owner[o]) /\ status[owner[o]] \in Lives
    /\ \A r \in Reviewers :
          rpc[r] \in {"restored", "done"} => record[rrec[r]] # "active"
    /\ \A r \in Reviewers : Undone(r) =>
          /\ Rested(Path(rrec[r])) /\ held[Path(rrec[r])] = NoFile
          /\ rpc[r] = "drop" => lib[Path(rrec[r])] # NoFile
    /\ \A r, s \in Reviewers :
          Undone(r) /\ Undone(s) /\ Path(rrec[r]) = Path(rrec[s]) => r = s

\* There are no records at the start.
LEMMA RecsStart == Init => Recs
BY DEF Init, Recs, Undone, Undoing

\* A row stops being alive only when nothing depends on it any more.
LEMMA RecsFrame ==
    ASSUME Typed, Recs, path' = path, owner' = owner,
           \A j \in Jobs : Born(j)' <=> Born(j),
           \A j \in Jobs : status[j] \in Lives =>
               \/ status'[j] \in Lives
               \/ /\ \A o \in Originals : record'[o] = "active" => owner[o] # j
                  /\ held'[path[j]] = NoFile
                  /\ \A r \in Reviewers :
                        rpc'[r] \in Undoing => Path(rrec[r]) # path[j],
           \A w \in Workers : wpc'[w] \in Before =>
               \/ wpc[w] \in Before /\ wjob'[w] = wjob[w]
               \/ ~Rested(path[wjob'[w]]),
           \A n \in Sources : /\ held'[n] # NoFile => held[n] # NoFile
                              /\ lib[n] # NoFile => lib'[n] # NoFile,
           \A o \in Originals : record'[o] = "active" => record[o] = "active",
           \A r \in Reviewers :
               /\ rpc'[r] \in Undoing =>
                     /\ Undone(r) /\ rrec'[r] = rrec[r]
                     /\ rpc'[r] = "drop" => rpc[r] = "drop"
               /\ rpc'[r] \in {"restored", "done"} =>
                     record'[rrec'[r]] # "active"
    PROVE  Recs'
<1>1. \A j \in Jobs : Latest(j)' <=> Latest(j) BY DEF Latest
<1>2. ASSUME NEW n \in Sources, Rested(n),
             \/ held'[n] # NoFile
             \/ \E r \in Reviewers : rpc'[r] \in Undoing /\ Path(rrec[r]) = n
      PROVE  Rested(n)'
  <2>1. PICK j \in Jobs : path[j] = n /\ status[j] \in Lives /\ Latest(j)
        BY <1>2 DEF Rested
  <2>2. status'[j] \in Lives BY <1>2, <2>1
  <2>3. Latest(j)' BY <1>1, <2>1
  <2>4. \A w \in Workers : wpc'[w] \in Before => On(w)' # n
        BY <1>2 DEF Rested, On
  <2> QED BY <2>1, <2>2, <2>3, <2>4 DEF Rested
<1>3. \A n \in Sources : held'[n] # NoFile => Rested(n)'
      BY <1>2 DEF Recs
<1>4. ASSUME NEW o \in Originals, record'[o] = "active"
      PROVE  Latest(owner[o])' /\ status'[owner'[o]] \in Lives
  <2>1. PICK j \in Jobs : j = owner[o] BY <1>4 DEF Typed, TypeOK
  <2>2. Latest(j) /\ status[j] \in Lives BY <1>4, <2>1 DEF Recs
  <2>3. Latest(j)' /\ status'[j] \in Lives BY <1>1, <1>4, <2>1, <2>2
  <2> QED BY <2>1, <2>3 DEF Latest
<1>5. ASSUME NEW r \in Reviewers, rpc'[r] \in Undoing
      PROVE  /\ Rested(Path(rrec[r]))' /\ held'[Path(rrec[r])'] = NoFile
             /\ rpc'[r] = "drop" => lib'[Path(rrec[r])'] # NoFile
             /\ Path(rrec[r])' = Path(rrec[r])
  <2>1. /\ Undone(r) /\ rrec'[r] = rrec[r]
        /\ rpc'[r] = "drop" => rpc[r] = "drop"
        BY <1>5
  <2>2. PICK n \in Sources : n = Path(rrec[r])
        BY <2>1, ReviewedRecord DEF Undone, Undoing
  <2>3. Path(rrec[r])' = n BY <2>1, <2>2 DEF Path
  <2>4. /\ Rested(n) /\ held[n] = NoFile
        /\ rpc'[r] = "drop" => lib[n] # NoFile
        BY <2>1, <2>2 DEF Recs
  <2>5. Rested(n)' BY <1>2, <1>5, <2>2, <2>4
  <2> QED BY <2>2, <2>3, <2>4, <2>5 DEF Rested
<1>6. \A r, s \in Reviewers :
          (Undone(r) /\ Undone(s) /\ Path(rrec[r]) = Path(rrec[s]))' => r = s
      BY <1>5 DEF Recs, Undone
<1> QED BY <1>3, <1>4, <1>5, <1>6 DEF Recs, Undone

\* A new row has no record.
LEMMA EnqueueRecs ==
    ASSUME Typed, Rows, Recs, NEW n \in Sources, Enqueue(n)
    PROVE  Recs'
<1>1. PICK j \in Jobs :
          /\ status' = [status EXCEPT ![j] = "pending"]
          /\ path' = [path EXCEPT ![j] = n]
          /\ ~Born(j)
          /\ \A k \in Jobs : Born(k) => k <= j /\ k # j
          /\ \A k \in Jobs : /\ Born(k) /\ Latest(k)
                             /\ status[k] \in Lives \cup {"pending"}
                             => path[k] # n /\ Latest(k)'
      BY EnqueueNew
<1>2. UNCHANGED <<lib, held, wpc, wjob, record, owner, rpc, rrec>>
      BY DEF Enqueue, diskVars, workVars, recordVars, reviewVars
<1>3. \A k \in Jobs : Born(k) => status'[k] = status[k] /\ path'[k] = path[k]
      BY <1>1 DEF Typed, TypeOK
<1>4. \A k \in Jobs : status[k] \in Lives => Born(k) BY DEF Lives, Born
<1>5. ASSUME NEW m \in Sources, Rested(m) PROVE Rested(m)'
  <2>1. PICK k \in Jobs : path[k] = m /\ status[k] \in Lives /\ Latest(k)
        BY <1>5 DEF Rested
  <2>2. path'[k] = m /\ status'[k] \in Lives /\ Latest(k)'
        BY <1>1, <1>3, <1>4, <2>1
  <2>3. \A w \in Workers : wpc'[w] \in Before => On(w)' = On(w)
        BY <1>2, <1>3 DEF Typed, Shape, Before, On, Born
  <2>4. \A w \in Workers : wpc'[w] \in Before => On(w)' # m
        BY <1>2, <1>5, <2>3 DEF Rested
  <2> QED BY <2>2, <2>4 DEF Rested
<1>6. \A r \in Reviewers : rpc[r] # "idle" =>
          /\ Path(rrec[r])' = Path(rrec[r]) /\ Path(rrec[r]) \in Sources
          /\ rrec[r] \in Originals
  <2> SUFFICES ASSUME NEW r \in Reviewers, rpc[r] # "idle"
               PROVE  /\ Path(rrec[r])' = Path(rrec[r])
                      /\ Path(rrec[r]) \in Sources
                      /\ rrec[r] \in Originals
      OBVIOUS
  <2>1. /\ rrec[r] \in Originals /\ record[rrec[r]] # "unborn"
        /\ owner[rrec[r]] \in Jobs /\ Path(rrec[r]) \in Sources
        BY ReviewedRecord
  <2>2. Born(owner[rrec[r]]) BY <2>1 DEF Typed, Shape, Born
  <2> QED BY <1>2, <1>3, <2>1, <2>2 DEF Path
<1>7. \A m \in Sources : held'[m] # NoFile => Rested(m)'
      BY <1>2, <1>5 DEF Recs
<1>8. ASSUME NEW o \in Originals, record'[o] = "active"
      PROVE  Latest(owner[o])' /\ status'[owner'[o]] \in Lives
  <2>1. PICK k \in Jobs : k = owner[o] BY <1>2, <1>8 DEF Typed, TypeOK
  <2>2. Latest(k) /\ status[k] \in Lives BY <1>2, <1>8, <2>1 DEF Recs
  <2>3. Latest(k)' /\ status'[k] \in Lives BY <1>1, <1>3, <1>4, <2>2
  <2> QED BY <1>2, <2>1, <2>3 DEF Latest
<1>9. \A r \in Reviewers :
          rpc'[r] \in {"restored", "done"} => record'[rrec'[r]] # "active"
      BY <1>2 DEF Recs
<1>10. ASSUME NEW r \in Reviewers, Undone(r)'
       PROVE  /\ Rested(Path(rrec[r]))' /\ held'[Path(rrec[r])'] = NoFile
              /\ rpc'[r] = "drop" => lib'[Path(rrec[r])'] # NoFile
              /\ Undone(r) /\ Path(rrec[r])' = Path(rrec[r])
  <2>1. Undone(r) BY <1>2, <1>10 DEF Undone
  <2>2. PICK m \in Sources : m = Path(rrec[r]) /\ Path(rrec[r])' = m
        BY <1>6, <2>1 DEF Undone, Undoing
  <2>3. /\ Rested(m) /\ held[m] = NoFile
        /\ rpc[r] = "drop" => lib[m] # NoFile
        BY <2>1, <2>2 DEF Recs
  <2>4. Rested(m)' BY <1>5, <2>3
  <2> QED BY <1>2, <2>1, <2>2, <2>3, <2>4 DEF Rested
<1>11. \A r, s \in Reviewers :
           (Undone(r) /\ Undone(s) /\ Path(rrec[r]) = Path(rrec[s]))' => r = s
       BY <1>10 DEF Recs
<1> QED BY <1>7, <1>8, <1>9, <1>10, <1>11 DEF Recs

\* A claimed row has no record of this attempt yet.
LEMMA ClaimRecs ==
    ASSUME Typed, Rows, Recs, NEW w \in Workers, Claim(w)
    PROVE  Recs'
<1> USE DEF diskVars, reviewVars, recordVars
<1>1. PICK j \in Jobs :
          /\ status[j] = "pending"
          /\ \/ SetStatus(j, "skipped") /\ UNCHANGED <<wpc, wjob>>
             \/ /\ SetStatus(j, "running")
                /\ wpc' = [wpc EXCEPT ![w] = "encode"]
                /\ wjob' = [wjob EXCEPT ![w] = j]
      BY DEF Claim, Advance
<1>2. UNCHANGED <<lib, held, path, record, owner, rpc, rrec>>
      BY DEF Claim
<1>3. ~Rested(path[j])
  <2>1. Latest(j) /\ Born(j) BY <1>1 DEF Rows, Born
  <2>2. ASSUME NEW k \in Jobs, path[k] = path[j], status[k] \in Lives, Latest(k)
        PROVE  FALSE
    <3>1. Born(k) BY <2>2 DEF Lives, Born
    <3>2. k = j BY <2>1, <2>2, <3>1, LatestUnique
    <3> QED BY <1>1, <2>2, <3>2 DEF Lives
  <2> QED BY <2>2 DEF Rested
<1>4. \A k \in Jobs : /\ Born(k)' <=> Born(k)
                      /\ status[k] \in Lives => status'[k] \in Lives
  <2>1. \A k \in Jobs \ {j} : status'[k] = status[k]
        BY <1>1 DEF SetStatus, Typed, TypeOK
  <2>2. status'[j] \in {"pending", "skipped", "running"}
        BY <1>1 DEF SetStatus, Typed, TypeOK
  <2> QED BY <1>1, <2>1, <2>2 DEF Born, Lives
<1>5. \A v \in Workers : wpc'[v] \in Before =>
          \/ wpc[v] \in Before /\ wjob'[v] = wjob[v]
          \/ ~Rested(path[wjob'[v]])
  <2> SUFFICES ASSUME NEW v \in Workers, wpc'[v] \in Before
               PROVE  \/ wpc[v] \in Before /\ wjob'[v] = wjob[v]
                      \/ ~Rested(path[wjob'[v]])
      OBVIOUS
  <2>1. CASE wpc'[v] = wpc[v] /\ wjob'[v] = wjob[v] BY <2>1
  <2>2. CASE wjob'[v] = j BY <2>2, <1>3
  <2> QED BY <1>1, <2>1, <2>2 DEF Typed, TypeOK
<1>6. \A r \in Reviewers :
          /\ rpc'[r] \in Undoing => Undone(r)
          /\ rpc'[r] \in {"restored", "done"} => record'[rrec'[r]] # "active"
      BY <1>2 DEF Recs, Undone
<1> QED BY <1>2, <1>4, <1>5, <1>6, RecsFrame

\* The steps of a worker that move no original.
LEMMA WorkRecs ==
    ASSUME Typed, Rows, Recs, NEW w \in Workers,
           Encode(w) \/ Choose(w) \/ Place(w) \/ Hold(w) \/ Stage(w),
           held' = held,
           \A n \in Sources : lib[n] # NoFile => lib'[n] # NoFile
    PROVE  Recs'
<1>1. /\ wjob[w] \in Jobs /\ Born(wjob[w])
      /\ UNCHANGED <<path, record, owner, rpc, rrec>>
      /\ Goes(w) \/ Ends(w)
      BY WorkShape
<1>2. \A k \in Jobs : Born(k)' <=> Born(k)
      BY <1>1 DEF Goes, Ends, Born
<1>3. \A v \in Workers : wpc'[v] \in Before =>
          wpc[v] \in Before /\ wjob'[v] = wjob[v]
      BY <1>1 DEF Goes, Ends, Leave, Typed, TypeOK, Before
<1>4. ASSUME NEW j \in Jobs, status[j] \in Lives, status'[j] \notin Lives
      PROVE  /\ \A o \in Originals : record'[o] = "active" => owner[o] # j
             /\ held'[path[j]] = NoFile
             /\ \A r \in Reviewers :
                   rpc'[r] \in Undoing => Path(rrec[r]) # path[j]
  <2>1. wpc[w] \in Before /\ j = wjob[w] /\ path[j] = On(w)
        BY <1>1, <1>4 DEF Goes, Ends, Lives, On
  <2>2. Unowned(j) BY <2>1 DEF Rows, Early
  <2>3. ~Rested(On(w)) BY <2>1 DEF Rested
  <2>4. On(w) \in Sources BY <2>1 DEF Typed, Shape, Before, On
  <2>5. held[On(w)] = NoFile BY <2>3, <2>4 DEF Recs
  <2>6. \A r \in Reviewers : Undone(r) => Path(rrec[r]) # On(w)
        BY <2>3 DEF Recs
  <2> QED BY <1>1, <2>1, <2>2, <2>5, <2>6 DEF Unowned, Undone
<1>5. \A r \in Reviewers :
          /\ rpc'[r] \in Undoing => Undone(r)
          /\ rpc'[r] \in {"restored", "done"} => record'[rrec'[r]] # "active"
      BY <1>1 DEF Recs, Undone
<1> QED BY <1>1, <1>2, <1>3, <1>4, <1>5, RecsFrame

\* The move of an original: its row is the latest and running, and nobody
\* else has the film before him.
LEMMA HoldRecs ==
    ASSUME NamesApart, Typed, Safe, Rows, Recs, NEW w \in Workers, Hold(w)
    PROVE  Recs'
<1> DEFINE n == path[wjob[w]]
<1>1. /\ wjob[w] \in Jobs /\ Born(wjob[w])
      /\ UNCHANGED <<path, record, owner, rpc, rrec>>
      BY WorkShape
<1>2. /\ wpc[w] = "hold" /\ wout[w] \notin Films \cup Sources /\ n = On(w)
      /\ n \in Sources /\ n \in Names
      BY WorkersOutput, NamesAssumption DEF Hold, Named
<1>3. CASE held' = held
  <2>1. \A m \in Sources : lib[m] # NoFile => lib'[m] # NoFile
    <3>1. CASE lib' = [lib EXCEPT ![wout[w]] = NoFile]
          BY <1>2, <3>1, NamesAssumption DEF Typed, TypeOK
    <3>2. CASE /\ lib[n] # NoFile
               /\ held' = [held EXCEPT ![n] = lib[n]]
      <4>1. held'[n] = lib[n] BY <1>2, <3>2 DEF Typed, TypeOK
      <4>2. held[n] # NoFile BY <1>3, <3>2, <4>1
      <4> QED BY <1>2, <3>2, <4>2 DEF Safe, Places
    <3> QED BY <3>1, <3>2 DEF Hold
  <2> QED BY <1>3, <2>1, WorkRecs
<1>4. CASE /\ lib[n] # NoFile
           /\ held' = [held EXCEPT ![n] = lib[n]]
           /\ lib' = [lib EXCEPT ![n] = NoFile]
           /\ wpc' = [wpc EXCEPT ![w] = "record"]
           /\ UNCHANGED <<status, wjob>>
  <2> HIDE DEF n
  <2>1. /\ \A m \in Names \ {n} : lib'[m] = lib[m]
        /\ \A m \in Sources \ {n} : held'[m] = held[m]
        /\ wpc'[w] = "record"
        /\ \A v \in Workers \ {w} : wpc'[v] = wpc[v]
        BY <1>4 DEF Typed, TypeOK
  <2>2. /\ \A j \in Jobs : Latest(j)' <=> Latest(j)
        /\ \A v \in Workers : On(v)' = On(v)
        BY <1>1, <1>4 DEF Latest, Born, On
  <2>3. \A m \in Sources : Rested(m) => Rested(m)' /\ m # n
    <3> SUFFICES ASSUME NEW m \in Sources, Rested(m)
                 PROVE  Rested(m)' /\ m # n
        OBVIOUS
    <3>1. m # n BY <1>2 DEF Rested, Before
    <3>2. PICK j \in Jobs : path[j] = m /\ status[j] \in Lives /\ Latest(j)
          BY DEF Rested
    <3>3. path'[j] = m /\ status'[j] \in Lives /\ Latest(j)'
          BY <1>1, <1>4, <2>2, <3>2
    <3>4. \A v \in Workers : wpc'[v] \in Before => wpc[v] \in Before
          BY <2>1 DEF Before
    <3>5. \A v \in Workers : wpc'[v] \in Before => On(v)' # m
          BY <2>2, <3>4 DEF Rested
    <3> QED BY <3>1, <3>3, <3>5 DEF Rested
  <2>4. ASSUME NEW f \in Sources, f = n PROVE Rested(f)'
    <3>1. PICK j \in Jobs : j = wjob[w] /\ path[j] = f
          BY <1>1, <1>2, <2>4 DEF On
    <3>2. status[j] = "running" /\ Latest(j)
          BY <1>2, <3>1 DEF Rows, Early, Before
    <3>3. path'[j] = f /\ status'[j] \in Lives /\ Latest(j)'
          BY <1>1, <1>4, <2>2, <3>1, <3>2 DEF Lives
    <3>4. \A v \in Workers : wpc'[v] \in Before => On(v)' # f
      <4>1. Alone BY RowsAlone
      <4>2. \A v \in Workers : wpc'[v] \in Before =>
                v # w /\ wpc[v] \in Before /\ On(v)' = On(v)
            BY <2>1, <2>2 DEF Before
      <4> QED BY <1>2, <2>4, <4>1, <4>2 DEF Alone, Before
    <3> QED BY <3>3, <3>4 DEF Rested
  <2>5. \A m \in Sources : held'[m] # NoFile => Rested(m)'
        BY <2>1, <2>3, <2>4 DEF Recs
  <2>6. ASSUME NEW o \in Originals, record'[o] = "active"
        PROVE  Latest(owner[o])' /\ status'[owner'[o]] \in Lives
    <3>1. PICK k \in Jobs : k = owner[o] BY <1>1, <2>6 DEF Typed, TypeOK
    <3>2. Latest(k) /\ status[k] \in Lives BY <1>1, <2>6, <3>1 DEF Recs
    <3>3. Latest(k)' /\ status'[k] \in Lives BY <1>4, <2>2, <3>2
    <3> QED BY <1>1, <3>1, <3>3 DEF Latest
  <2>7. \A r \in Reviewers :
            rpc'[r] \in {"restored", "done"} => record'[rrec'[r]] # "active"
        BY <1>1 DEF Recs
  <2>8. ASSUME NEW r \in Reviewers, Undone(r)'
        PROVE  /\ Rested(Path(rrec[r]))' /\ held'[Path(rrec[r])'] = NoFile
               /\ rpc'[r] = "drop" => lib'[Path(rrec[r])'] # NoFile
               /\ Undone(r) /\ Path(rrec[r])' = Path(rrec[r])
    <3>1. Undone(r) /\ Path(rrec[r])' = Path(rrec[r])
          BY <1>1, <2>8 DEF Undone, Path
    <3>2. PICK m \in Sources : m = Path(rrec[r])
          BY <3>1, ReviewedRecord DEF Undone, Undoing
    <3>3. /\ Rested(m) /\ held[m] = NoFile
          /\ rpc[r] = "drop" => lib[m] # NoFile
          BY <3>1, <3>2 DEF Recs
    <3>4. Rested(m)' /\ m # n /\ m \in Names BY <2>3, <3>3, NamesAssumption
    <3> QED BY <1>1, <2>1, <3>1, <3>2, <3>3, <3>4
  <2>9. \A r, s \in Reviewers :
            (Undone(r) /\ Undone(s) /\ Path(rrec[r]) = Path(rrec[s]))'
            => r = s
        BY <2>8 DEF Recs
  <2> QED BY <2>5, <2>6, <2>7, <2>8, <2>9 DEF Recs
<1> QED BY <1>3, <1>4 DEF Hold, Advance, rowVars

\* The new record is the only unresolved one of its row.
LEMMA RecordRecs ==
    ASSUME Typed, Rows, Recs, NEW w \in Workers, Record(w)
    PROVE  Recs'
<1> USE DEF diskVars, rowVars, reviewVars
<1>1. /\ wpc[w] = "record" /\ wpc' = [wpc EXCEPT ![w] = "stage"]
      /\ UNCHANGED <<lib, held, status, path, wjob, rpc, rrec>>
      BY DEF Record, Advance
<1>2. \A v \in Workers : wpc'[v] \in Before => wpc[v] \in Before
      BY <1>1 DEF Typed, TypeOK, Before
<1>3. CASE UNCHANGED <<record, owner>>
  <2>1. \A r \in Reviewers :
            /\ rpc'[r] \in Undoing => Undone(r)
            /\ rpc'[r] \in {"restored", "done"} => record'[rrec'[r]] # "active"
        BY <1>1, <1>3 DEF Recs, Undone
  <2> QED BY <1>1, <1>2, <1>3, <2>1, RecsFrame DEF Born
<1>4. CASE \E o \in Originals :
              /\ record[o] = "unborn"
              /\ record' = [record EXCEPT ![o] = "active"]
              /\ owner' = [owner EXCEPT ![o] = wjob[w]]
  <2>1. PICK o \in Originals :
              /\ record[o] = "unborn"
              /\ record' = [record EXCEPT ![o] = "active"]
              /\ owner' = [owner EXCEPT ![o] = wjob[w]]
        BY <1>4
  <2>2. /\ record'[o] = "active" /\ owner'[o] = wjob[w]
        /\ \A p \in Originals \ {o} :
              record'[p] = record[p] /\ owner'[p] = owner[p]
        BY <2>1 DEF Typed, TypeOK
  <2>3. /\ wjob[w] \in Jobs /\ Latest(wjob[w])
        /\ status[wjob[w]] = "running"
        BY <1>1 DEF Rows, Typed, Shape, Early
  <2>4. \A j \in Jobs : Latest(j)' <=> Latest(j)
        BY <1>1 DEF Latest, Born
  <2>5. \A m \in Sources : Rested(m) => Rested(m)'
    <3> SUFFICES ASSUME NEW m \in Sources, Rested(m) PROVE Rested(m)'
        OBVIOUS
    <3>1. PICK j \in Jobs : path[j] = m /\ status[j] \in Lives /\ Latest(j)
          BY DEF Rested
    <3>2. path'[j] = m /\ status'[j] \in Lives /\ Latest(j)'
          BY <1>1, <2>4, <3>1
    <3>3. \A v \in Workers : wpc'[v] \in Before => On(v)' # m
          BY <1>1, <1>2 DEF Rested, On
    <3> QED BY <3>2, <3>3 DEF Rested
  <2>6. \A m \in Sources : held'[m] # NoFile => Rested(m)'
        BY <1>1, <2>5 DEF Recs
  <2>7. ASSUME NEW p \in Originals, record'[p] = "active"
        PROVE  Latest(owner[p])' /\ status'[owner'[p]] \in Lives
    <3>1. PICK k \in Jobs : /\ k = owner'[p]
                            /\ Latest(k) /\ status[k] \in Lives
      <4>1. CASE p = o BY <2>2, <2>3, <4>1 DEF Lives
      <4>2. CASE p # o BY <2>2, <2>7, <4>2 DEF Recs, Typed, TypeOK
      <4> QED BY <4>1, <4>2
    <3>2. Latest(k)' /\ status'[k] \in Lives BY <1>1, <2>4, <3>1
    <3> QED BY <3>1, <3>2 DEF Latest
  <2>8. \A r \in Reviewers : rpc[r] # "idle" =>
            rrec[r] \in Originals /\ rrec[r] # o
        BY <2>1, ReviewedRecord
  <2>9. \A r \in Reviewers :
            rpc'[r] \in {"restored", "done"} => record'[rrec'[r]] # "active"
        BY <1>1, <2>2, <2>8 DEF Recs
  <2>10. ASSUME NEW r \in Reviewers, Undone(r)'
         PROVE  /\ Rested(Path(rrec[r]))' /\ held'[Path(rrec[r])'] = NoFile
                /\ rpc'[r] = "drop" => lib'[Path(rrec[r])'] # NoFile
                /\ Undone(r) /\ Path(rrec[r])' = Path(rrec[r])
    <3>1. Undone(r) BY <1>1, <2>10 DEF Undone
    <3>2. Path(rrec[r])' = Path(rrec[r])
          BY <1>1, <2>2, <2>8, <3>1 DEF Path, Undone, Undoing
    <3>3. PICK m \in Sources : m = Path(rrec[r])
          BY <3>1, ReviewedRecord DEF Undone, Undoing
    <3>4. /\ Rested(m) /\ held[m] = NoFile
          /\ rpc[r] = "drop" => lib[m] # NoFile
          BY <3>1, <3>3 DEF Recs
    <3>5. Rested(m)' BY <2>5, <3>4
    <3> QED BY <1>1, <3>1, <3>2, <3>3, <3>4, <3>5 DEF Rested
  <2>11. \A r, s \in Reviewers :
             (Undone(r) /\ Undone(s) /\ Path(rrec[r]) = Path(rrec[s]))'
             => r = s
         BY <2>10 DEF Recs
  <2> QED BY <2>6, <2>7, <2>9, <2>10, <2>11 DEF Recs
<1> QED BY <1>3, <1>4 DEF Record

\* The move back of a film nobody else is moving back.
LEMMA MoveRecs ==
    ASSUME NamesApart, Typed, Safe, Rows, Recs, NEW r \in Reviewers, Move(r)
    PROVE  Recs'
<1> USE DEF rowVars, recordVars, workVars
<1> DEFINE n == Path(rrec[r])
<1>1. /\ rpc[r] = "move" /\ UNCHANGED <<status, path, record, owner, wpc, wjob>>
      BY DEF Move
<1>2. n \in Sources /\ n \in Names
      BY ReviewedSafe, NamesAssumption DEF Move
<1>3. CASE End(r) /\ UNCHANGED <<lib, held>>
  <2>1. \A s \in Reviewers : rpc'[s] # "idle" =>
            rpc'[s] = rpc[s] /\ rrec'[s] = rrec[s]
        BY <1>3 DEF End, Typed, TypeOK
  <2>2. \A s \in Reviewers :
            /\ rpc'[s] \in Undoing =>
                  /\ Undone(s) /\ rrec'[s] = rrec[s]
                  /\ rpc'[s] = "drop" => rpc[s] = "drop"
            /\ rpc'[s] \in {"restored", "done"} => record'[rrec'[s]] # "active"
        BY <1>1, <2>1 DEF Recs, Undone, Undoing
  <2> QED BY <1>1, <1>3, <2>2, RecsFrame DEF Born
<1>4. CASE /\ held[n] # NoFile
           /\ lib' = [lib EXCEPT ![n] = held[n]]
           /\ held' = [held EXCEPT ![n] = NoFile]
           /\ Step(r, "drop") /\ UNCHANGED rrec
  <2> HIDE DEF n
  <2>1. /\ lib'[n] # NoFile /\ held'[n] = NoFile
        /\ \A m \in Names \ {n} : lib'[m] = lib[m]
        /\ \A m \in Sources \ {n} : held'[m] = held[m]
        BY <1>2, <1>4 DEF Typed, TypeOK
  <2>2. /\ rpc'[r] = "drop"
        /\ \A s \in Reviewers \ {r} : rpc'[s] = rpc[s]
        BY <1>4 DEF Step, Typed, TypeOK
  <2>3. /\ \A j \in Jobs : Latest(j)' <=> Latest(j)
        /\ \A m : Rested(m)' <=> Rested(m)
        /\ \A s \in Reviewers : Path(rrec[s])' = Path(rrec[s])
        BY <1>1, <1>4 DEF Latest, Born, Rested, On, Path
  <2>4. \A m \in Sources : held'[m] # NoFile => Rested(m)'
        BY <2>1, <2>3 DEF Recs
  <2>5. \A o \in Originals : record'[o] = "active" =>
            Latest(owner[o])' /\ status'[owner'[o]] \in Lives
    <3> SUFFICES ASSUME NEW o \in Originals, record'[o] = "active"
                 PROVE  Latest(owner[o])' /\ status'[owner'[o]] \in Lives
        OBVIOUS
    <3>1. Latest(owner[o]) /\ status[owner[o]] \in Lives BY <1>1 DEF Recs
    <3> QED BY <1>1, <3>1 DEF Latest, Born
  <2>6. \A s \in Reviewers :
            rpc'[s] \in {"restored", "done"} => record'[rrec'[s]] # "active"
        BY <1>1, <1>4, <2>2 DEF Recs
  <2>7. \A s \in Reviewers : Undone(s) => Path(rrec[s]) # n
        BY <1>4 DEF Recs
  <2>8. ASSUME NEW s \in Reviewers, Undone(s)'
        PROVE  /\ Rested(Path(rrec[s]))' /\ held'[Path(rrec[s])'] = NoFile
               /\ rpc'[s] = "drop" => lib'[Path(rrec[s])'] # NoFile
               /\ s # r => Undone(s)
    <3>1. CASE s = r
      <4>1. PICK f \in Sources : f = n BY <1>2
      <4>2. Path(rrec[s])' = f BY <2>3, <3>1, <4>1 DEF n
      <4>3. Rested(f) BY <1>4, <4>1 DEF Recs
      <4>4. Rested(f)' BY <2>3, <4>3
      <4> QED BY <2>1, <3>1, <4>1, <4>2, <4>4 DEF Rested
    <3>2. CASE s # r
      <4>1. Undone(s) BY <2>2, <2>8, <3>2 DEF Undone
      <4>2. PICK m \in Sources : m = Path(rrec[s]) /\ Path(rrec[s])' = m
            BY <2>3, <4>1, ReviewedRecord DEF Undone, Undoing
      <4>3. /\ Rested(m) /\ held[m] = NoFile /\ m # n /\ m \in Names
            /\ rpc[s] = "drop" => lib[m] # NoFile
            BY <2>7, <4>1, <4>2, NamesAssumption DEF Recs
      <4>4. Rested(m)' BY <2>3, <4>3
      <4> QED BY <2>1, <2>2, <3>2, <4>1, <4>2, <4>3, <4>4 DEF Rested
    <3> QED BY <3>1, <3>2
  <2>9. \A s, t \in Reviewers :
            (Undone(s) /\ Undone(t) /\ Path(rrec[s]) = Path(rrec[t]))'
            => s = t
    <3> SUFFICES ASSUME NEW s \in Reviewers, NEW t \in Reviewers,
                        Undone(s)', Undone(t)', s # t,
                        Path(rrec[s])' = Path(rrec[t])'
                 PROVE  FALSE
        OBVIOUS
    <3>1. Path(rrec[s]) = Path(rrec[t]) BY <2>3
    <3>2. n = Path(rrec[r]) BY DEF n
    <3>3. (s # r => Undone(s)) /\ (t # r => Undone(t)) BY <2>8
    <3> QED BY <2>7, <3>1, <3>2, <3>3 DEF Recs
  <2> QED BY <2>4, <2>5, <2>6, <2>8, <2>9 DEF Recs
<1> QED BY <1>3, <1>4 DEF Move

\* A review changes the one record it is about.
LEMMA ReviewRecs ==
    ASSUME NamesApart, Typed, Safe, Rows, Recs, NEW r \in Reviewers, Review(r)
    PROVE  Recs'
<1> USE DEF diskVars, rowVars, recordVars, workVars
<1>1. UNCHANGED <<path, wpc, wjob, owner>>
      BY DEF Review, Move, Drop, Remove, Mark, Conclude
<1>2. CASE Drop(r)
  <2>1. \A m \in Sources : lib'[m] = lib[m]
        BY <1>2, ReviewedSafe, NamesAssumption DEF Drop, Typed, TypeOK
  <2>2. UNCHANGED <<held, status, record, rrec>> /\ rpc[r] = "drop"
        /\ rpc' = [rpc EXCEPT ![r] = "markRestored"]
        BY <1>2 DEF Drop, Step
  <2>3. \A s \in Reviewers :
            /\ rpc'[s] \in Undoing =>
                  Undone(s) /\ (rpc'[s] = "drop" => rpc[s] = "drop")
            /\ rpc'[s] \in {"restored", "done"} => rpc'[s] = rpc[s]
        BY <2>2 DEF Typed, TypeOK, Undone, Undoing
  <2>4. \A s \in Reviewers :
            rpc'[s] \in {"restored", "done"} => record'[rrec'[s]] # "active"
        BY <2>2, <2>3 DEF Recs
  <2> QED BY <1>1, <2>1, <2>2, <2>3, <2>4, RecsFrame DEF Born
<1>3. CASE Remove(r)
  <2>1. Path(rrec[r]) \in Sources BY <1>3, ReviewedSafe DEF Remove
  <2>2. \A m \in Sources : held'[m] # NoFile => held[m] # NoFile
        BY <1>3, <2>1 DEF Remove, Typed, TypeOK
  <2>3. \A s \in Reviewers :
            /\ rpc'[s] \in Undoing => rpc'[s] = rpc[s] /\ rrec'[s] = rrec[s]
            /\ rpc'[s] \in {"restored", "done"} =>
                  rpc'[s] = rpc[s] /\ rrec'[s] = rrec[s]
        BY <1>3 DEF Remove, Step, End, Typed, TypeOK, Undoing
  <2>4. UNCHANGED <<lib, status, record>> BY <1>3 DEF Remove
  <2>5. \A s \in Reviewers :
            /\ rpc'[s] \in Undoing =>
                  /\ Undone(s) /\ rrec'[s] = rrec[s]
                  /\ rpc'[s] = "drop" => rpc[s] = "drop"
            /\ rpc'[s] \in {"restored", "done"} => record'[rrec'[s]] # "active"
        BY <2>3, <2>4 DEF Recs, Undone
  <2> QED BY <1>1, <2>2, <2>4, <2>5, RecsFrame DEF Born
<1>4. CASE Mark(r)
  <2>1. UNCHANGED <<lib, held, status, rrec>> BY <1>4 DEF Mark
  <2>2. /\ \A o \in Originals : record'[o] = "active" => record[o] = "active"
        /\ record'[rrec[r]] # "active"
        BY <1>4, ReviewedRecord DEF Mark, Typed, TypeOK
  <2>3. \A s \in Reviewers \ {r} : rpc'[s] = rpc[s]
        BY <1>4 DEF Mark, Step, Typed, TypeOK
  <2>4. \/ rpc[r] = "markRestored" /\ rpc'[r] = "restored"
        \/ rpc'[r] = "done"
        BY <1>4 DEF Mark, Step, Typed, TypeOK
  <2>5. \A s \in Reviewers : rpc[s] # "idle" => rrec[s] \in Originals
        BY ReviewedRecord
  <2>6. \A s \in Reviewers :
            /\ rpc'[s] \in Undoing =>
                  Undone(s) /\ (rpc'[s] = "drop" => rpc[s] = "drop")
            /\ rpc'[s] \in {"restored", "done"} => record'[rrec'[s]] # "active"
    <3> SUFFICES ASSUME NEW s \in Reviewers
                 PROVE  /\ rpc'[s] \in Undoing =>
                              /\ Undone(s)
                              /\ rpc'[s] = "drop" => rpc[s] = "drop"
                        /\ rpc'[s] \in {"restored", "done"} =>
                              record'[rrec'[s]] # "active"
        OBVIOUS
    <3>1. CASE s = r BY <2>1, <2>2, <2>4, <3>1 DEF Undone, Undoing
    <3>2. CASE s # r BY <2>1, <2>2, <2>3, <2>5, <3>2 DEF Undone, Recs
    <3> QED BY <3>1, <3>2
  <2> QED BY <1>1, <2>1, <2>2, <2>6, RecsFrame DEF Born
<1>5. CASE Conclude(r)
  <2> DEFINE j == owner[rrec[r]]
  <2>1. UNCHANGED <<lib, held, record>> BY <1>5 DEF Conclude
  <2>2. /\ rrec[r] \in Originals /\ record[rrec[r]] # "unborn" /\ j \in Jobs
        /\ Path(rrec[r]) \in Sources /\ path[j] = Path(rrec[r])
        BY <1>5, ReviewedRecord DEF Conclude, Path
  <2>3. record[rrec[r]] # "active" BY <1>5 DEF Conclude, Recs
  <2>4. /\ \A k \in Jobs \ {j} : status'[k] = status[k]
        /\ \A k \in Jobs : Born(k)' <=> Born(k)
        /\ \/ rpc[r] = "restored"
           \/ status'[j] \in {status[j], "done"}
    <3>1. PICK st \in {"restored", "excluded", "done"} :
              SetStatus(j, st) /\ (rpc[r] = "restored" \/ st = "done")
          BY <1>5 DEF Conclude
    <3>2. st \in Statuses \ {"unborn"} BY DEF Statuses, Terminal
    <3> QED BY <2>2, <3>1, <3>2, StatusSet DEF Typed, Born
  <2>5. /\ \A s \in Reviewers \ {r} : rpc'[s] = rpc[s] /\ rrec'[s] = rrec[s]
        /\ rpc'[r] = "idle"
        BY <1>5 DEF Conclude, End, Typed, TypeOK
  <2> HIDE DEF j
  <2>6. ASSUME NEW k \in Jobs, status[k] \in Lives, status'[k] \notin Lives
        PROVE  /\ \A o \in Originals : record'[o] = "active" => owner[o] # k
               /\ held'[path[k]] = NoFile
               /\ \A s \in Reviewers :
                     rpc'[s] \in Undoing => Path(rrec[s]) # path[k]
    <3>1. k = j /\ Undone(r) /\ j = owner[rrec[r]]
          BY <2>4, <2>6 DEF Lives, Undone, Undoing, j
    <3>2. \A o \in Originals : record'[o] = "active" => owner[o] # k
          BY <2>1, <2>2, <2>3, <3>1 DEF Rows
    <3>3. held'[path[k]] = NoFile BY <2>1, <2>2, <3>1 DEF Recs
    <3>4. \A s \in Reviewers :
              rpc'[s] \in Undoing => Path(rrec[s]) # path[k]
          BY <2>2, <2>5, <3>1 DEF Recs, Undone, Undoing
    <3> QED BY <3>2, <3>3, <3>4
  <2>7. \A s \in Reviewers :
            /\ rpc'[s] \in Undoing =>
                  /\ Undone(s) /\ rrec'[s] = rrec[s]
                  /\ rpc'[s] = "drop" => rpc[s] = "drop"
            /\ rpc'[s] \in {"restored", "done"} => record'[rrec'[s]] # "active"
        BY <2>1, <2>5 DEF Recs, Undone, Undoing
  <2> QED BY <1>1, <2>1, <2>4, <2>6, <2>7, RecsFrame
<1> QED BY <1>2, <1>3, <1>4, <1>5, MoveRecs DEF Review

\* Every step keeps the records matched with the rows.
LEMMA RecsStep ==
    ASSUME NamesApart, Undisturbed, ~clearing, Typed, Safe, Rows, Recs,
           [Next]_vars
    PROVE  Recs'
<1> USE DEF diskVars, rowVars, recordVars, workVars, reviewVars
<1>1. ASSUME UNCHANGED <<lib, held, status, path, record, owner, wpc, wjob>>,
             \A r \in Reviewers :
                 \/ rpc'[r] \in {"idle", "move", "remove"}
                 \/ rpc'[r] = rpc[r] /\ rrec'[r] = rrec[r]
      PROVE  Recs'
  <2>1. \A r \in Reviewers :
            /\ rpc'[r] \in Undoing =>
                  /\ Undone(r) /\ rrec'[r] = rrec[r]
                  /\ rpc'[r] = "drop" => rpc[r] = "drop"
            /\ rpc'[r] \in {"restored", "done"} => record'[rrec'[r]] # "active"
        BY <1>1 DEF Recs, Undone, Undoing
  <2> QED BY <1>1, <2>1, RecsFrame DEF Born
<1>2. CASE UNCHANGED vars BY <1>1, <1>2 DEF vars
<1>3. CASE \E w \in Workers : Work(w)
  <2>1. PICK w \in Workers : Work(w) BY <1>3
  <2>2. CASE Encode(w) \/ Choose(w) \/ Stage(w)
        BY <2>2, WorkRecs DEF Encode, Choose, Stage
  <2>3. CASE Place(w)
    <3>1. wout[w] \notin Films \cup Sources
          BY <2>3, WorkersOutput DEF Place, Named
    <3>2. held' = held /\ \A n \in Sources : lib'[n] = lib[n]
          BY <2>3, <3>1, NamesAssumption DEF Place, Typed, TypeOK
    <3> QED BY <2>3, <3>2, WorkRecs
  <2> QED BY <2>1, <2>2, <2>3, ClaimRecs, HoldRecs, RecordRecs DEF Work
<1>4. CASE \E u \in Users : Ask(u)
  <2>1. \A r \in Reviewers : \/ rpc'[r] \in {"idle", "move", "remove"}
                             \/ rpc'[r] = rpc[r] /\ rrec'[r] = rrec[r]
        BY <1>4 DEF Ask, Typed, TypeOK, Reviewers
  <2> QED BY <1>1, <1>4, <2>1 DEF Ask
<1>5. CASE TakeNext
  <2>1. \A r \in Reviewers : \/ rpc'[r] \in {"idle", "move", "remove"}
                             \/ rpc'[r] = rpc[r] /\ rrec'[r] = rrec[r]
        BY <1>5 DEF TakeNext, Typed, TypeOK, Reviewers
  <2> QED BY <1>1, <1>5, <2>1 DEF TakeNext
<1>6. CASE Expire \/ List
      BY <1>6, <1>1 DEF Expire, List
<1> QED BY <1>2, <1>3, <1>4, <1>5, <1>6, NoCrash, NothingCleared,
           EnqueueRecs, ReviewRecs DEF Next, Sweep

-----------------------------------------------------------------------------
(* The copies. *)

\* Encoded copies have output names of their own film; there is one while
\* the original is held, and there is one when a worker comes to move it.
Copies ==
    /\ \A n \in Sources : tmp[n] \in {NoFile, Copy(n)}
    /\ \A n \in Sources : \A x \in Outs(n) \ {n} : lib[x] \in {NoFile, Copy(n)}
    /\ \A x \in Names \ (Films \cup Sources) :
          (\A n \in Sources : x \notin Outs(n)) => lib[x] = NoFile
    /\ \A n \in Sources :
          held[n] # NoFile => \E x \in Outs(n) \ {n} : lib[x] = Copy(n)
    /\ \A w \in Workers : wpc[w] = "hold" => lib[wout[w]] = Copy(On(w))

\* Every film is its own original at the start.
LEMMA CopiesStart == Init /\ NamesApart => Copies
<1> SUFFICES ASSUME Init, NamesApart PROVE Copies OBVIOUS
<1>1. \A x \in Names : x \notin Films => lib[x] = NoFile BY DEF Init
<1>2. \A n \in Sources : \A x \in Outs(n) \ {n} : lib[x] = NoFile
      BY <1>1, OutputsApart, OutputNames
<1> QED BY <1>1, <1>2 DEF Init, Copies

\* A step that leaves all names but the films' alone.
LEMMA CopiesFrame ==
    ASSUME Typed, NamesApart, Safe, Copies,
           \A x \in Names \ (Films \cup Sources) : lib'[x] = lib[x],
           \A n \in Sources : /\ tmp'[n] \in {NoFile, Copy(n)}
                              /\ held'[n] # NoFile => held[n] # NoFile,
           \A w \in Workers : wpc'[w] = "hold" =>
               /\ wpc[w] = "hold" /\ wout'[w] = wout[w]
               /\ path'[wjob'[w]] = On(w)
    PROVE  Copies'
<1>1. \A n \in Sources : \A x \in Outs(n) \ {n} :
          x \in Names \ (Films \cup Sources) /\ lib'[x] = lib[x]
      BY OutputsApart, OutputNames
<1>2. \A w \in Workers : wpc'[w] = "hold" => lib'[wout'[w]] = Copy(On(w))'
  <2> SUFFICES ASSUME NEW w \in Workers, wpc'[w] = "hold"
               PROVE  lib'[wout'[w]] = Copy(On(w))'
      OBVIOUS
  <2>1. /\ wpc[w] = "hold" /\ wout'[w] = wout[w] /\ On(w)' = On(w)
        BY DEF On
  <2>2. lib[wout[w]] = Copy(On(w)) BY <2>1 DEF Copies
  <2>3. On(w) \in Sources /\ wout[w] \in Outs(On(w))
        BY <2>1 DEF Typed, Shape, On, Named
  <2>4. wout[w] # On(w) BY <2>1 DEF Safe, AtWork, Named
  <2> QED BY <1>1, <2>1, <2>2, <2>3, <2>4 DEF Copy
<1> QED BY <1>1, <1>2 DEF Copies, Copy

\* An output belongs to one film.
LEMMA OutputOf ==
    ASSUME OutputsDiffer, NEW m \in Sources, NEW n \in Sources,
           NEW x \in Outs(m), x \in Outs(n)
    PROVE  m = n
BY DEF OutputsDiffer

\* The renamed output takes no other film's name.
LEMMA PlaceCopies ==
    ASSUME NamesApart, OutputsDiffer, Typed, Safe, Rows, Copies,
           NEW w \in Workers, Place(w)
    PROVE  Copies'
<1> USE DEF rowVars
<1> DEFINE n == path[wjob[w]]
<1>1. /\ wpc[w] = "place" /\ wout[w] \notin Films \cup Sources /\ n = On(w)
      /\ n \in Sources /\ wout[w] \in Outs(n) /\ wout[w] \in Names
      BY WorkersOutput, OutputNames DEF Place, Named, Typed, Shape
<1>2. UNCHANGED <<held, path>> BY DEF Place
<1>3. \A v \in Workers : wpc[v] \in Named => On(v) \in Sources
      BY DEF Typed, Shape, Named, On
<1>4. CASE /\ tmp' = [tmp EXCEPT ![n] = NoFile]
           /\ lib' = lib /\ GiveUp(w)
  <2>1. \A v \in Workers : wpc'[v] = "hold" =>
            /\ wpc[v] = "hold" /\ wout'[v] = wout[v]
            /\ path'[wjob'[v]] = On(v)
        BY <1>2, <1>4 DEF GiveUp, Leave, Typed, TypeOK, On
  <2>2. \A m \in Sources : tmp'[m] \in {NoFile, Copy(m)}
        BY <1>1, <1>4 DEF Copies, Typed, TypeOK
  <2> QED BY <1>2, <1>4, <2>1, <2>2, CopiesFrame
<1>5. CASE /\ tmp[n] # NoFile
           /\ lib' = [lib EXCEPT ![wout[w]] = tmp[n]]
           /\ tmp' = [tmp EXCEPT ![n] = NoFile]
           /\ wpc' = [wpc EXCEPT ![w] = "hold"]
           /\ UNCHANGED <<wjob, wout>>
  <2> HIDE DEF n
  <2>1. /\ lib'[wout[w]] = Copy(n)
        /\ \A x \in Names \ {wout[w]} : lib'[x] = lib[x]
        /\ \A m \in Sources : tmp'[m] \in {NoFile, Copy(m)}
        BY <1>1, <1>5 DEF Copies, Typed, TypeOK
  <2>2. \A m \in Sources : \A x \in Outs(m) \ {m} :
            /\ x \in Names
            /\ lib'[x] = lib[x] \/ (m = n /\ lib'[x] = Copy(n))
        BY <1>1, <2>1, OutputOf, OutputNames
  <2>3. \A m \in Sources : \A x \in Outs(m) \ {m} :
            lib'[x] \in {NoFile, Copy(m)}
        BY <2>2 DEF Copies
  <2>4. \A x \in Names \ (Films \cup Sources) :
            (\A m \in Sources : x \notin Outs(m)) => lib'[x] = NoFile
        BY <1>1, <2>1 DEF Copies
  <2>5. \A m \in Sources :
            held'[m] # NoFile => \E x \in Outs(m) \ {m} : lib'[x] = Copy(m)
        BY <1>2, <2>2 DEF Copies
  <2>6. ASSUME NEW v \in Workers, wpc'[v] = "hold"
        PROVE  lib'[wout'[v]] = Copy(On(v))'
    <3>1. wout'[v] = wout[v] /\ On(v)' = On(v) BY <1>2, <1>5 DEF On
    <3>2. CASE v = w BY <1>1, <2>1, <3>1, <3>2 DEF Copy
    <3>3. CASE v # w
      <4>1. wpc[v] = "hold" BY <1>5, <2>6, <3>3 DEF Typed, TypeOK
      <4>2. /\ lib[wout[v]] = Copy(On(v)) /\ On(v) \in Sources
            /\ wout[v] \in Outs(On(v)) \ {On(v)}
            BY <4>1 DEF Copies, Typed, Shape, Named, On, Safe, AtWork
      <4>3. lib'[wout[v]] = Copy(On(v)) BY <2>2, <4>2
      <4> QED BY <3>1, <4>3 DEF Copy
    <3> QED BY <3>2, <3>3
  <2> QED BY <2>1, <2>3, <2>4, <2>5, <2>6 DEF Copies, Copy
<1> QED BY <1>4, <1>5 DEF Place, Advance

\* Once an output is gone there was nothing held that needed it.
LEMMA GoneCopies ==
    ASSUME NamesApart, OutputsDiffer, Typed, Safe, Copies,
           NEW n \in Sources, NEW x \in Outs(n) \ {n},
           lib' = [lib EXCEPT ![x] = NoFile], held[n] = NoFile,
           UNCHANGED <<held, tmp, path>>,
           \A w \in Workers : wpc'[w] = "hold" =>
               /\ wpc[w] = "hold" /\ wout'[w] = wout[w]
               /\ wjob'[w] = wjob[w] /\ On(w) # n
    PROVE  Copies'
<1>1. x \in Names BY OutputNames
<1>2. lib'[x] = NoFile /\ \A y \in Names \ {x} : lib'[y] = lib[y]
      BY <1>1 DEF Typed, TypeOK
<1>3. \A m \in Sources : \A y \in Outs(m) \ {m} :
          /\ y \in Names
          /\ lib'[y] = lib[y] \/ (m = n /\ lib'[y] = NoFile)
      BY <1>2, OutputOf, OutputNames
<1>4. \A m \in Sources : \A y \in Outs(m) \ {m} : lib'[y] \in {NoFile, Copy(m)}
      BY <1>3 DEF Copies
<1>5. \A y \in Names \ (Films \cup Sources) :
          (\A m \in Sources : y \notin Outs(m)) => lib'[y] = NoFile
      BY <1>2 DEF Copies
<1>6. \A m \in Sources :
          held'[m] # NoFile => \E y \in Outs(m) \ {m} : lib'[y] = Copy(m)
      BY <1>3 DEF Copies
<1>7. ASSUME NEW w \in Workers, wpc'[w] = "hold"
      PROVE  lib'[wout'[w]] = Copy(On(w))'
  <2>1. /\ wpc[w] = "hold" /\ wout'[w] = wout[w] /\ On(w)' = On(w)
        /\ On(w) # n
        BY <1>7 DEF On
  <2>2. /\ lib[wout[w]] = Copy(On(w)) /\ On(w) \in Sources
        /\ wout[w] \in Outs(On(w)) \ {On(w)}
        BY <2>1 DEF Copies, Typed, Shape, Named, On, Safe, AtWork
  <2>3. lib'[wout[w]] = Copy(On(w)) BY <1>3, <2>1, <2>2
  <2> QED BY <2>1, <2>3 DEF Copy
<1>8. \A m \in Sources : tmp'[m] \in {NoFile, Copy(m)} BY DEF Copies
<1> QED BY <1>4, <1>5, <1>6, <1>7, <1>8 DEF Copies, Copy

\* The original that is moved to staging is still one copy.
LEMMA HoldCopies ==
    ASSUME NamesApart, OutputsDiffer, Typed, Safe, Facing, Rows, Copies,
           NEW w \in Workers, Hold(w)
    PROVE  Copies'
<1> USE DEF rowVars
<1> DEFINE n == path[wjob[w]]
<1>1. /\ wpc[w] = "hold" /\ wout[w] \notin Films \cup Sources /\ n = On(w)
      /\ n \in Sources /\ wout[w] \in Outs(n) /\ wout[w] \in Names
      /\ lib[n] # NoFile /\ wout[w] # n /\ lib[wout[w]] = Copy(n)
      BY WorkersOutput, OutputNames
      DEF Hold, Named, Typed, Shape, Safe, AtWork, Facing, Before, Copies
<1>2. UNCHANGED <<path, tmp>> BY DEF Hold
<1>3. \A v \in Workers : wpc[v] = "hold" /\ v # w => On(v) # n
      BY <1>1, RowsAlone DEF Alone, Before
<1>4. CASE /\ lib' = [lib EXCEPT ![wout[w]] = NoFile]
           /\ held' = held /\ GiveUp(w)
  <2>1. held[n] = NoFile BY <1>1 DEF Safe, Places
  <2>2. \A v \in Workers : wpc'[v] = "hold" =>
            /\ wpc[v] = "hold" /\ wout'[v] = wout[v]
            /\ wjob'[v] = wjob[v] /\ v # w
        BY <1>4 DEF GiveUp, Leave, Typed, TypeOK
  <2>3. PICK f \in Sources : f = n BY <1>1
  <2>6. PICK x \in Outs(f) \ {f} : x = wout[w] BY <1>1, <2>3
  <2>4. \A v \in Workers : wpc'[v] = "hold" => On(v) # f
        BY <1>3, <2>2, <2>3
  <2>5. lib' = [lib EXCEPT ![x] = NoFile] /\ held[f] = NoFile
        BY <1>4, <2>1, <2>3, <2>6
  <2> QED BY <1>2, <1>4, <2>2, <2>4, <2>5, GoneCopies
<1>5. CASE /\ held' = [held EXCEPT ![n] = lib[n]]
           /\ lib' = [lib EXCEPT ![n] = NoFile]
           /\ wpc' = [wpc EXCEPT ![w] = "record"]
           /\ UNCHANGED <<wjob, wout>>
  <2> HIDE DEF n
  <2>1. /\ \A x \in Names \ {n} : lib'[x] = lib[x]
        /\ \A m \in Sources \ {n} : held'[m] = held[m]
        BY <1>1, <1>5 DEF Typed, TypeOK
  <2>2. \A m \in Sources : \A x \in Outs(m) \ {m} :
            x \in Names /\ lib'[x] = lib[x]
        BY <1>1, <2>1, OutputsApart, OutputNames
  <2>3. \A m \in Sources : \A x \in Outs(m) \ {m} :
            lib'[x] \in {NoFile, Copy(m)}
        BY <2>2 DEF Copies
  <2>4. \A x \in Names \ (Films \cup Sources) :
            (\A m \in Sources : x \notin Outs(m)) => lib'[x] = NoFile
        BY <1>1, <2>1 DEF Copies
  <2>5. ASSUME NEW m \in Sources, held'[m] # NoFile
        PROVE  \E x \in Outs(m) \ {m} : lib'[x] = Copy(m)
    <3>1. CASE m = n BY <1>1, <2>2, <3>1
    <3>2. CASE m # n BY <2>1, <2>2, <2>5, <3>2 DEF Copies
    <3> QED BY <3>1, <3>2
  <2>6. ASSUME NEW v \in Workers, wpc'[v] = "hold"
        PROVE  lib'[wout'[v]] = Copy(On(v))'
    <3>1. /\ wout'[v] = wout[v] /\ On(v)' = On(v) /\ wpc[v] = "hold"
          BY <1>2, <1>5, <2>6 DEF On, Typed, TypeOK
    <3>2. /\ lib[wout[v]] = Copy(On(v)) /\ On(v) \in Sources
          /\ wout[v] \in Outs(On(v)) \ {On(v)}
          BY <3>1 DEF Copies, Typed, Shape, Named, On, Safe, AtWork
    <3>3. lib'[wout[v]] = Copy(On(v)) BY <2>2, <3>2
    <3> QED BY <3>1, <3>3 DEF Copy
  <2>7. \A m \in Sources : tmp'[m] \in {NoFile, Copy(m)} BY <1>2 DEF Copies
  <2> QED BY <2>3, <2>4, <2>5, <2>6, <2>7 DEF Copies, Copy
<1> QED BY <1>4, <1>5 DEF Hold, Advance

\* What the encoder writes is nobody's original.
LEMMA EncodeCopies ==
    ASSUME NamesApart, Typed, Safe, Copies, NEW w \in Workers, Encode(w)
    PROVE  Copies'
<1> USE DEF rowVars
<1> DEFINE n == path[wjob[w]]
<1>1. /\ wpc[w] = "encode" /\ n \in Sources
      /\ UNCHANGED <<lib, held, path>>
      BY WorkersOutput DEF Encode
<1>2. \/ lib[n] # NoFile /\ tmp' = [tmp EXCEPT ![n] = Encoded(lib[n])]
      \/ tmp' = [tmp EXCEPT ![n] = NoFile]
      BY DEF Encode
<1>3. lib[n] # NoFile => Encoded(lib[n]) = Copy(n)
      BY <1>1 DEF Safe, Places, Encoded, Original, Copy
<1> HIDE DEF n
<1>4. \A m \in Sources : tmp'[m] \in {NoFile, Copy(m)}
      BY <1>1, <1>2, <1>3 DEF Copies, Typed, TypeOK
<1>5. \A v \in Workers : wpc'[v] = "hold" =>
          /\ wpc[v] = "hold" /\ wout'[v] = wout[v] /\ wjob'[v] = wjob[v]
  <2>1. CASE wpc' = [wpc EXCEPT ![w] = "name"] /\ UNCHANGED <<wjob, wout>>
        BY <2>1 DEF Typed, TypeOK
  <2>2. CASE Leave(w) BY <2>2 DEF Leave, Typed, TypeOK
  <2> QED BY <2>1, <2>2 DEF Encode, Advance, GiveUp
<1> QED BY <1>1, <1>4, <1>5, CopiesFrame DEF On

\* The output that a restore drops is not the original.
LEMMA DropCopies ==
    ASSUME NamesApart, OutputsDiffer, Typed, Safe, Recs, Copies,
           NEW r \in Reviewers, Drop(r)
    PROVE  Copies'
<1> USE DEF diskVars, rowVars, workVars
<1>1. /\ rpc[r] = "drop" /\ UNCHANGED <<held, tmp, path, wpc, wjob, wout>>
      BY DEF Drop
<1>2. PICK n \in Sources :
          /\ n = Path(rrec[r]) /\ held[n] = NoFile /\ Rested(n)
          /\ output[rrec[r]] \in Outs(n) \ {n}
  <2>1. /\ Path(rrec[r]) \in Sources
        /\ output[rrec[r]] \in Outs(Path(rrec[r]))
        /\ output[rrec[r]] \notin Sources
        BY <1>1, ReviewedRecord, ReviewedSafe
  <2>2. Rested(Path(rrec[r])) /\ held[Path(rrec[r])] = NoFile
        BY <1>1 DEF Recs, Undone, Undoing
  <2> QED BY <2>1, <2>2
<1>3. PICK x \in Outs(n) \ {n} : x = output[rrec[r]] BY <1>2
<1>4. \A w \in Workers : wpc[w] = "hold" => On(w) # n
      BY <1>2 DEF Rested, Before
<1>5. CASE lib' = [lib EXCEPT ![x] = NoFile]
      BY <1>1, <1>2, <1>4, <1>5, GoneCopies
<1>6. CASE lib' = lib
  <2>1. \A w \in Workers : path'[wjob'[w]] = On(w) BY <1>1 DEF On
  <2>2. \A m \in Sources : tmp'[m] \in {NoFile, Copy(m)} BY <1>1 DEF Copies
  <2> QED BY <1>1, <1>6, <2>1, <2>2, CopiesFrame
<1> QED BY <1>3, <1>5, <1>6 DEF Drop

\* Every step keeps one copy of each film where it is said to be.
LEMMA CopiesStep ==
    ASSUME NamesApart, OutputsDiffer, Undisturbed, ~clearing,
           Typed, Safe, Facing, Rows, Recs, Copies, [Next]_vars
    PROVE  Copies'
<1> USE DEF diskVars, rowVars, workVars
<1>1. ASSUME \A x \in Names \ Sources : lib'[x] = lib[x],
             tmp' = tmp,
             \A n \in Sources : held'[n] # NoFile => held[n] # NoFile,
             \A w \in Workers : wpc'[w] = "hold" =>
                 /\ wpc[w] = "hold" /\ wout'[w] = wout[w]
                 /\ wjob'[w] = wjob[w],
             \A j \in Jobs : Born(j) => path'[j] = path[j]
      PROVE  Copies'
  <2>1. \A w \in Workers : wpc'[w] = "hold" =>
            /\ wpc[w] = "hold" /\ wout'[w] = wout[w]
            /\ path'[wjob'[w]] = On(w)
        BY <1>1 DEF Typed, Shape, Born, On
  <2>2. \A n \in Sources : tmp'[n] \in {NoFile, Copy(n)}
        BY <1>1 DEF Copies
  <2> QED BY <1>1, <2>1, <2>2, CopiesFrame
<1>2. CASE UNCHANGED vars BY <1>1, <1>2 DEF vars
<1>3. ASSUME NEW n \in Sources, Enqueue(n) PROVE Copies'
  <2>1. \A j \in Jobs : Born(j) => path'[j] = path[j]
        BY <1>3 DEF Enqueue, Born, Typed, TypeOK
  <2> QED BY <1>1, <1>3, <2>1 DEF Enqueue
<1>4. ASSUME NEW w \in Workers, Work(w) PROVE Copies'
  <2>1. CASE Claim(w) \/ Choose(w) \/ Record(w) \/ Stage(w)
    <3>1. \A v \in Workers : wpc'[v] = "hold" =>
              /\ wpc[v] = "hold" /\ wout'[v] = wout[v]
              /\ wjob'[v] = wjob[v]
      <4>1. CASE Claim(w)
            BY <4>1 DEF Claim, Advance, Typed, TypeOK
      <4>2. CASE Choose(w)
            BY <4>2 DEF Choose, Advance, Typed, TypeOK
      <4>3. CASE Record(w)
            BY <4>3 DEF Record, Advance, Typed, TypeOK
      <4>4. CASE Stage(w)
            BY <4>4 DEF Stage, Leave, Typed, TypeOK
      <4> QED BY <2>1, <4>1, <4>2, <4>3, <4>4
    <3>2. UNCHANGED <<lib, tmp, held, path>>
          BY <2>1 DEF Claim, Choose, Record, Stage
    <3> QED BY <1>1, <3>1, <3>2
  <2> QED BY <1>4, <2>1, EncodeCopies, PlaceCopies, HoldCopies DEF Work
<1>5. ASSUME NEW r \in Reviewers, Review(r) PROVE Copies'
  <2>1. CASE Drop(r) BY <2>1, DropCopies
  <2>2. CASE Move(r)
    <3>1. Path(rrec[r]) \in Sources BY <2>2, ReviewedRecord DEF Move
    <3>2. /\ \A x \in Names \ Sources : lib'[x] = lib[x]
          /\ \A n \in Sources : held'[n] # NoFile => held[n] # NoFile
          BY <2>2, <3>1 DEF Move, Typed, TypeOK
    <3> QED BY <1>1, <2>2, <3>2 DEF Move
  <2>3. CASE Remove(r)
    <3>1. Path(rrec[r]) \in Sources BY <2>3, ReviewedRecord DEF Remove
    <3>2. \A n \in Sources : held'[n] # NoFile => held[n] # NoFile
          BY <2>3, <3>1 DEF Remove, Typed, TypeOK
    <3> QED BY <1>1, <2>3, <3>2 DEF Remove
  <2>4. CASE Mark(r) \/ Conclude(r)
        BY <1>1, <2>4 DEF Mark, Conclude
  <2> QED BY <1>5, <2>1, <2>2, <2>3, <2>4 DEF Review
<1>6. CASE (\E u \in Users : Ask(u)) \/ Expire \/ Sweep
      BY <1>1, <1>6 DEF Ask, Expire, Sweep, List, TakeNext
<1> QED BY <1>2, <1>3, <1>4, <1>5, <1>6, NoCrash, NothingCleared DEF Next

-----------------------------------------------------------------------------
(* What follows. *)

Inv == Typed /\ Safe /\ Facing /\ Rows /\ Recs /\ Copies /\ ~clearing

\* The invariant holds in every behaviour.
LEMMA InvAlways ==
    NamesApart /\ OutputsDiffer /\ Undisturbed /\ Spec => []Inv
<1>1. Init /\ NamesApart => Inv
      BY TypedStart, SafeStart, FacingStart, RowsStart, RecsStart, CopiesStart
      DEF Inv, Init
<1>2. ASSUME NamesApart, OutputsDiffer, Undisturbed
      PROVE  Inv /\ [Next]_vars => Inv'
      BY <1>2, TypedStep, RowsAlone, AllAlone, SafeStep, FacingStep, RowsStep,
         RecsStep, CopiesStep, ClearingNever DEF Inv
<1>3. CASE NamesApart /\ OutputsDiffer /\ Undisturbed
      BY <1>1, <1>2, <1>3, PTL DEF Spec
<1>4. CASE ~(NamesApart /\ OutputsDiffer /\ Undisturbed) BY <1>4
<1> QED BY <1>3, <1>4

\* Any number of workers and requests: as long as the process does not die
\* and the history is kept, no original is lost.
THEOREM OriginalsSurviveTogether ==
    NamesApart /\ OutputsDiffer /\ Undisturbed /\ Spec => []OriginalSurvives
<1>1. Inv => OriginalSurvives BY SafeKeeps DEF Inv
<1> QED BY <1>1, InvAlways, PTL

\* And an active record tells where the bytes are.
THEOREM RecordsTellTogether ==
    NamesApart /\ OutputsDiffer /\ Undisturbed /\ Spec => []RecordTellsWhere
<1>1. Inv => RecordTellsWhere BY SafeTells DEF Inv
<1> QED BY <1>1, InvAlways, PTL

\* When moreover no call fails, a record that is being closed has nothing
\* left to tell of.
Closing ==
    \A r \in Reviewers :
        rpc[r] \in {"markDone", "markRestored"} /\ record[rrec[r]] = "active"
        => held[Path(rrec[r])] = NoFile

\* Every step keeps a held film either tracked or being closed.
LEMMA ClosingStep ==
    ASSUME Inv, Closing, NamesApart, Undisturbed, [Next]_vars
    PROVE  Closing'
<1> USE DEF diskVars, rowVars, recordVars, workVars, reviewVars
<1> SUFFICES ASSUME NEW r \in Reviewers,
                    rpc'[r] \in {"markDone", "markRestored"},
                    record'[rrec'[r]] = "active"
             PROVE  held'[path'[owner'[rrec'[r]]]] = NoFile
    BY DEF Closing, Path
<1>1. ASSUME rpc[r] # "idle", rrec'[r] = rrec[r]
      PROVE  /\ rrec[r] \in Originals /\ record[rrec[r]] # "unborn"
             /\ owner[rrec[r]] \in Jobs /\ Born(owner[rrec[r]])
             /\ Path(rrec[r]) \in Sources
  <2>1. /\ rrec[r] \in Originals /\ record[rrec[r]] # "unborn"
        /\ owner[rrec[r]] \in Jobs /\ Path(rrec[r]) \in Sources
        BY <1>1, ReviewedRecord DEF Inv
  <2> QED BY <2>1 DEF Inv, Typed, Shape, Born
\* What the step must leave as it is.
<1>2. ASSUME rpc'[r] = rpc[r], rrec'[r] = rrec[r],
             record'[rrec[r]] = "active" => record[rrec[r]] = "active",
             owner'[rrec[r]] = owner[rrec[r]],
             \A j \in Jobs : Born(j) => path'[j] = path[j],
             \A n \in Sources : held'[n] # NoFile =>
                 \/ held[n] # NoFile
                 \/ \A o \in Originals : record[o] = "active" => Path(o) # n
      PROVE  held'[path'[owner'[rrec'[r]]]] = NoFile
  <2>1. /\ rpc[r] \in {"markDone", "markRestored"}
        /\ rrec[r] \in Originals /\ record[rrec[r]] = "active"
        /\ owner[rrec[r]] \in Jobs /\ Born(owner[rrec[r]])
        /\ Path(rrec[r]) \in Sources
        BY <1>1, <1>2
  <2>2. path'[owner'[rrec'[r]]] = Path(rrec[r]) BY <1>2, <2>1 DEF Path
  <2>3. held[Path(rrec[r])] = NoFile BY <2>1 DEF Closing
  <2> QED BY <1>2, <2>1, <2>2, <2>3
<1>3. CASE UNCHANGED vars BY <1>2, <1>3 DEF vars
<1>4. ASSUME NEW n \in Sources, Enqueue(n)
      PROVE  held'[path'[owner'[rrec'[r]]]] = NoFile
  <2>1. \A j \in Jobs : Born(j) => path'[j] = path[j]
        BY <1>4 DEF Enqueue, Born, Inv, Typed, TypeOK
  <2> QED BY <1>2, <1>4, <2>1 DEF Enqueue
<1>5. ASSUME NEW w \in Workers, Work(w)
      PROVE  held'[path'[owner'[rrec'[r]]]] = NoFile
  <2>1. UNCHANGED <<path, rpc, rrec>>
        BY <1>5 DEF Work, Claim, Encode, Choose, Place, Hold, Record, Stage
  <2>2. CASE ~Record(w) /\ ~Hold(w)
    <3>1. UNCHANGED <<held, record, owner>>
          BY <1>5, <2>2 DEF Work, Claim, Encode, Choose, Place, Stage
    <3> QED BY <1>2, <2>1, <3>1
  <2>3. CASE Record(w)
    <3>1. rrec[r] \in Originals /\ record[rrec[r]] # "unborn"
          BY <1>1, <2>1
    <3>2. UNCHANGED held BY <2>3 DEF Record
    <3>3. /\ record'[rrec[r]] = "active" => record[rrec[r]] = "active"
          /\ owner'[rrec[r]] = owner[rrec[r]]
      <4>1. CASE UNCHANGED <<record, owner>> BY <4>1
      <4>2. CASE \E o \in Originals :
                    /\ record[o] = "unborn"
                    /\ record' = [record EXCEPT ![o] = "active"]
                    /\ owner' = [owner EXCEPT ![o] = wjob[w]]
            BY <3>1, <4>2 DEF Inv, Typed, TypeOK
      <4> QED BY <2>3, <4>1, <4>2 DEF Record
    <3> QED BY <1>2, <2>1, <3>2, <3>3
  <2>4. CASE Hold(w)
    <3>1. UNCHANGED <<record, owner>> BY <2>4 DEF Hold
    <3>2. /\ wpc[w] = "hold" /\ On(w) \in Sources /\ path[wjob[w]] = On(w)
          /\ wjob[w] \in Jobs /\ Born(wjob[w])
          BY <2>4, WorkersOutput DEF Hold, Inv, Born
    <3>3. \A n \in Sources : held'[n] # NoFile =>
              held[n] # NoFile \/ n = On(w)
          BY <2>4, <3>2 DEF Hold, Inv, Typed, TypeOK
    <3>4. \A o \in Originals : record[o] = "active" => Path(o) # On(w)
      <4> SUFFICES ASSUME NEW o \in Originals, record[o] = "active",
                          Path(o) = On(w)
                   PROVE  FALSE
          OBVIOUS
      <4>1. /\ owner[o] \in Jobs /\ Born(owner[o]) /\ Latest(owner[o])
            BY DEF Inv, Typed, TypeOK, Shape, Recs, Born
      <4>2. Latest(wjob[w]) /\ Unowned(wjob[w])
            BY <3>2 DEF Inv, Rows, Early, Before
      <4>3. owner[o] = wjob[w]
            BY <3>2, <4>1, <4>2, LatestUnique DEF Path
      <4> QED BY <4>2, <4>3 DEF Unowned
    <3> QED BY <1>2, <2>1, <3>1, <3>3, <3>4
  <2> QED BY <2>2, <2>3, <2>4
<1>6. ASSUME NEW s \in Reviewers, Review(s)
      PROVE  held'[path'[owner'[rrec'[r]]]] = NoFile
  <2>1. UNCHANGED <<path, owner>>
        BY <1>6 DEF Review, Move, Drop, Remove, Mark, Conclude
  <2>2. /\ rrec[s] \in Originals /\ Path(rrec[s]) \in Sources
        /\ record[rrec[s]] # "unborn"
        BY <1>6, ReviewedRecord
        DEF Inv, Review, Move, Drop, Remove, Mark, Conclude
  <2>3. \A n \in Sources : held'[n] # NoFile => held[n] # NoFile
        BY <1>6, <2>2
        DEF Review, Move, Drop, Remove, Mark, Conclude, Inv, Typed, TypeOK
  <2>4. \A o \in Originals : record'[o] = "active" => record[o] = "active"
    <3>1. CASE Mark(s) BY <2>2, <3>1 DEF Mark, Inv, Typed, TypeOK
    <3>2. CASE ~Mark(s)
          BY <1>6, <3>2 DEF Review, Move, Drop, Remove, Conclude
    <3> QED BY <3>1, <3>2
  <2>5. CASE r # s
    <3>1. rpc'[r] = rpc[r] /\ rrec'[r] = rrec[r]
      <4>1. CASE Move(s) BY <2>5, <4>1 DEF Move, Step, End, Inv, Typed, TypeOK
      <4>2. CASE Drop(s) BY <2>5, <4>2 DEF Drop, Step, Inv, Typed, TypeOK
      <4>3. CASE Remove(s)
            BY <2>5, <4>3 DEF Remove, Step, End, Inv, Typed, TypeOK
      <4>4. CASE Mark(s) BY <2>5, <4>4 DEF Mark, Step, Inv, Typed, TypeOK
      <4>5. CASE Conclude(s)
            BY <2>5, <4>5 DEF Conclude, End, Inv, Typed, TypeOK
      <4> QED BY <1>6, <4>1, <4>2, <4>3, <4>4, <4>5 DEF Review
    <3>2. rrec[r] \in Originals BY <1>1, <3>1
    <3> QED BY <1>2, <2>1, <2>3, <2>4, <3>1, <3>2
  <2>6. CASE r = s /\ Drop(s)
    <3>1. /\ rpc[r] = "drop" /\ rrec' = rrec /\ held' = held
          BY <2>6 DEF Drop
    <3>2. held[Path(rrec[r])] = NoFile
          BY <3>1 DEF Inv, Recs, Undone, Undoing
    <3> QED BY <2>1, <3>1, <3>2 DEF Path
  <2>7. CASE r = s /\ Remove(s)
    <3>1. /\ rrec' = rrec
          /\ held' = [held EXCEPT ![Path(rrec[r])] = NoFile]
          BY <2>7 DEF Remove, Step, End, Inv, Typed, TypeOK
    <3> QED BY <2>1, <2>2, <2>7, <3>1 DEF Path, Inv, Typed, TypeOK
  <2>8. CASE r = s /\ ~Drop(s) /\ ~Remove(s)
        BY <1>6, <2>8
        DEF Review, Move, Mark, Conclude, Step, End, Inv, Typed, TypeOK
  <2> QED BY <2>5, <2>6, <2>7, <2>8
<1>7. ASSUME NEW u \in Users, Ask(u)
      PROVE  held'[path'[owner'[rrec'[r]]]] = NoFile
  <2>1. rpc'[r] = rpc[r] /\ rrec'[r] = rrec[r]
        BY <1>7 DEF Ask, Inv, Typed, TypeOK, Reviewers
  <2> QED BY <1>2, <1>7, <2>1 DEF Ask
<1>8. CASE TakeNext
  <2>1. rpc'[r] = rpc[r] /\ rrec'[r] = rrec[r]
        BY <1>8 DEF TakeNext, Inv, Typed, TypeOK, Reviewers
  <2> QED BY <1>2, <1>8, <2>1 DEF TakeNext
<1>9. CASE Expire \/ List BY <1>2, <1>9 DEF Expire, List
<1> QED BY <1>3, <1>4, <1>5, <1>6, <1>7, <1>8, <1>9, NoCrash, NothingCleared
        DEF Next, Sweep, Inv

\* Without disk errors a held film never falls out of the records.
LEMMA TrackedStep ==
    ASSUME Inv, Closing, HeldIsTracked, ~IOMayFail, NamesApart, Undisturbed,
           [Next]_vars
    PROVE  HeldIsTracked'
<1> USE DEF diskVars, rowVars, recordVars, workVars, reviewVars
<1> SUFFICES ASSUME NEW n \in Sources, held'[n] # NoFile
             PROVE  \/ \E o \in Originals :
                          record'[o] = "active" /\ path'[owner'[o]] = n
                    \/ \E w \in Workers :
                          wpc'[w] = "record" /\ path'[wjob'[w]] = n
    BY DEF HeldIsTracked, Path
<1> DEFINE Tracked == \/ \E o \in Originals :
                            record'[o] = "active" /\ path'[owner'[o]] = n
                      \/ \E w \in Workers :
                            wpc'[w] = "record" /\ path'[wjob'[w]] = n
<1>1. ASSUME held[n] # NoFile
      PROVE  \/ \E o \in Originals :
                   /\ record[o] = "active" /\ Path(o) = n
                   /\ owner[o] \in Jobs /\ Born(owner[o])
             \/ \E w \in Workers :
                   /\ wpc[w] = "record" /\ On(w) = n
                   /\ wjob[w] \in Jobs /\ Born(wjob[w])
  <2>1. CASE \E o \in Originals : record[o] = "active" /\ Path(o) = n
        BY <2>1 DEF Inv, Typed, TypeOK, Shape, Born
  <2>2. CASE \E w \in Workers : wpc[w] = "record" /\ path[wjob[w]] = n
        BY <2>2 DEF Inv, Typed, Shape, Born, On
  <2> QED BY <1>1, <2>1, <2>2 DEF HeldIsTracked
\* A step that closes no record of n and disturbs no worker at "record".
<1>2. ASSUME held'[n] # NoFile => held[n] # NoFile,
             \A o \in Originals : record[o] = "active" /\ Path(o) = n =>
                 record'[o] = "active" /\ owner'[o] = owner[o],
             \A w \in Workers : wpc[w] = "record" =>
                 wpc'[w] = "record" /\ wjob'[w] = wjob[w],
             \A j \in Jobs : Born(j) => path'[j] = path[j]
      PROVE  Tracked
  <2>1. CASE \E o \in Originals :
                 /\ record[o] = "active" /\ Path(o) = n
                 /\ owner[o] \in Jobs /\ Born(owner[o])
        BY <1>2, <2>1 DEF Path
  <2>2. CASE \E w \in Workers :
                 /\ wpc[w] = "record" /\ On(w) = n
                 /\ wjob[w] \in Jobs /\ Born(wjob[w])
        BY <1>2, <2>2 DEF On
  <2> QED BY <1>1, <1>2, <2>1, <2>2
<1> HIDE DEF Tracked
<1>3. CASE UNCHANGED vars BY <1>2, <1>3 DEF vars, Tracked
<1>4. ASSUME NEW m \in Sources, Enqueue(m) PROVE Tracked
  <2>1. \A j \in Jobs : Born(j) => path'[j] = path[j]
        BY <1>4 DEF Enqueue, Born, Inv, Typed, TypeOK
  <2> QED BY <1>2, <1>4, <2>1 DEF Enqueue
<1>5. ASSUME NEW w \in Workers, Work(w) PROVE Tracked
  <2>1. path' = path
        BY <1>5 DEF Work, Claim, Encode, Choose, Place, Hold, Record, Stage
  <2>2. CASE ~Record(w)
    <3>1. \A v \in Workers : wpc[v] = "record" =>
              wpc'[v] = "record" /\ wjob'[v] = wjob[v]
      <4>1. CASE Claim(w)
            BY <4>1 DEF Claim, Advance, Inv, Typed, TypeOK
      <4>2. CASE Goes(w)
            BY <4>2 DEF Goes, Before, Inv, Typed, TypeOK
      <4>3. CASE Ends(w)
            BY <4>3 DEF Ends, Leave, Before, Inv, Typed, TypeOK
      <4> QED BY <1>5, <2>2, <4>1, <4>2, <4>3, WorkShape DEF Work, Inv
    <3>2. UNCHANGED <<record, owner>>
          BY <1>5, <2>2 DEF Work, Claim, Encode, Choose, Place, Hold, Stage
    <3>3. CASE held'[n] # NoFile => held[n] # NoFile
          BY <1>2, <2>1, <3>1, <3>2, <3>3
    <3>4. CASE ~(held'[n] # NoFile => held[n] # NoFile)
      <4>1. Hold(w)
            BY <1>5, <2>2, <3>4
            DEF Work, Claim, Encode, Choose, Place, Stage
      <4>2. /\ path[wjob[w]] = n /\ wpc'[w] = "record" /\ wjob' = wjob
            BY <3>4, <4>1 DEF Hold, Advance, Inv, Typed, TypeOK
      <4> QED BY <2>1, <4>2 DEF Tracked
    <3> QED BY <3>3, <3>4
  <2>3. CASE Record(w)
    <3>1. /\ wpc[w] = "record" /\ wpc' = [wpc EXCEPT ![w] = "stage"]
          /\ UNCHANGED <<held, wjob>>
          BY <2>3 DEF Record, Advance
    <3>2. HasRow(wjob[w])
          BY <3>1 DEF Inv, Rows, Early, HasRow
    <3>3. PICK o \in Originals :
              /\ record[o] = "unborn"
              /\ record' = [record EXCEPT ![o] = "active"]
              /\ owner' = [owner EXCEPT ![o] = wjob[w]]
          BY <2>3, <3>2 DEF Record
    <3>4. /\ record'[o] = "active" /\ owner'[o] = wjob[w]
          /\ \A p \in Originals \ {o} :
                record'[p] = record[p] /\ owner'[p] = owner[p]
          BY <3>3 DEF Inv, Typed, TypeOK
    <3>5. CASE On(w) = n BY <2>1, <3>4, <3>5 DEF Tracked, On
    <3>6. CASE On(w) # n
      <4>1. CASE \E p \in Originals : record[p] = "active" /\ Path(p) = n
            BY <2>1, <3>3, <3>4, <4>1 DEF Tracked, Path
      <4>2. CASE \E v \in Workers : wpc[v] = "record" /\ On(v) = n
        <5>1. PICK v \in Workers : wpc[v] = "record" /\ On(v) = n BY <4>2
        <5>2. v # w /\ wpc'[v] = "record"
              BY <3>1, <3>6, <5>1 DEF Inv, Typed, TypeOK
        <5> QED BY <2>1, <3>1, <5>1, <5>2 DEF Tracked, On
      <4> QED BY <1>1, <3>1, <4>1, <4>2
    <3> QED BY <3>5, <3>6
  <2> QED BY <2>2, <2>3
<1>6. ASSUME NEW r \in Reviewers, Review(r) PROVE Tracked
  <2>1. UNCHANGED <<path, owner, wpc, wjob>>
        BY <1>6 DEF Review, Move, Drop, Remove, Mark, Conclude
  <2>2. /\ rrec[r] \in Originals /\ Path(rrec[r]) \in Sources
        BY <1>6, ReviewedRecord
        DEF Inv, Review, Move, Drop, Remove, Mark, Conclude
  <2>3. held'[n] # NoFile => held[n] # NoFile
        BY <1>6, <2>2
        DEF Review, Move, Drop, Remove, Mark, Conclude, Inv, Typed, TypeOK
  <2>4. \A o \in Originals : record[o] = "active" /\ Path(o) = n =>
            record'[o] = "active"
    <3>1. CASE Mark(r)
      <4>1. /\ rpc[r] \in {"markDone", "markRestored"} /\ held' = held
            /\ \A o \in Originals \ {rrec[r]} : record'[o] = record[o]
            BY <3>1 DEF Mark, Inv, Typed, TypeOK
      <4>2. record[rrec[r]] = "active" => Path(rrec[r]) # n
            BY <4>1 DEF Closing
      <4> QED BY <4>1, <4>2
    <3>2. CASE ~Mark(r)
          BY <1>6, <3>2 DEF Review, Move, Drop, Remove, Conclude
    <3> QED BY <3>1, <3>2
  <2> QED BY <1>2, <2>1, <2>3, <2>4
<1>7. CASE (\E u \in Users : Ask(u)) \/ Expire \/ Sweep
      BY <1>2, <1>7 DEF Ask, Expire, Sweep, List, TakeNext, Tracked
<1> QED BY <1>3, <1>4, <1>5, <1>6, <1>7, NoCrash, NothingCleared
        DEF Next, Inv, Tracked

\* When moreover no call fails, whatever is held is tracked by a record, or
\* about to be.
THEOREM HeldStaysTracked ==
    NamesApart /\ OutputsDiffer /\ Undisturbed /\ ~IOMayFail /\ Spec
    => []HeldIsTracked
<1>1. Init => Closing /\ HeldIsTracked BY DEF Init, Closing, HeldIsTracked
<1>2. ASSUME NamesApart, Undisturbed, ~IOMayFail
      PROVE  Inv /\ Closing /\ HeldIsTracked /\ [Next]_vars
             => (Closing /\ HeldIsTracked)'
      BY <1>2, ClosingStep, TrackedStep
<1>3. CASE NamesApart /\ OutputsDiffer /\ Undisturbed /\ ~IOMayFail
      BY <1>1, <1>2, <1>3, InvAlways, PTL DEF Spec
<1>4. CASE ~(NamesApart /\ OutputsDiffer /\ Undisturbed /\ ~IOMayFail)
      BY <1>4
<1> QED BY <1>3, <1>4

-----------------------------------------------------------------------------
(* Staging implements Custody. *)

\* Which copies of f are on disk.
HasOriginal(f) == \/ lib[f] = Original(f)
                  \/ f \in Sources /\ held[f] = Original(f)

HasCopy(f) == f \in Sources /\ \E x \in Outs(f) \ {f} : lib[x] = Copy(f)

OnDiskOf(f) ==
    {k \in {"original", "encoded"} : OnDisk([film |-> f, kind |-> k])}

Found == [f \in Films |-> OnDiskOf(f)]

\* Every encoded file lies under a name of its film.
Filed ==
    /\ \A n \in Sources : tmp[n] \in {NoFile, Copy(n)}
    /\ \A n \in Sources : \A x \in Outs(n) \ {n} : lib[x] \in {NoFile, Copy(n)}
    /\ \A x \in Names \ (Films \cup Sources) :
          (\A n \in Sources : x \notin Outs(n)) => lib[x] = NoFile

\* What is found of a film lies under its names.
LEMMA WhatIsFound ==
    ASSUME NamesApart, OutputsDiffer, Typed, Safe, Filed, NEW f \in Films
    PROVE  /\ "original" \in OnDiskOf(f) <=> HasOriginal(f)
           /\ "encoded" \in OnDiskOf(f) <=> HasCopy(f)
<1>1. /\ Original(f) \in Content /\ Copy(f) \in Content
      /\ Original(f) # NoFile /\ Copy(f) # NoFile
      BY NamesAssumption DEF Original, Copy, Content
<1>2. /\ \A g : Original(g) = Original(f) => g = f
      /\ \A g : Copy(g) = Copy(f) => g = f
      /\ \A g, h : Original(g) # Copy(h)
  <2>1. \A g : Original(g).film = g /\ Original(g).kind = "original"
        BY DEF Original
  <2>2. \A g : Copy(g).film = g /\ Copy(g).kind = "encoded" BY DEF Copy
  <2> QED BY <2>1, <2>2
<1>3. ASSUME NEW x \in Names, lib[x] # NoFile
      PROVE  \/ x \in Films \cup Sources /\ lib[x] = Original(x)
             \/ \E n \in Sources : x \in Outs(n) \ {n} /\ lib[x] = Copy(n)
  <2>1. CASE x \in Films \cup Sources BY <1>3, <2>1 DEF Safe, Places
  <2>2. CASE x \notin Films \cup Sources
    <3>1. PICK n \in Sources : x \in Outs(n)
          BY <1>3, <2>2 DEF Filed
    <3> QED BY <1>3, <2>2, <3>1 DEF Filed
  <2> QED BY <2>1, <2>2
<1>4. OnDisk(Original(f)) <=> HasOriginal(f)
  <2>1. ASSUME NEW x \in Names, lib[x] = Original(f) PROVE HasOriginal(f)
        BY <1>1, <1>2, <1>3, <2>1 DEF HasOriginal
  <2>2. ASSUME NEW x \in Sources, held[x] = Original(f) PROVE HasOriginal(f)
        BY <1>1, <1>2, <2>2 DEF HasOriginal, Safe, Places
  <2>3. HasOriginal(f) => OnDisk(Original(f))
        BY NamesAssumption DEF HasOriginal, OnDisk
  <2> QED BY <2>1, <2>2, <2>3 DEF OnDisk
<1>5. OnDisk(Copy(f)) <=> HasCopy(f)
  <2>1. ASSUME NEW x \in Names, lib[x] = Copy(f) PROVE HasCopy(f)
        BY <1>1, <1>2, <1>3, <2>1 DEF HasCopy
  <2>2. ASSUME NEW x \in Sources, held[x] = Copy(f) PROVE FALSE
        BY <1>1, <1>2, <2>2 DEF Safe, Places
  <2>3. HasCopy(f) => OnDisk(Copy(f))
        BY OutputNames DEF HasCopy, OnDisk
  <2> QED BY <2>1, <2>2, <2>3 DEF OnDisk
<1> QED BY <1>4, <1>5 DEF OnDiskOf, Original, Copy

\* What Custody lets happen to one film, told by what is found of it.
LEMMA CustodyStep ==
    ASSUME NEW f \in Films,
           \A g \in Films \ {f} : OnDiskOf(g)' = OnDiskOf(g),
           \/ OnDiskOf(f)' = OnDiskOf(f)
           \/ OnDiskOf(f)' = OnDiskOf(f) \cup {"encoded"}
           \/ /\ OnDiskOf(f) = {"original", "encoded"}
              /\ OnDiskOf(f)' \in {{"original"}, {"encoded"}}
    PROVE  Found' = Found \/ Safekeeping!Next
<1>1. Found = [g \in Films |-> {k \in {"original", "encoded"} :
                                    OnDisk([film |-> g, kind |-> k])}]
      BY DEF Found, OnDiskOf
<1>2. Found' = [g \in Films |-> OnDiskOf(g)'] BY DEF Found
<1>3. CASE OnDiskOf(f)' = OnDiskOf(f) BY <1>2, <1>3 DEF Found
<1>4. CASE OnDiskOf(f)' = OnDiskOf(f) \cup {"encoded"}
  <2>1. Found' = [Found EXCEPT ![f] = Found[f] \cup {"encoded"}]
        BY <1>2, <1>4 DEF Found
  <2>2. Safekeeping!Encode(f)
        BY <2>1, <1>1 DEF Safekeeping!Encode, Found, OnDiskOf
  <2> QED BY <2>2 DEF Safekeeping!Next
<1>5. CASE /\ OnDiskOf(f) = {"original", "encoded"}
           /\ OnDiskOf(f)' \in {{"original"}, {"encoded"}}
  <2>1. Found' = [Found EXCEPT ![f] = OnDiskOf(f)']
        BY <1>2 DEF Found
  <2>2. Found[f] = {"original", "encoded"} BY <1>5 DEF Found
  <2>3. Safekeeping!Accept(f) \/ Safekeeping!Restore(f)
        BY <1>1, <1>5, <2>1, <2>2
        DEF Safekeeping!Accept, Safekeeping!Restore, Safekeeping!Kinds, Found,
            OnDiskOf
  <2> QED BY <2>3 DEF Safekeeping!Next
<1> QED BY <1>3, <1>4, <1>5

Telling == \A f \in Films : /\ "original" \in OnDiskOf(f) <=> HasOriginal(f)
                            /\ "encoded" \in OnDiskOf(f) <=> HasCopy(f)

\* The invariant says where the film of every record is.
LEMMA InvTells == NamesApart /\ OutputsDiffer /\ Inv => Filed /\ Telling
<1> SUFFICES ASSUME NamesApart, OutputsDiffer, Inv PROVE Filed /\ Telling
    OBVIOUS
<1>1. Filed BY DEF Inv, Copies, Filed
<1> QED BY <1>1, WhatIsFound DEF Inv, Telling

\* A step that touches the files of one film.
LEMMA OneFilmStep ==
    ASSUME NamesApart, OutputsDiffer, Telling, Telling', NEW n \in Sources,
           \A x \in Names : x \notin Outs(n) \cup {n} => lib'[x] = lib[x],
           \A m \in Sources \ {n} : held'[m] = held[m],
           \/ HasOriginal(n)' <=> HasOriginal(n)
           \/ HasOriginal(n) /\ ~HasOriginal(n)' /\ HasCopy(n),
           \/ HasCopy(n)' <=> HasCopy(n)
           \/ HasCopy(n)' /\ (HasOriginal(n)' <=> HasOriginal(n))
           \/ HasCopy(n) /\ ~HasCopy(n)' /\ HasOriginal(n) /\ HasOriginal(n)'
    PROVE  Found' = Found \/ Safekeeping!Next
<1>1. \A f \in Films : OnDiskOf(f) \subseteq {"original", "encoded"}
      BY DEF OnDiskOf
<1>2. \A f \in Films : OnDiskOf(f)' \subseteq {"original", "encoded"}
      BY DEF OnDiskOf
<1>3. ASSUME NEW f \in Films, HasOriginal(f)' <=> HasOriginal(f),
             HasCopy(f)' <=> HasCopy(f)
      PROVE  OnDiskOf(f)' = OnDiskOf(f)
      BY <1>1, <1>2, <1>3 DEF Telling
<1>4. ASSUME NEW f \in Films, f # n PROVE OnDiskOf(f)' = OnDiskOf(f)
  <2>1. f \notin Outs(n) /\ f \in Names
        BY <1>4, NamesAssumption DEF NamesApart
  <2>2. HasOriginal(f)' <=> HasOriginal(f)
        BY <1>4, <2>1 DEF HasOriginal, Original
  <2>3. ASSUME f \in Sources PROVE \A x \in Outs(f) \ {f} : lib'[x] = lib[x]
    <3>1. \A x \in Outs(f) \ {f} : x \in Names /\ x # n
          BY <2>3, OutputNames, OutputsApart
    <3>2. \A x \in Outs(f) : x \notin Outs(n) BY <1>4, <2>3, OutputOf
    <3> QED BY <3>1, <3>2
  <2>4. HasCopy(f)' <=> HasCopy(f) BY <2>3 DEF HasCopy, Copy
  <2> QED BY <1>3, <2>2, <2>4
<1>5. CASE n \notin Films
  <2>1. \A f \in Films : OnDiskOf(f)' = OnDiskOf(f) BY <1>4, <1>5
  <2> QED BY <2>1 DEF Found
<1>6. CASE n \in Films
  <2>1. \/ OnDiskOf(n)' = OnDiskOf(n)
        \/ OnDiskOf(n)' = OnDiskOf(n) \cup {"encoded"}
        \/ /\ OnDiskOf(n) = {"original", "encoded"}
           /\ OnDiskOf(n)' \in {{"original"}, {"encoded"}}
    <3>1. /\ OnDiskOf(n) \subseteq {"original", "encoded"}
          /\ OnDiskOf(n)' \subseteq {"original", "encoded"}
          /\ "original" \in OnDiskOf(n) <=> HasOriginal(n)
          /\ "encoded" \in OnDiskOf(n) <=> HasCopy(n)
          /\ "original" \in OnDiskOf(n)' <=> HasOriginal(n)'
          /\ "encoded" \in OnDiskOf(n)' <=> HasCopy(n)'
          BY <1>1, <1>2, <1>6 DEF Telling
    <3> QED BY <3>1
  <2> QED BY <1>4, <1>6, <2>1, CustodyStep
<1> QED BY <1>5, <1>6

\* Taking files away makes no copy.
LEMMA CopyGone ==
    ASSUME Typed, NEW n \in Sources, lib[n] = Original(n), lib[n] # NoFile,
           n \in Names, NEW x, lib'[x] = NoFile,
           \A y \in Names : y # x => lib'[y] = lib[y]
    PROVE  HasCopy(n)' => HasCopy(n)
<1>1. Original(n) \in Content BY DEF Typed, TypeOK
<1>2. Copy(n) \in Content /\ NoFile \notin Content
      BY <1>1, NamesAssumption DEF Original, Copy, Content
<1>3. \A y \in Outs(n) \ {n} : lib'[y] = Copy(n) => lib[y] = Copy(n)
      BY <1>2, OutputNames
<1> QED BY <1>3 DEF HasCopy, Copy

\* A step that leaves the files leaves every film's custody.
LEMMA NoFileMoves ==
    ASSUME lib' = lib, held' = held
    PROVE  Found' = Found \/ Safekeeping!Next
BY DEF Found, OnDiskOf, OnDisk

\* A step of a job is a step of Custody, or none.
LEMMA WorkKeeps ==
    ASSUME NamesApart, OutputsDiffer, Typed, Safe, Facing, Filed,
           Telling, Telling', NEW w \in Workers, Place(w) \/ Hold(w)
    PROVE  Found' = Found \/ Safekeeping!Next
<1>1. PICK n \in Sources : n = path[wjob[w]] /\ n = On(w)
      BY WorkersOutput DEF Place, Hold
<1>2. PICK x \in Outs(n) : x = wout[w] /\ x # n /\ x \in Names
      BY <1>1, OutputNames
      DEF Typed, Shape, Safe, AtWork, Named, Place, Hold
<1>3. n \in Names /\ lib[n] = Original(n) /\ held[n] = NoFile
      BY <1>1, NamesAssumption
      DEF Safe, Places, Facing, Place, Hold, Before
<1>4. Original(n) # NoFile
      BY <1>1, <1>3 DEF Facing, Before, Place, Hold
<1>5. HasOriginal(n) BY <1>3 DEF HasOriginal
<1>6. CASE UNCHANGED <<lib, held>> BY <1>6, NoFileMoves
<1>7. CASE /\ Place(w) /\ tmp[n] # NoFile
           /\ lib' = [lib EXCEPT ![x] = tmp[n]] /\ held' = held
  <2>1. tmp[n] = Copy(n) BY <1>7 DEF Filed
  <2>2. /\ lib'[x] = Copy(n)
        /\ \A y \in Names : y # x => lib'[y] = lib[y]
        BY <1>2, <1>7, <2>1 DEF Typed, TypeOK
  <2>3. HasOriginal(n)' BY <1>2, <1>3, <2>2 DEF HasOriginal, Original
  <2>4. HasCopy(n)' BY <1>2, <2>2 DEF HasCopy, Copy
  <2> QED BY <1>5, <1>7, <2>2, <2>3, <2>4, OneFilmStep
<1>8. CASE Hold(w) /\ lib' = [lib EXCEPT ![x] = NoFile] /\ held' = held
  <2>1. lib'[x] = NoFile /\ \A y \in Names : y # x => lib'[y] = lib[y]
        BY <1>2, <1>8 DEF Typed, TypeOK
  <2>2. HasOriginal(n)' BY <1>2, <1>3, <2>1 DEF HasOriginal, Original
  <2>3. HasCopy(n)' => HasCopy(n) BY <1>3, <1>4, <2>1, CopyGone
  <2> QED BY <1>5, <1>8, <2>1, <2>2, <2>3, OneFilmStep
<1>9. CASE /\ Hold(w)
           /\ held' = [held EXCEPT ![n] = lib[n]]
           /\ lib' = [lib EXCEPT ![n] = NoFile]
  <2>1. /\ held'[n] = Original(n)
        /\ \A m \in Sources \ {n} : held'[m] = held[m]
        /\ \A y \in Names : y # n => lib'[y] = lib[y]
        BY <1>3, <1>9 DEF Typed, TypeOK
  <2>2. HasOriginal(n)' BY <2>1 DEF HasOriginal, Original
  <2>3. HasCopy(n)' <=> HasCopy(n)
    <3>1. \A y \in Outs(n) \ {n} : lib'[y] = lib[y] BY <2>1, OutputNames
    <3> QED BY <3>1 DEF HasCopy, Copy
  <2> QED BY <1>5, <2>1, <2>2, <2>3, OneFilmStep
<1> QED BY <1>1, <1>2, <1>6, <1>7, <1>8, <1>9 DEF Place, Hold

\* What a review needs to find: a copy of whatever is held, and after the
\* drop of one copy another, unless the original is back.
Backed == \A n \in Sources : held[n] # NoFile => HasCopy(n)

Replaced(r) == lib[Path(rrec[r])] = NoFile => HasCopy(Path(rrec[r]))'

\* A step of a review is a step of Custody, or none.
LEMMA ReviewKeeps ==
    ASSUME NamesApart, OutputsDiffer, Typed, Safe, Filed, Backed,
           Telling, Telling', NEW r \in Reviewers,
           Move(r) \/ (Drop(r) /\ Replaced(r)) \/ Remove(r)
    PROVE  Found' = Found \/ Safekeeping!Next
<1>1. PICK n \in Sources : n = Path(rrec[r])
      BY ReviewedSafe DEF Move, Drop, Remove
<1>2. PICK x \in Outs(n) : x = output[rrec[r]] /\ x # n /\ x \in Names
  <2>1. /\ output[rrec[r]] \in Outs(n) /\ output[rrec[r]] \in Names
        /\ output[rrec[r]] \notin Sources
        BY <1>1, ReviewedRecord, ReviewedSafe DEF Move, Drop, Remove
  <2> QED BY <2>1
<1>3. /\ n \in Names
      /\ held[n] # NoFile => held[n] = Original(n) /\ lib[n] = NoFile
      /\ lib[n] # NoFile => lib[n] = Original(n)
      BY NamesAssumption DEF Safe, Places
<1>4. CASE UNCHANGED <<lib, held>> BY <1>4, NoFileMoves
<1>5. CASE /\ held[n] # NoFile
           /\ lib' = [lib EXCEPT ![n] = held[n]]
           /\ held' = [held EXCEPT ![n] = NoFile]
  <2>1. /\ lib'[n] = Original(n)
        /\ \A m \in Sources \ {n} : held'[m] = held[m]
        /\ \A y \in Names : y # n => lib'[y] = lib[y]
        BY <1>3, <1>5 DEF Typed, TypeOK
  <2>2. HasOriginal(n) /\ HasOriginal(n)'
        BY <1>3, <1>5, <2>1 DEF HasOriginal, Original
  <2>3. HasCopy(n)' <=> HasCopy(n)
    <3>1. \A y \in Outs(n) \ {n} : lib'[y] = lib[y] BY <2>1, OutputNames
    <3> QED BY <3>1 DEF HasCopy, Copy
  <2> QED BY <2>1, <2>2, <2>3, OneFilmStep
<1>6. CASE /\ Drop(r) /\ Replaced(r)
           /\ lib' = [lib EXCEPT ![x] = NoFile] /\ held' = held
  <2>1. lib'[x] = NoFile /\ \A y \in Names : y # x => lib'[y] = lib[y]
        BY <1>2, <1>6 DEF Typed, TypeOK
  <2>2. HasOriginal(n)' <=> HasOriginal(n)
        BY <1>2, <1>3, <1>6, <2>1 DEF HasOriginal, Original
  <2>3. CASE lib[n] = NoFile
    <3>1. HasCopy(n)'
      <4>1. HasCopy(Path(rrec[r]))' BY <1>1, <1>6, <2>3 DEF Replaced
      <4>2. Path(rrec[r])' = n BY <1>1, <1>6 DEF Drop, Path, rowVars, recordVars
      <4> QED BY <4>1, <4>2
    <3> QED BY <1>6, <2>1, <2>2, <3>1, OneFilmStep
  <2>4. CASE lib[n] # NoFile
    <3>1. HasOriginal(n) /\ HasOriginal(n)'
          BY <1>3, <2>2, <2>4 DEF HasOriginal
    <3>2. HasCopy(n)' => HasCopy(n) BY <1>3, <2>1, <2>4, CopyGone
    <3> QED BY <1>6, <2>1, <3>1, <3>2, OneFilmStep
  <2> QED BY <2>3, <2>4
<1>7. CASE Remove(r) /\ held' = [held EXCEPT ![n] = NoFile] /\ lib' = lib
  <2>1. /\ held'[n] = NoFile
        /\ \A m \in Sources \ {n} : held'[m] = held[m]
        BY <1>7 DEF Typed, TypeOK
  <2>2. CASE held[n] = NoFile
    <3>1. HasOriginal(n)' <=> HasOriginal(n)
          BY <1>7, <2>1, <2>2 DEF HasOriginal, Original
    <3>2. HasCopy(n)' <=> HasCopy(n) BY <1>7 DEF HasCopy, Copy
    <3> QED BY <1>7, <2>1, <3>1, <3>2, OneFilmStep
  <2>3. CASE held[n] # NoFile
    <3>1. HasCopy(n) /\ HasCopy(n)'
          BY <1>7, <2>3 DEF HasCopy, Copy, Backed
    <3>2. HasOriginal(n) BY <1>3, <2>3 DEF HasOriginal
    <3> QED BY <1>7, <2>1, <3>1, <3>2, OneFilmStep
  <2> QED BY <2>2, <2>3
<1> QED BY <1>1, <1>2, <1>4, <1>5, <1>6, <1>7 DEF Move, Drop, Remove

\* Every step is a step of Custody, or none.
LEMMA KeepsStep ==
    ASSUME NamesApart, OutputsDiffer, Typed, Safe, Facing, Filed, Backed,
           Telling, Telling', [Next]_vars,
           \A r \in Reviewers : Drop(r) => Replaced(r)
    PROVE  Found' = Found \/ Safekeeping!Next
<1> USE DEF diskVars
<1>1. CASE UNCHANGED vars BY <1>1, NoFileMoves DEF vars
<1>2. CASE \/ \E n \in Sources : Enqueue(n)
           \/ \E u \in Users : Ask(u)
           \/ Expire \/ Sweep \/ ClearRecords \/ ClearRows \/ Crash
      BY <1>2, NoFileMoves DEF Enqueue, Ask, Expire, Sweep, List, TakeNext,
                               ClearRecords, ClearRows, Crash
<1>3. ASSUME NEW w \in Workers, Work(w)
      PROVE  Found' = Found \/ Safekeeping!Next
      BY <1>3, NoFileMoves, WorkKeeps
      DEF Work, Claim, Encode, Choose, Record, Stage
<1>4. ASSUME NEW r \in Reviewers, Review(r)
      PROVE  Found' = Found \/ Safekeeping!Next
      BY <1>4, NoFileMoves, ReviewKeeps DEF Review, Mark, Conclude
<1> QED BY <1>1, <1>2, <1>3, <1>4 DEF Next

\* With the rows and the records in step, a review finds what it needs.
LEMMA InvBacks ==
    ASSUME Inv
    PROVE  Backed /\ \A r \in Reviewers : Drop(r) => Replaced(r)
<1>1. Backed BY DEF Backed, HasCopy, Inv, Copies
<1>2. ASSUME NEW r \in Reviewers, Drop(r) PROVE lib[Path(rrec[r])] # NoFile
      BY <1>2 DEF Drop, Inv, Recs, Undone, Undoing
<1> QED BY <1>1, <1>2 DEF Replaced

\* The films start in the custody of their users.
LEMMA KeepsStart == NamesApart /\ OutputsDiffer /\ Init => Safekeeping!Init
<1> SUFFICES ASSUME NamesApart, OutputsDiffer, Init PROVE Safekeeping!Init
    OBVIOUS
<1>1. Telling
      BY TypedStart, SafeStart, FacingStart, RowsStart, RecsStart,
         CopiesStart, InvTells
      DEF Inv, Init
<1>2. ASSUME NEW f \in Films PROVE HasOriginal(f) /\ ~HasCopy(f)
  <2>1. lib[f] = Original(f) BY NamesAssumption DEF Init, Original
  <2>2. ASSUME f \in Sources, NEW x \in Outs(f) \ {f} PROVE lib[x] = NoFile
        BY <2>2, OutputsApart, OutputNames DEF Init
  <2>3. NoFile # Copy(f) BY NamesAssumption DEF Copy, Content
  <2> QED BY <2>1, <2>2, <2>3 DEF HasOriginal, HasCopy
<1>3. ASSUME NEW f \in Films PROVE OnDiskOf(f) = {"original"}
      BY <1>1, <1>2 DEF Telling, OnDiskOf
<1> QED BY <1>3 DEF Safekeeping!Init, OnDiskOf

\* The specification of Custody, implemented: any number of workers and
\* requests, any call but the process itself failing.
THEOREM StagingIsCustody ==
    NamesApart /\ OutputsDiffer /\ Undisturbed /\ Spec => CustodyKept
<1>1. NamesApart /\ OutputsDiffer /\ Init => Safekeeping!Init BY KeepsStart
<1>2. NamesApart /\ OutputsDiffer /\ Inv => Telling BY InvTells
<1>3. ASSUME NamesApart, OutputsDiffer
      PROVE  Inv /\ Telling /\ Telling' /\ [Next]_vars
             => (Found' = Found \/ Safekeeping!Next)
      BY <1>3, InvTells, InvBacks, KeepsStep DEF Inv
<1>4. (Found' = Found \/ Safekeeping!Next) =>
          [Safekeeping!Next]_([f \in Films |->
              {k \in {"original", "encoded"} :
                   OnDisk([film |-> f, kind |-> k])}])
      BY DEF Found, OnDiskOf
<1>5. CASE NamesApart /\ OutputsDiffer /\ Undisturbed
      BY <1>1, <1>2, <1>3, <1>4, <1>5, InvAlways, PTL
      DEF Spec, CustodyKept, Safekeeping!Spec
<1>6. CASE ~(NamesApart /\ OutputsDiffer /\ Undisturbed) BY <1>6
<1> QED BY <1>5, <1>6

-----------------------------------------------------------------------------
(* One worker, while the process may die and the history be cleared at any  *)
(* moment. Rows and records no longer tell what lies on the disk: a restore *)
(* may be repeated, and outlive the run it undoes. What remains is that     *)
(* there are as many encoded copies of a film as there are steps under way  *)
(* that will do without one of them.                                        *)

Enough(S, T) ==
    /\ IsFiniteSet(S) /\ IsFiniteSet(T)
    /\ Cardinality(S) <= Cardinality(T)

\* Fewer claims, more copies.
LEMMA EnoughLeft ==
    ASSUME NEW S, NEW T, Enough(S, T), NEW S2 \in SUBSET S,
           NEW T2, T \subseteq T2, IsFiniteSet(T2)
    PROVE  Enough(S2, T2)
<1>1. IsFiniteSet(S2) /\ Cardinality(S2) <= Cardinality(S)
      BY FS_Subset DEF Enough
<1>2. Cardinality(T) <= Cardinality(T2) BY FS_Subset
<1>3. /\ Cardinality(S) \in Nat /\ Cardinality(T) \in Nat
      /\ Cardinality(S2) \in Nat /\ Cardinality(T2) \in Nat
      BY <1>1, FS_CardinalityType DEF Enough
<1>4. Cardinality(S) <= Cardinality(T) BY DEF Enough
<1>5. Cardinality(S2) <= Cardinality(T2) BY <1>1, <1>2, <1>3, <1>4
<1> QED BY <1>1, <1>5 DEF Enough

\* One claim takes the place of another.
LEMMA EnoughSwapped ==
    ASSUME NEW S, NEW T, Enough(S, T), NEW a \in S, NEW b,
           NEW S2, S2 \subseteq (S \ {a}) \cup {b},
           NEW T2, T \subseteq T2, IsFiniteSet(T2)
    PROVE  Enough(S2, T2)
<1> DEFINE R == S \ {a}
<1>1. IsFiniteSet(R) /\ Cardinality(R) = Cardinality(S) - 1
      BY FS_RemoveElement DEF Enough
<1>2. /\ IsFiniteSet(R \cup {b})
      /\ Cardinality(R \cup {b}) \in {Cardinality(R), Cardinality(R) + 1}
      BY <1>1, FS_AddElement
<1>3. /\ Cardinality(S) \in Nat /\ Cardinality(T) \in Nat
      /\ Cardinality(S) <= Cardinality(T)
      BY FS_CardinalityType DEF Enough
<1>4. Cardinality(R \cup {b}) <= Cardinality(T) BY <1>1, <1>2, <1>3
<1>5. Enough(R \cup {b}, T) BY <1>2, <1>4 DEF Enough
<1> QED BY <1>5, EnoughLeft

\* A claim is settled by doing away with one copy.
LEMMA EnoughSpent ==
    ASSUME NEW S, NEW T, Enough(S, T), NEW a \in S,
           NEW S2, S2 \subseteq S \ {a},
           NEW T2, NEW x, T \subseteq T2 \cup {x}, IsFiniteSet(T2)
    PROVE  Enough(S2, T2)
<1>1. IsFiniteSet(S \ {a}) /\ Cardinality(S \ {a}) = Cardinality(S) - 1
      BY FS_RemoveElement DEF Enough
<1>2. /\ IsFiniteSet(T \ {x})
      /\ Cardinality(T \ {x}) \in {Cardinality(T), Cardinality(T) - 1}
      BY FS_RemoveElement DEF Enough
<1>3. /\ Cardinality(S) \in Nat /\ Cardinality(T) \in Nat
      /\ Cardinality(S) <= Cardinality(T)
      BY FS_CardinalityType DEF Enough
<1>4. Cardinality(S \ {a}) <= Cardinality(T \ {x}) BY <1>1, <1>2, <1>3
<1>5. Enough(S \ {a}, T \ {x}) BY <1>1, <1>2, <1>4 DEF Enough
<1> QED BY <1>5, EnoughLeft

\* A new claim comes with a new copy.
LEMMA EnoughGained ==
    ASSUME NEW S, NEW T, Enough(S, T), NEW b,
           NEW S2, S2 \subseteq S \cup {b},
           NEW x, x \notin T, NEW T2, T \cup {x} \subseteq T2, IsFiniteSet(T2)
    PROVE  Enough(S2, T2)
<1>1. /\ IsFiniteSet(S \cup {b})
      /\ Cardinality(S \cup {b}) \in {Cardinality(S), Cardinality(S) + 1}
      BY FS_AddElement DEF Enough
<1>2. /\ IsFiniteSet(T \cup {x})
      /\ Cardinality(T \cup {x}) = Cardinality(T) + 1
      BY FS_AddElement DEF Enough
<1>3. /\ Cardinality(S) \in Nat /\ Cardinality(T) \in Nat
      /\ Cardinality(S) <= Cardinality(T)
      BY FS_CardinalityType DEF Enough
<1>4. Cardinality(S \cup {b}) <= Cardinality(T \cup {x})
      BY <1>1, <1>2, <1>3
<1>5. Enough(S \cup {b}, T \cup {x}) BY <1>1, <1>2, <1>4 DEF Enough
<1> QED BY <1>5, EnoughLeft

\* A film has finitely many output names.
LEMMA OutsFinite == ASSUME NEW n \in Sources PROVE IsFiniteSet(Outs(n))
<1> DEFINE c == Candidates[n]
           T == {c[i] : i \in DOMAIN c}
<1>1. PICK m \in Nat : c \in [1 .. m -> Names]
      BY NamesAssumption
<1>2. IsFiniteSet(1 .. m)
  <2>1. 1 \in Int /\ m \in Int OBVIOUS
  <2> QED BY <2>1, FS_Interval
<1>3. c \in Surjection(1 .. m, T) BY <1>1 DEF Surjection
<1>4. IsFiniteSet(T) BY <1>2, <1>3, FS_Surjection
<1>5. Outs(n) = T \cup {Fallback[n]} BY DEF Outs
<1> QED BY <1>4, <1>5, FS_AddElement

-----------------------------------------------------------------------------

\* The encoded copies of a film.
CopiesOf(n) == {x \in Outs(n) \ {n} : lib[x] = Copy(n)}

\* The steps that count on one: a restore that is about to drop a copy, a job
\* that will drop its copy if the original cannot be moved, and the original
\* itself when it is not in the library.
Dropping(n) == {r \in Reviewers : rpc[r] = "drop" /\ Path(rrec[r]) = n}
Holding(n) == {w \in Workers : wpc[w] = "hold" /\ On(w) = n}
Missing(n) == {m \in {n} : lib[m] = NoFile}
Due(n) == ({"drop"} \X Dropping(n)) \cup ({"hold"} \X Holding(n))
          \cup ({"gone"} \X Missing(n))

Covered == \A n \in Films \cap Sources : Enough(Due(n), CopiesOf(n))

\* The name a worker is about to use is still free.
Fresh == \A w \in Workers : wpc[w] = "place" => lib[wout[w]] = NoFile

\* OutputPath finds a free name. (It tries a hundred and then settles for one
\* that may be taken, rename.go:34-48.)
NamesLeft ==
    \A w \in Workers : wpc[w] = "name" => lib[OutputPath(On(w))] = NoFile

Accounted == Typed /\ Safe /\ Facing /\ Filed /\ Fresh /\ Covered


\* Every film is in its place at the start, and nobody counts on a copy.
LEMMA AccountedStart == NamesApart /\ Init => Accounted
<1> SUFFICES ASSUME NamesApart, Init PROVE Accounted OBVIOUS
<1>1. Typed /\ Safe /\ Facing BY TypedStart, SafeStart, FacingStart
<1>2. Filed BY CopiesStart DEF Copies, Filed
<1>3. Fresh BY DEF Init, Fresh
<1>4. ASSUME NEW n \in Films \cap Sources
      PROVE  Enough(Due(n), CopiesOf(n))
  <2>1. lib[n] # NoFile
    <3>1. n \in Names /\ [film |-> n, kind |-> "original"] \in Content
          BY NamesAssumption DEF Content
    <3> QED BY <3>1, NamesAssumption DEF Init
  <2>2. Due(n) = {}
        BY <2>1 DEF Due, Dropping, Holding, Missing, Init
  <2>3. IsFiniteSet(CopiesOf(n)) BY OutsFinite, FS_Subset DEF CopiesOf
  <2>4. Cardinality(CopiesOf(n)) \in Nat BY <2>3, FS_CardinalityType
  <2> QED BY <2>2, <2>3, <2>4, FS_EmptySet DEF Enough
<1> QED BY <1>1, <1>2, <1>3, <1>4 DEF Accounted, Covered

\* What a step leaves of the claims on a film's copies.
LEMMA DueLess ==
    ASSUME NEW n \in Sources,
           \A r \in Reviewers :
               rpc'[r] = "drop" /\ path'[owner'[rrec'[r]]] = n
               => rpc[r] = "drop" /\ Path(rrec[r]) = n,
           \A w \in Workers :
               wpc'[w] = "hold" /\ path'[wjob'[w]] = n
               => wpc[w] = "hold" /\ On(w) = n,
           lib'[n] = NoFile => lib[n] = NoFile
    PROVE  Due(n)' \subseteq Due(n)
<1>1. /\ Dropping(n)' \subseteq Dropping(n)
      /\ Holding(n)' \subseteq Holding(n)
      /\ Missing(n)' \subseteq Missing(n)
      BY DEF Dropping, Holding, Missing, Path, On
<1> QED BY <1>1 DEF Due

\* A step that adds no claim on the copies of a film and takes none of them.
LEMMA FilmLeft ==
    ASSUME Covered, NEW n \in Films \cap Sources,
           Due(n)' \subseteq Due(n), CopiesOf(n) \subseteq CopiesOf(n)'
    PROVE  Enough(Due(n), CopiesOf(n))'
<1>1. Enough(Due(n), CopiesOf(n)) BY DEF Covered
<1>2. CopiesOf(n)' \subseteq Outs(n) BY DEF CopiesOf
<1>3. IsFiniteSet(CopiesOf(n)') BY <1>2, OutsFinite, FS_Subset
<1>4. Enough(Due(n)', CopiesOf(n)')
  <2> HIDE DEF Due, CopiesOf
  <2> QED BY <1>1, <1>3, EnoughLeft
<1> QED BY <1>4 DEF Enough

\* The rows and records a step leaves, for those who work on them.
Settled ==
    /\ \A r \in Reviewers : rpc'[r] = "drop" =>
           rpc[r] = "drop" /\ rrec'[r] = rrec[r]
    /\ \A w \in Workers : wpc'[w] = "hold" =>
           wpc[w] = "hold" /\ wjob'[w] = wjob[w]
    /\ \A o \in Originals : record[o] # "unborn" => owner'[o] = owner[o]
    /\ \A j \in Jobs : Born(j) => path'[j] = path[j]

\* They still work on the same film.
LEMMA SettledPaths ==
    ASSUME Typed, Settled
    PROVE  /\ \A r \in Reviewers : rpc'[r] = "drop" =>
                  /\ rpc[r] = "drop"
                  /\ path'[owner'[rrec'[r]]] = Path(rrec[r])
           /\ \A w \in Workers : wpc'[w] = "hold" =>
                  wpc[w] = "hold" /\ path'[wjob'[w]] = On(w)
<1>1. ASSUME NEW r \in Reviewers, rpc'[r] = "drop"
      PROVE  /\ rpc[r] = "drop"
             /\ path'[owner'[rrec'[r]]] = Path(rrec[r])
  <2>1. rpc[r] = "drop" /\ rrec'[r] = rrec[r] BY <1>1 DEF Settled
  <2>2. /\ rrec[r] \in Originals /\ record[rrec[r]] # "unborn"
        /\ owner[rrec[r]] \in Jobs
        BY <2>1, ReviewedRecord
  <2>3. Born(owner[rrec[r]]) BY <2>2 DEF Typed, Shape, Born
  <2> QED BY <2>1, <2>2, <2>3 DEF Settled, Path
<1>2. ASSUME NEW w \in Workers, wpc'[w] = "hold"
      PROVE  wpc[w] = "hold" /\ path'[wjob'[w]] = On(w)
  <2>1. wpc[w] = "hold" /\ wjob'[w] = wjob[w] BY <1>2 DEF Settled
  <2>2. wjob[w] \in Jobs /\ Born(wjob[w])
        BY <2>1 DEF Typed, Shape, Born
  <2> QED BY <2>1, <2>2 DEF Settled, On
<1> QED BY <1>1, <1>2

\* A step that touches no file in the library and starts nothing that counts
\* on a copy.
LEMMA CoveredFrame ==
    ASSUME Typed, Covered, Settled, lib' = lib
    PROVE  Covered'
<1> SUFFICES ASSUME NEW n \in Films \cap Sources
             PROVE  Enough(Due(n), CopiesOf(n))'
    BY DEF Covered
<1>1. /\ \A r \in Reviewers : rpc'[r] = "drop" =>
             /\ rpc[r] = "drop"
             /\ path'[owner'[rrec'[r]]] = Path(rrec[r])
      /\ \A w \in Workers : wpc'[w] = "hold" =>
             wpc[w] = "hold" /\ path'[wjob'[w]] = On(w)
      BY SettledPaths
<1>2. Due(n)' \subseteq Due(n) BY <1>1, DueLess
<1>3. CopiesOf(n) \subseteq CopiesOf(n)' BY DEF CopiesOf, Copy
<1> QED BY <1>2, <1>3, FilmLeft

\* A step that touches the files of one film.
LEMMA OneFilmCovered ==
    ASSUME NamesApart, OutputsDiffer, Typed, Covered, NEW n \in Sources,
           \A x \in Names : x \notin Outs(n) \cup {n} => lib'[x] = lib[x],
           \A r \in Reviewers :
               rpc'[r] = "drop" /\ path'[owner'[rrec'[r]]] # n
               => /\ rpc[r] = "drop"
                  /\ path'[owner'[rrec'[r]]] = Path(rrec[r]),
           \A w \in Workers :
               wpc'[w] = "hold" /\ path'[wjob'[w]] # n
               => wpc[w] = "hold" /\ path'[wjob'[w]] = On(w),
           n \in Films => Enough(Due(n), CopiesOf(n))'
    PROVE  Covered'
<1> SUFFICES ASSUME NEW m \in Films \cap Sources
             PROVE  Enough(Due(m), CopiesOf(m))'
    BY DEF Covered
<1>1. CASE m = n BY <1>1
<1>2. CASE m # n
  <2>1. m \in Names /\ m \notin Outs(n) /\ m \in Sources
        BY <1>2, NamesAssumption DEF NamesApart
  <2>2. lib'[m] = lib[m] BY <1>2, <2>1
  <2>3. \A x \in Outs(m) \ {m} : lib'[x] = lib[x]
    <3>1. \A x \in Outs(m) \ {m} : x \in Names /\ x # n
          BY <2>1, OutputNames, OutputsApart
    <3>2. \A x \in Outs(m) : x \notin Outs(n) BY <1>2, <2>1, OutputOf
    <3> QED BY <3>1, <3>2
  <2>4. Due(m)' \subseteq Due(m) BY <1>2, <2>1, <2>2, DueLess
  <2>5. CopiesOf(m) \subseteq CopiesOf(m)' BY <2>3 DEF CopiesOf, Copy
  <2> QED BY <2>4, <2>5, FilmLeft
<1> QED BY <1>1, <1>2


\* A worker's film is a film, in its place until it is moved.
LEMMA AtHand ==
    ASSUME Typed, Safe, Facing, NamesApart, NEW w \in Workers,
           wpc[w] \in {"place", "hold"}
    PROVE  /\ On(w) \in Films \cap Sources /\ On(w) \in Names
           /\ path[wjob[w]] = On(w) /\ wjob[w] \in Jobs /\ Born(wjob[w])
           /\ lib[On(w)] = Original(On(w)) /\ Original(On(w)) # NoFile
           /\ held[On(w)] = NoFile
           /\ wout[w] \in Outs(On(w)) \ {On(w)}
           /\ wout[w] \in Names /\ wout[w] \notin Films \cup Sources
<1>1. /\ wjob[w] \in Jobs /\ Born(wjob[w]) /\ On(w) \in Sources
      /\ path[wjob[w]] = On(w) /\ wout[w] \notin Films \cup Sources
      BY WorkersOutput DEF Named, Born
<1>2. lib[On(w)] # NoFile /\ wout[w] # On(w) /\ wout[w] \in Outs(On(w))
      BY DEF Safe, AtWork, Facing, Before, Named, Typed, Shape
<1>3. On(w) \in Names /\ wout[w] \in Names
      BY <1>1, <1>2, NamesAssumption, OutputNames
<1>4. lib[On(w)] = Original(On(w)) /\ held[On(w)] = NoFile
      BY <1>1, <1>2 DEF Safe, Places
<1>5. Original(On(w)) \in Content BY <1>2, <1>3, <1>4 DEF Typed, TypeOK
<1>6. On(w) \in Films BY <1>5 DEF Original, Content
<1> QED BY <1>1, <1>2, <1>3, <1>4, <1>6

\* The record a reviewer has read is of a film, and names an output of it.
LEMMA InReview ==
    ASSUME Typed, Safe, NamesApart, NEW r \in Reviewers, rpc[r] # "idle"
    PROVE  /\ Path(rrec[r]) \in Films \cap Sources
           /\ Path(rrec[r]) \in Names
           /\ output[rrec[r]] \in Outs(Path(rrec[r])) \ {Path(rrec[r])}
           /\ output[rrec[r]] \in Names
           /\ output[rrec[r]] \notin Films \cup Sources
<1>1. /\ Path(rrec[r]) \in Sources /\ output[rrec[r]] \in Names
      /\ output[rrec[r]] \notin Films \cup Sources
      /\ bytes[rrec[r]] = Original(Path(rrec[r]))
      BY ReviewedSafe
<1>2. /\ output[rrec[r]] \in Outs(Path(rrec[r]))
      /\ bytes[rrec[r]] \in Content
      BY ReviewedRecord
<1>3. Path(rrec[r]) \in Films BY <1>1, <1>2 DEF Original, Content
<1> QED BY <1>1, <1>2, <1>3, NamesAssumption

\* The output takes a free name: one claim more, one copy more.
LEMMA PlaceCovered ==
    ASSUME NamesApart, OutputsDiffer, Accounted, NEW w \in Workers, Place(w)
    PROVE  Covered'
<1> USE DEF rowVars, recordVars, reviewVars
<1>1. PICK n \in Films \cap Sources, x \in Names :
          /\ n = On(w) /\ x = wout[w] /\ path[wjob[w]] = n
          /\ n \in Names /\ wjob[w] \in Jobs /\ Born(wjob[w])
          /\ x \in Outs(n) \ {n}
      BY AtHand DEF Accounted, Place
<1>2. UNCHANGED <<path, owner, rpc, rrec>> BY DEF Place
<1>3. CASE lib' = lib /\ GiveUp(w)
  <2>1. Settled
        BY <1>2, <1>3
        DEF Settled, GiveUp, Leave, Accounted, Typed, TypeOK
  <2> QED BY <1>3, <2>1, CoveredFrame DEF Accounted
<1>4. CASE /\ tmp[n] # NoFile
           /\ lib' = [lib EXCEPT ![x] = tmp[n]]
           /\ wpc' = [wpc EXCEPT ![w] = "hold"]
           /\ UNCHANGED <<wjob, wout>>
  <2>1. tmp[n] = Copy(n) /\ lib[x] = NoFile
        BY <1>1, <1>4 DEF Accounted, Filed, Fresh, Place
  <2>2. /\ lib'[x] = Copy(n) /\ Copy(n) # NoFile
        /\ \A y \in Names : y # x => lib'[y] = lib[y]
        BY <1>1, <1>4, <2>1 DEF Accounted, Typed, TypeOK
  <2>3. /\ \A r \in Reviewers : /\ rpc'[r] = rpc[r]
                                /\ path'[owner'[rrec'[r]]] = Path(rrec[r])
        /\ \A v \in Workers : path'[wjob'[v]] = On(v)
        /\ \A v \in Workers \ {w} : wpc'[v] = wpc[v]
        BY <1>2, <1>4 DEF Path, On, Accounted, Typed, TypeOK
  <2>4. Due(n)' \subseteq Due(n) \cup {<<"hold", w>>}
    <3>1. Dropping(n)' \subseteq Dropping(n)
          BY <2>3 DEF Dropping, Path
    <3>2. Holding(n)' \subseteq Holding(n) \cup {w}
          BY <2>3 DEF Holding, On
    <3>3. Missing(n)' \subseteq Missing(n)
          BY <1>1, <2>2 DEF Missing
    <3> QED BY <3>1, <3>2, <3>3 DEF Due
  <2>5. x \notin CopiesOf(n) BY <2>1, <2>2 DEF CopiesOf
  <2>6. CopiesOf(n) \cup {x} \subseteq CopiesOf(n)'
    <3>1. \A y \in Outs(n) : y \in Names BY <1>1, OutputNames
    <3> QED BY <1>1, <2>2, <3>1 DEF CopiesOf, Copy
  <2>7. Enough(Due(n), CopiesOf(n))'
    <3>1. Enough(Due(n), CopiesOf(n)) BY <1>1 DEF Accounted, Covered
    <3>2. CopiesOf(n)' \subseteq Outs(n) BY DEF CopiesOf
    <3>3. IsFiniteSet(CopiesOf(n)') BY <1>1, <3>2, OutsFinite, FS_Subset
    <3>4. Enough(Due(n)', CopiesOf(n)')
      <4> HIDE DEF Due, CopiesOf
      <4> QED BY <3>1, <3>3, <2>4, <2>5, <2>6, EnoughGained
    <3> QED BY <3>4 DEF Enough
  <2>8. \A y \in Names : y \notin Outs(n) \cup {n} => lib'[y] = lib[y]
        BY <1>1, <2>2
  <2>9. \A v \in Workers : wpc'[v] = "hold" /\ path'[wjob'[v]] # n
                           => wpc[v] = "hold" /\ path'[wjob'[v]] = On(v)
        BY <1>1, <2>3
  <2> QED BY <1>1, <2>3, <2>7, <2>8, <2>9, OneFilmCovered DEF Accounted
<1> QED BY <1>1, <1>3, <1>4 DEF Place, Advance

\* The original goes: the claim of the job becomes that of the original. Or
\* it cannot be moved, and the job gives up its claim and its copy.
LEMMA HoldCovered ==
    ASSUME NamesApart, OutputsDiffer, Accounted, NEW w \in Workers, Hold(w)
    PROVE  Covered'
<1> USE DEF rowVars, recordVars, reviewVars
<1>1. PICK n \in Films \cap Sources, x \in Names :
          /\ n = On(w) /\ x = wout[w] /\ path[wjob[w]] = n
          /\ n \in Names /\ wpc[w] = "hold" /\ lib[n] # NoFile
          /\ x \in Outs(n) \ {n}
      BY AtHand DEF Accounted, Hold
<1>2. UNCHANGED <<path, owner, rpc, rrec>> BY DEF Hold
<1>3. \A v \in Workers : wpc'[v] = "hold" =>
          /\ v # w /\ wpc[v] = "hold" /\ path'[wjob'[v]] = On(v)
  <2>1. CASE wpc' = [wpc EXCEPT ![w] = "record"] /\ wjob' = wjob
        BY <1>2, <2>1 DEF On, Accounted, Typed, TypeOK
  <2>2. CASE Leave(w)
        BY <1>2, <2>2 DEF Leave, On, Accounted, Typed, TypeOK
  <2> QED BY <2>1, <2>2 DEF Hold, Advance, GiveUp
<1>4. PICK a \in Due(n) : a = <<"hold", w>>
      BY <1>1 DEF Due, Holding
<1>11. Enough(Due(n), CopiesOf(n)) BY <1>1 DEF Accounted, Covered
<1>5. /\ Dropping(n)' \subseteq Dropping(n)
      /\ Holding(n)' \subseteq Holding(n) \ {w}
  <2>1. Dropping(n)' \subseteq Dropping(n) BY <1>2 DEF Dropping, Path
  <2> QED BY <1>3, <2>1 DEF Holding, On
<1>6. /\ \A r \in Reviewers : rpc'[r] = "drop" =>
             /\ rpc[r] = "drop" /\ path'[owner'[rrec'[r]]] = Path(rrec[r])
      /\ \A y \in Outs(n) : y \in Names
      BY <1>1, <1>2, OutputNames DEF Path
<1>7. CopiesOf(n)' \subseteq Outs(n) BY DEF CopiesOf
<1>8. IsFiniteSet(CopiesOf(n)') BY <1>1, <1>7, OutsFinite, FS_Subset
<1>9. CASE lib' = [lib EXCEPT ![n] = NoFile]
  <2>1. \A y \in Names : y # n => lib'[y] = lib[y]
        BY <1>1, <1>9 DEF Accounted, Typed, TypeOK
  <2>2. Due(n)' \subseteq (Due(n) \ {a}) \cup {<<"gone", n>>}
        BY <1>4, <1>5 DEF Due, Missing
  <2>3. CopiesOf(n) \subseteq CopiesOf(n)' BY <1>6, <2>1 DEF CopiesOf, Copy
  <2>4. Enough(Due(n)', CopiesOf(n)')
    <3> HIDE DEF Due, CopiesOf
    <3> QED BY <1>11, <1>8, <2>2, <2>3, EnoughSwapped
  <2>5. Enough(Due(n), CopiesOf(n))' BY <2>4 DEF Enough
  <2> QED BY <1>1, <1>3, <1>6, <2>1, <2>5, OneFilmCovered DEF Accounted
<1>10. CASE lib' = [lib EXCEPT ![x] = NoFile]
  <2>1. \A y \in Names : y # x => lib'[y] = lib[y]
        BY <1>1, <1>10 DEF Accounted, Typed, TypeOK
  <2>2. Due(n)' \subseteq Due(n) \ {a}
    <3>1. Missing(n)' \subseteq Missing(n) BY <1>1, <2>1 DEF Missing
    <3> QED BY <1>4, <1>5, <3>1 DEF Due
  <2>3. CopiesOf(n) \subseteq CopiesOf(n)' \cup {x}
        BY <1>6, <2>1 DEF CopiesOf, Copy
  <2>4. Enough(Due(n)', CopiesOf(n)')
    <3> HIDE DEF Due, CopiesOf
    <3> QED BY <1>11, <1>8, <2>2, <2>3, EnoughSpent
  <2>5. Enough(Due(n), CopiesOf(n))' BY <2>4 DEF Enough
  <2> QED BY <1>1, <1>3, <1>6, <2>1, <2>5, OneFilmCovered DEF Accounted
<1> QED BY <1>1, <1>9, <1>10 DEF Hold


\* The original comes back: its claim becomes that of the restore.
LEMMA MoveCovered ==
    ASSUME NamesApart, OutputsDiffer, Accounted, NEW r \in Reviewers, Move(r)
    PROVE  Covered'
<1> USE DEF rowVars, recordVars, workVars
<1>1. PICK n \in Films \cap Sources :
          n = Path(rrec[r]) /\ n \in Names /\ rpc[r] = "move"
      BY InReview DEF Accounted, Move
<1>2. UNCHANGED <<path, owner, wpc, wjob>> BY DEF Move
<1>3. CASE UNCHANGED lib /\ End(r)
  <2>1. Settled BY <1>2, <1>3 DEF Settled, End, Accounted, Typed, TypeOK
  <2> QED BY <1>3, <2>1, CoveredFrame DEF Accounted
<1>4. CASE /\ held[n] # NoFile
           /\ lib' = [lib EXCEPT ![n] = held[n]]
           /\ rpc' = [rpc EXCEPT ![r] = "drop"] /\ UNCHANGED rrec
  <2>1. lib[n] = NoFile
        BY <1>1, <1>4 DEF Accounted, Safe, Places
  <2>2. /\ lib'[n] # NoFile
        /\ \A y \in Names : y # n => lib'[y] = lib[y]
        BY <1>1, <1>4 DEF Accounted, Typed, TypeOK
  <2>3. /\ \A q \in Reviewers : path'[owner'[rrec'[q]]] = Path(rrec[q])
        /\ \A q \in Reviewers \ {r} : rpc'[q] = rpc[q]
        /\ \A w \in Workers : /\ wpc'[w] = wpc[w]
                              /\ path'[wjob'[w]] = On(w)
        BY <1>2, <1>4 DEF Path, On, Accounted, Typed, TypeOK
  <2>4. PICK a \in Due(n) : a = <<"gone", n>>
        BY <2>1 DEF Due, Missing
  <2>5. Due(n)' \subseteq (Due(n) \ {a}) \cup {<<"drop", r>>}
    <3>1. Dropping(n)' \subseteq Dropping(n) \cup {r}
          BY <2>3 DEF Dropping, Path
    <3>2. Holding(n)' \subseteq Holding(n) BY <2>3 DEF Holding, On
    <3>3. Missing(n)' = {} BY <2>2 DEF Missing
    <3> QED BY <2>4, <3>1, <3>2, <3>3 DEF Due
  <2>6. CopiesOf(n) \subseteq CopiesOf(n)'
    <3>1. \A y \in Outs(n) : y \in Names BY OutputNames
    <3> QED BY <2>2, <3>1 DEF CopiesOf, Copy
  <2>7. Enough(Due(n), CopiesOf(n)) BY DEF Accounted, Covered
  <2>8. Enough(Due(n)', CopiesOf(n)')
    <3>1. CopiesOf(n)' \subseteq Outs(n) BY DEF CopiesOf
    <3>2. IsFiniteSet(CopiesOf(n)') BY <3>1, OutsFinite, FS_Subset
    <3> HIDE DEF Due, CopiesOf
    <3> QED BY <2>5, <2>6, <2>7, <3>2, EnoughSwapped
  <2>9. Enough(Due(n), CopiesOf(n))' BY <2>8 DEF Enough
  <2>10. \A q \in Reviewers :
             rpc'[q] = "drop" /\ path'[owner'[rrec'[q]]] # n
             => rpc[q] = "drop"
         BY <1>1, <2>3
  <2> QED BY <1>1, <2>2, <2>3, <2>9, <2>10, OneFilmCovered DEF Accounted
<1> QED BY <1>1, <1>3, <1>4 DEF Move, Step

\* The restore settles its claim.
LEMMA DropCovered ==
    ASSUME NamesApart, OutputsDiffer, Accounted, NEW r \in Reviewers, Drop(r)
    PROVE  Covered'
<1> USE DEF rowVars, recordVars, workVars
<1>1. PICK n \in Films \cap Sources, x \in Names :
          /\ n = Path(rrec[r]) /\ n \in Names /\ rpc[r] = "drop"
          /\ x = output[rrec[r]] /\ x \in Outs(n) \ {n}
      BY InReview DEF Accounted, Drop
<1>2. UNCHANGED <<path, owner, wpc, wjob, rrec>> BY DEF Drop
<1>3. rpc' = [rpc EXCEPT ![r] = "markRestored"] BY DEF Drop, Step
<1>4. CASE UNCHANGED lib
  <2>1. Settled BY <1>2, <1>3 DEF Settled, Accounted, Typed, TypeOK
  <2> QED BY <1>4, <2>1, CoveredFrame DEF Accounted
<1>5. CASE lib' = [lib EXCEPT ![x] = NoFile]
  <2>1. \A y \in Names : y # x => lib'[y] = lib[y]
        BY <1>5 DEF Accounted, Typed, TypeOK
  <2>2. /\ \A q \in Reviewers : path'[owner'[rrec'[q]]] = Path(rrec[q])
        /\ \A q \in Reviewers : rpc'[q] = "drop" => q # r /\ rpc[q] = "drop"
        /\ \A w \in Workers : /\ wpc'[w] = wpc[w]
                              /\ path'[wjob'[w]] = On(w)
        BY <1>2, <1>3 DEF Path, On, Accounted, Typed, TypeOK
  <2>3. PICK a \in Due(n) : a = <<"drop", r>>
        BY <1>1 DEF Due, Dropping
  <2>4. Due(n)' \subseteq Due(n) \ {a}
    <3>1. Dropping(n)' \subseteq Dropping(n) \ {r}
          BY <2>2 DEF Dropping, Path
    <3>2. Holding(n)' \subseteq Holding(n) BY <2>2 DEF Holding, On
    <3>3. Missing(n)' \subseteq Missing(n) BY <1>1, <2>1 DEF Missing
    <3> QED BY <2>3, <3>1, <3>2, <3>3 DEF Due
  <2>5. CopiesOf(n) \subseteq CopiesOf(n)' \cup {x}
    <3>1. \A y \in Outs(n) : y \in Names BY OutputNames
    <3> QED BY <2>1, <3>1 DEF CopiesOf, Copy
  <2>6. Enough(Due(n), CopiesOf(n)) BY DEF Accounted, Covered
  <2>7. Enough(Due(n)', CopiesOf(n)')
    <3>1. CopiesOf(n)' \subseteq Outs(n) BY DEF CopiesOf
    <3>2. IsFiniteSet(CopiesOf(n)') BY <3>1, OutsFinite, FS_Subset
    <3> HIDE DEF Due, CopiesOf
    <3> QED BY <2>4, <2>5, <2>6, <3>2, EnoughSpent
  <2>8. Enough(Due(n), CopiesOf(n))' BY <2>7 DEF Enough
  <2> QED BY <1>1, <2>1, <2>2, <2>8, OneFilmCovered DEF Accounted
<1> QED BY <1>1, <1>4, <1>5 DEF Drop

\* Every step leaves a copy for each claim.
LEMMA CoveredNext ==
    ASSUME NamesApart, OutputsDiffer, Accounted, [Next]_vars
    PROVE  Covered'
<1> USE DEF diskVars, rowVars, recordVars, workVars, reviewVars
<1>1. ASSUME Settled, lib' = lib PROVE Covered'
      BY <1>1, CoveredFrame DEF Accounted
<1>2. CASE UNCHANGED vars
  <2>1. Settled BY <1>2 DEF Settled, vars
  <2> QED BY <1>1, <1>2, <2>1 DEF vars
<1>3. ASSUME NEW n \in Sources, Enqueue(n) PROVE Covered'
  <2>1. Settled
        BY <1>3 DEF Settled, Enqueue, Born, Accounted, Typed, TypeOK
  <2> QED BY <1>1, <1>3, <2>1 DEF Enqueue
<1>4. ASSUME NEW w \in Workers, Work(w) PROVE Covered'
  <2>1. CASE Claim(w)
    <3>1. Settled
          BY <2>1 DEF Settled, Claim, Advance, Accounted, Typed, TypeOK
    <3> QED BY <1>1, <2>1, <3>1 DEF Claim
  <2>2. CASE Encode(w)
    <3>1. \/ wpc' = [wpc EXCEPT ![w] = "name"] /\ UNCHANGED wjob
          \/ Leave(w)
          BY <2>2 DEF Encode, Advance, GiveUp
    <3>2. Settled
          BY <2>2, <3>1
          DEF Settled, Encode, Leave, Accounted, Typed, TypeOK
    <3> QED BY <1>1, <2>2, <3>2 DEF Encode
  <2>3. CASE Choose(w)
    <3>1. Settled
          BY <2>3 DEF Settled, Choose, Advance, Accounted, Typed, TypeOK
    <3> QED BY <1>1, <2>3, <3>1 DEF Choose
  <2>4. CASE Record(w)
    <3>1. \A o \in Originals : record[o] # "unborn" => owner'[o] = owner[o]
          BY <2>4 DEF Record, Accounted, Typed, TypeOK
    <3>2. Settled
          BY <2>4, <3>1 DEF Settled, Record, Advance, Accounted, Typed, TypeOK
    <3> QED BY <1>1, <2>4, <3>2 DEF Record
  <2>5. CASE Stage(w)
    <3>1. Settled
          BY <2>5 DEF Settled, Stage, Leave, Accounted, Typed, TypeOK
    <3> QED BY <1>1, <2>5, <3>1 DEF Stage
  <2> QED BY <1>4, <2>1, <2>2, <2>3, <2>4, <2>5, PlaceCovered, HoldCovered
          DEF Work
<1>5. ASSUME NEW r \in Reviewers, Review(r) PROVE Covered'
  <2>1. CASE Remove(r)
    <3>1. Settled
          BY <2>1 DEF Settled, Remove, Step, End, Accounted, Typed, TypeOK
    <3> QED BY <1>1, <2>1, <3>1 DEF Remove
  <2>2. CASE Mark(r)
    <3>1. Settled
          BY <2>2 DEF Settled, Mark, Step, Accounted, Typed, TypeOK
    <3> QED BY <1>1, <2>2, <3>1 DEF Mark
  <2>3. CASE Conclude(r)
    <3>1. Settled
          BY <2>3 DEF Settled, Conclude, End, Accounted, Typed, TypeOK
    <3> QED BY <1>1, <2>3, <3>1 DEF Conclude
  <2> QED BY <1>5, <2>1, <2>2, <2>3, MoveCovered, DropCovered DEF Review
<1>6. ASSUME NEW u \in Users, Ask(u) PROVE Covered'
  <2>1. Settled BY <1>6 DEF Settled, Ask, Accounted, Typed, TypeOK
  <2> QED BY <1>1, <1>6, <2>1 DEF Ask
<1>7. CASE Expire \/ Sweep
  <2>1. Settled
        BY <1>7
        DEF Settled, Expire, Sweep, List, TakeNext, Accounted, Typed, TypeOK
  <2> QED BY <1>1, <1>7, <2>1 DEF Expire, Sweep, List, TakeNext
<1>8. CASE ClearRecords \/ ClearRows
  <2>1. Settled BY <1>8 DEF Settled, ClearRecords, ClearRows
  <2> QED BY <1>1, <1>8, <2>1 DEF ClearRecords, ClearRows
<1>9. CASE Crash
  <2>1. Settled
    <3>1. PICK survivors \in SUBSET Users :
              /\ rpc' = [r \in Reviewers |->
                            IF r \in survivors THEN rpc[r] ELSE "idle"]
              /\ rrec' = [r \in Reviewers |->
                             IF r \in survivors THEN rrec[r] ELSE NoRecord]
          BY <1>9 DEF Crash
    <3>2. /\ \A r \in Reviewers : rpc'[r] = "drop" =>
                 rpc[r] = "drop" /\ rrec'[r] = rrec[r]
          /\ \A w \in Workers : wpc'[w] = "idle"
          /\ UNCHANGED <<owner, path>>
          BY <1>9, <3>1 DEF Crash
    <3> QED BY <3>2 DEF Settled
  <2> QED BY <1>1, <1>9, <2>1 DEF Crash
<1> QED BY <1>2, <1>3, <1>4, <1>5, <1>6, <1>7, <1>8, <1>9 DEF Next


Spare == Names \ (Films \cup Sources)

\* Only the renaming of an output fills a name that is no film's.
LEMMA OnlyPlaceFills ==
    ASSUME NamesApart, Typed, Safe, Facing, [Next]_vars,
           \A w \in Workers : ~Place(w)
    PROVE  \A x \in Spare : lib'[x] \in {lib[x], NoFile}
<1> USE DEF diskVars
<1>1. ASSUME lib' = lib PROVE \A x \in Spare : lib'[x] \in {lib[x], NoFile}
      BY <1>1
<1>2. CASE UNCHANGED vars BY <1>1, <1>2 DEF vars
<1>3. CASE \/ \E n \in Sources : Enqueue(n)
           \/ \E u \in Users : Ask(u)
           \/ Expire \/ Sweep \/ ClearRecords \/ ClearRows \/ Crash
      BY <1>1, <1>3 DEF Enqueue, Ask, Expire, Sweep, List, TakeNext,
                        ClearRecords, ClearRows, Crash
<1>4. ASSUME NEW w \in Workers, Work(w)
      PROVE  \A x \in Spare : lib'[x] \in {lib[x], NoFile}
  <2>1. CASE Hold(w)
    <3>1. path[wjob[w]] \in Films \cap Sources
          BY <2>1, AtHand DEF Hold
    <3>2. \/ lib' = [lib EXCEPT ![path[wjob[w]]] = NoFile]
          \/ lib' = [lib EXCEPT ![wout[w]] = NoFile]
          BY <2>1 DEF Hold
    <3> QED BY <3>1, <3>2 DEF Typed, TypeOK, Spare
  <2>2. CASE Claim(w) \/ Encode(w) \/ Choose(w) \/ Record(w) \/ Stage(w)
        BY <1>1, <2>2 DEF Claim, Encode, Choose, Record, Stage
  <2> QED BY <1>4, <2>1, <2>2 DEF Work
<1>5. ASSUME NEW r \in Reviewers, Review(r)
      PROVE  \A x \in Spare : lib'[x] \in {lib[x], NoFile}
  <2>1. CASE Move(r)
    <3>1. Path(rrec[r]) \in Films \cap Sources
          BY <2>1, InReview DEF Move
    <3> QED BY <2>1, <3>1 DEF Move, Typed, TypeOK, Spare
  <2>2. CASE Drop(r) BY <2>2 DEF Drop, Typed, TypeOK, Spare
  <2>3. CASE Remove(r) \/ Mark(r) \/ Conclude(r)
        BY <1>1, <2>3 DEF Remove, Mark, Conclude
  <2> QED BY <1>5, <2>1, <2>2, <2>3 DEF Review
<1> QED BY <1>2, <1>3, <1>4, <1>5 DEF Next

\* What a worker's temporary file holds.
LEMMA TmpNext ==
    ASSUME NamesApart, Typed, Safe, Filed, [Next]_vars
    PROVE  \A n \in Sources : tmp'[n] \in {NoFile, Copy(n)}
<1> USE DEF diskVars
<1>1. ASSUME tmp' = tmp PROVE \A n \in Sources : tmp'[n] \in {NoFile, Copy(n)}
      BY <1>1 DEF Filed
<1>2. ASSUME NEW w \in Workers, Encode(w) \/ Place(w)
      PROVE  \A n \in Sources : tmp'[n] \in {NoFile, Copy(n)}
  <2>1. PICK n \in Sources : n = path[wjob[w]]
        BY <1>2, WorkersOutput DEF Encode, Place
  <2>2. lib[n] # NoFile => Encoded(lib[n]) = Copy(n)
        BY DEF Safe, Places, Encoded, Original, Copy
  <2>3. \/ tmp' = [tmp EXCEPT ![n] = NoFile]
        \/ lib[n] # NoFile /\ tmp' = [tmp EXCEPT ![n] = Encoded(lib[n])]
        BY <1>2, <2>1 DEF Encode, Place
  <2> QED BY <2>2, <2>3 DEF Filed, Typed, TypeOK
<1>3. CASE UNCHANGED vars BY <1>1, <1>3 DEF vars
<1>4. ASSUME NEW w \in Workers, Work(w)
      PROVE  \A n \in Sources : tmp'[n] \in {NoFile, Copy(n)}
      BY <1>1, <1>2, <1>4 DEF Work, Claim, Choose, Hold, Record, Stage
<1>5. ASSUME NEW r \in Reviewers, Review(r)
      PROVE  \A n \in Sources : tmp'[n] \in {NoFile, Copy(n)}
      BY <1>1, <1>5 DEF Review, Move, Drop, Remove, Mark, Conclude
<1>6. CASE \/ \E n \in Sources : Enqueue(n)
           \/ \E u \in Users : Ask(u)
           \/ Expire \/ Sweep \/ ClearRecords \/ ClearRows \/ Crash
      BY <1>1, <1>6 DEF Enqueue, Ask, Expire, Sweep, List, TakeNext,
                        ClearRecords, ClearRows, Crash
<1> QED BY <1>3, <1>4, <1>5, <1>6 DEF Next

\* Every step leaves each encoded file under a name of its film.
LEMMA FiledNext ==
    ASSUME NamesApart, OutputsDiffer, Typed, Safe, Facing, Filed, [Next]_vars
    PROVE  Filed'
<1>1. \A n \in Sources : tmp'[n] \in {NoFile, Copy(n)} BY TmpNext
<1>2. \A n \in Sources : \A x \in Outs(n) \ {n} : x \in Spare
      BY OutputsApart, OutputNames DEF Spare
<1>3. CASE \A w \in Workers : ~Place(w)
  <2>1. \A x \in Spare : lib'[x] \in {lib[x], NoFile}
        BY <1>3, OnlyPlaceFills
  <2>2. \A n \in Sources : \A x \in Outs(n) \ {n} :
            lib'[x] \in {NoFile, Copy(n)}
        BY <1>2, <2>1 DEF Filed
  <2>3. \A x \in Spare :
            (\A n \in Sources : x \notin Outs(n)) => lib'[x] = NoFile
        BY <2>1 DEF Filed, Spare
  <2> QED BY <1>1, <2>2, <2>3 DEF Filed, Copy, Spare
<1>4. ASSUME NEW w \in Workers, Place(w) PROVE Filed'
  <2>1. PICK n \in Sources, x \in Names :
            n = path[wjob[w]] /\ x = wout[w] /\ x \in Outs(n) \ {n}
        BY <1>4, AtHand DEF Place
  <2>2. \/ lib' = lib
        \/ tmp[n] = Copy(n) /\ lib' = [lib EXCEPT ![x] = Copy(n)]
        BY <1>4, <2>1 DEF Place, Filed
  <2>3. \A y \in Names : lib'[y] = lib[y] \/ (y = x /\ lib'[y] = Copy(n))
        BY <2>2 DEF Typed, TypeOK
  <2>4. \A m \in Sources : \A y \in Outs(m) \ {m} :
            lib'[y] \in {NoFile, Copy(m)}
    <3> SUFFICES ASSUME NEW m \in Sources, NEW y \in Outs(m) \ {m}
                 PROVE  lib'[y] \in {NoFile, Copy(m)}
        OBVIOUS
    <3>1. y \in Names BY OutputNames
    <3>2. CASE y = x
      <4>1. m = n BY <2>1, <3>2, OutputOf
      <4> QED BY <2>3, <3>1, <4>1 DEF Filed
    <3>3. CASE y # x BY <2>3, <3>1, <3>3 DEF Filed
    <3> QED BY <3>2, <3>3
  <2>5. \A y \in Spare :
            (\A m \in Sources : y \notin Outs(m)) => lib'[y] = NoFile
        BY <2>1, <2>3 DEF Filed, Spare
  <2> QED BY <1>1, <2>4, <2>5 DEF Filed, Copy, Spare
<1> QED BY <1>3, <1>4

\* A name that was free when it was chosen is free when it is taken: there is
\* nobody else to take it.
LEMMA FreshNext ==
    ASSUME NamesApart, SingleWorker, NamesLeft, Typed, Safe, Facing, Fresh,
           [Next]_vars
    PROVE  Fresh'
<1> SUFFICES ASSUME NEW w \in Workers, wpc'[w] = "place"
             PROVE  lib'[wout'[w]] = NoFile
    BY DEF Fresh
<1>1. CASE Choose(w)
  <2>1. /\ wpc[w] = "name" /\ lib' = lib /\ On(w) = path[wjob[w]]
        /\ wout'[w] = OutputPath(path[wjob[w]])
        BY <1>1 DEF Choose, diskVars, Typed, TypeOK, On
  <2> QED BY <2>1 DEF NamesLeft
<1>2. CASE ~Choose(w)
  <2>1. wpc[w] = "place" /\ wout'[w] = wout[w]
    <3> USE DEF workVars
    <3>1. CASE UNCHANGED vars BY <3>1 DEF vars
    <3>2. ASSUME NEW v \in Workers, Work(v)
          PROVE  wpc[w] = "place" /\ wout'[w] = wout[w]
      <4>1. v = w BY DEF SingleWorker
      <4>2. CASE Claim(w)
            BY <4>2 DEF Claim, Advance, Typed, TypeOK
      <4>3. CASE Leave(w) BY <4>3 DEF Leave, Typed, TypeOK
      <4>4. CASE \E s \in {"name", "hold", "record", "stage"} : Advance(w, s)
            BY <4>4 DEF Advance, Typed, TypeOK
      <4> QED BY <1>2, <3>2, <4>1, <4>2, <4>3, <4>4
              DEF Work, Encode, Place, Hold, Record, Stage, GiveUp
    <3>3. ASSUME NEW r \in Reviewers, Review(r)
          PROVE  wpc[w] = "place" /\ wout'[w] = wout[w]
          BY <3>3 DEF Review, Move, Drop, Remove, Mark, Conclude
    <3>4. CASE Crash BY <3>4 DEF Crash
    <3>5. CASE \/ \E n \in Sources : Enqueue(n)
               \/ \E u \in Users : Ask(u)
               \/ Expire \/ Sweep \/ ClearRecords \/ ClearRows
          BY <3>5 DEF Enqueue, Ask, Expire, Sweep, List, TakeNext,
                      ClearRecords, ClearRows
    <3> QED BY <3>1, <3>2, <3>3, <3>4, <3>5 DEF Next
  <2>2. wout[w] \in Spare /\ lib[wout[w]] = NoFile
        BY <2>1, AtHand DEF Fresh, Spare
  <2>3. \A v \in Workers : ~Place(v)
    <3> SUFFICES ASSUME Place(w) PROVE FALSE BY DEF SingleWorker
    <3>1. CASE Leave(w) BY <3>1 DEF Leave, Typed, TypeOK
    <3>2. CASE Advance(w, "hold") BY <3>2 DEF Advance, Typed, TypeOK
    <3> QED BY <3>1, <3>2 DEF Place, GiveUp
  <2> QED BY <2>1, <2>2, <2>3, OnlyPlaceFills
<1> QED BY <1>1, <1>2

\* With one worker, and as long as it finds free names, the account holds.
LEMMA AccountedNext ==
    ASSUME NamesApart, OutputsDiffer, SingleWorker, NamesLeft, Accounted,
           [Next]_vars
    PROVE  Accounted'
<1>1. Alone /\ AloneInPlace BY DEF Alone, AloneInPlace, SingleWorker
<1> QED BY <1>1, TypedStep, SafeStep, FacingStep, FiledNext,
        FreshNext, CoveredNext
        DEF Accounted


\* There is a copy when somebody counts on one.
LEMMA EnoughForOne ==
    ASSUME NEW S, NEW T, Enough(S, T), NEW a \in S
    PROVE  T # {}
<1>1. IsFiniteSet(S) /\ IsFiniteSet(T) /\ Cardinality(S) <= Cardinality(T)
      BY DEF Enough
<1>2. Cardinality(S) \in Nat /\ Cardinality(S) # 0
      BY <1>1, FS_CardinalityType, FS_EmptySet
<1>3. T = {} => Cardinality(T) = 0 BY FS_EmptySet
<1> QED BY <1>1, <1>2, <1>3

\* When the original of a film is not in the library, a copy is.
LEMMA GoneHasCopy ==
    ASSUME NEW n \in Films \cap Sources
    PROVE  /\ Covered /\ lib[n] = NoFile => HasCopy(n)
           /\ Covered' /\ lib'[n] = NoFile => HasCopy(n)'
<1>1. ASSUME Covered, lib[n] = NoFile PROVE HasCopy(n)
  <2>1. <<"gone", n>> \in Due(n) BY <1>1 DEF Due, Missing
  <2>2. Enough(Due(n), CopiesOf(n)) BY <1>1 DEF Covered
  <2>3. CopiesOf(n) # {} BY <2>1, <2>2, EnoughForOne
  <2> QED BY <2>3 DEF CopiesOf, HasCopy
<1>2. ASSUME Covered', lib'[n] = NoFile PROVE HasCopy(n)'
  <2>1. <<"gone", n>> \in Due(n)' BY <1>2 DEF Due, Missing
  <2>2. Enough(Due(n)', CopiesOf(n)') BY <1>2 DEF Covered, Enough
  <2>3. CopiesOf(n)' # {} BY <2>1, <2>2, EnoughForOne
  <2> QED BY <2>3 DEF CopiesOf, HasCopy
<1> QED BY <1>1, <1>2

\* A review finds what it needs.
LEMMA AccountBacks ==
    ASSUME NamesApart, Accounted, Accounted'
    PROVE  Backed /\ \A r \in Reviewers : Drop(r) => Replaced(r)
<1>1. ASSUME NEW n \in Sources, held[n] # NoFile PROVE HasCopy(n)
  <2>1. held[n] = Original(n) /\ lib[n] = NoFile
        BY <1>1 DEF Accounted, Safe, Places
  <2>2. Original(n) \in Content
        BY <1>1, <2>1 DEF Accounted, Typed, TypeOK
  <2>3. n \in Films BY <2>2 DEF Original, Content
  <2> QED BY <2>1, <2>3, GoneHasCopy DEF Accounted
<1>2. ASSUME NEW r \in Reviewers, Drop(r), lib[Path(rrec[r])] = NoFile
      PROVE  HasCopy(Path(rrec[r]))'
  <2>1. PICK n \in Films \cap Sources :
            /\ n = Path(rrec[r]) /\ output[rrec[r]] # n /\ n \in Names
        BY <1>2, InReview DEF Accounted, Drop
  <2>2. lib'[n] = NoFile
        BY <1>2, <2>1 DEF Drop, Accounted, Typed, TypeOK
  <2>3. HasCopy(n)' BY <2>2, GoneHasCopy DEF Accounted
  <2>4. Path(rrec[r])' = n BY <1>2, <2>1 DEF Drop, Path, rowVars, recordVars
  <2> QED BY <2>3, <2>4
<1> QED BY <1>1, <1>2 DEF Backed, Replaced

\* The account says where the copies of every film are.
LEMMA AccountTells == NamesApart /\ OutputsDiffer /\ Accounted => Telling
BY WhatIsFound DEF Accounted, Telling

\* One worker implements Custody through crashes, failing calls, cleared
\* histories and overlapping requests, as long as OutputPath finds a free
\* name for every output.
THEOREM CustodyWhileNamesLast ==
    NamesApart /\ OutputsDiffer /\ SingleWorker /\ Spec /\ []NamesLeft
    => CustodyKept
<1>1. NamesApart /\ OutputsDiffer /\ Init => Safekeeping!Init BY KeepsStart
<1>2. NamesApart /\ Init => Accounted BY AccountedStart
<1>3. ASSUME NamesApart, OutputsDiffer, SingleWorker
      PROVE  NamesLeft /\ Accounted /\ [Next]_vars => Accounted'
      BY <1>3, AccountedNext
<1>4. NamesApart /\ OutputsDiffer /\ Accounted => Telling BY AccountTells
<1>5. ASSUME NamesApart, OutputsDiffer
      PROVE  /\ Accounted /\ Accounted' /\ Telling /\ Telling' /\ [Next]_vars
             => (Found' = Found \/ Safekeeping!Next)
      BY <1>5, AccountBacks, KeepsStep DEF Accounted
<1>6. (Found' = Found \/ Safekeeping!Next) =>
          [Safekeeping!Next]_([f \in Films |->
              {k \in {"original", "encoded"} :
                   OnDisk([film |-> f, kind |-> k])}])
      BY DEF Found, OnDiskOf
<1>7. CASE NamesApart /\ OutputsDiffer /\ SingleWorker
      BY <1>1, <1>2, <1>3, <1>4, <1>5, <1>6, <1>7, PTL
      DEF Spec, CustodyKept, Safekeeping!Spec
<1>8. CASE ~(NamesApart /\ OutputsDiffer /\ SingleWorker) BY <1>8
<1> QED BY <1>7, <1>8

-----------------------------------------------------------------------------
(* That it does find one follows from how often the film was enqueued: a    *)
(* row is run once, and once more for every crash, and a run makes at most  *)
(* one copy.                                                                *)

Attempts(n) == {j \in Jobs : path[j] = n}

\* No film is enqueued more often than it has names, crashes counted in.
FewAttempts ==
    \A n \in Sources :
        /\ IsFiniteSet(Attempts(n))
        /\ Cardinality(Attempts(n)) + crashes <= Cardinality(Outs(n) \ {n})

TakenUp(n) == {j \in Attempts(n) : status[j] \notin {"unborn", "pending"}}

Encoding(n) ==
    \E w \in Workers : wpc[w] \in {"encode", "name", "place"} /\ On(w) = n

\* A row that runs has a worker.
Manned ==
    \A j \in Jobs : status[j] = "running" =>
        \E w \in Workers : wpc[w] # "idle" /\ wjob[w] = j

\* A film has no more copies than there were runs. One under way may yet add
\* one.
Budget ==
    \A n \in Films \cap Sources :
        Cardinality(CopiesOf(n)) + (IF Encoding(n) THEN 1 ELSE 0)
           <= Cardinality(TakenUp(n)) + crashes

\* A name that is free is found.
LEMMA FreeIsFound ==
    ASSUME NEW n \in Sources, NEW x \in Outs(n), lib[x] = NoFile
    PROVE  lib[OutputPath(n)] = NoFile
<1> DEFINE free == {i \in DOMAIN Candidates[n] :
                        lib[Candidates[n][i]] = NoFile}
<1>1. PICK m \in Nat : DOMAIN Candidates[n] = 1 .. m
      BY NamesAssumption
<1>2. CASE free = {}
  <2>1. x = Fallback[n] BY <1>2 DEF Outs
  <2> QED BY <1>2, <2>1 DEF OutputPath
<1>3. CASE free # {}
  <2>1. \E i \in free : \A k \in free : i <= k
    <3>1. free \in SUBSET (1 .. m) BY <1>1
    <3> HIDE DEF free
    <3> QED BY <3>1, <1>3, Least
  <2> DEFINE first == CHOOSE i \in free : \A k \in free : i <= k
  <2>2. first \in free
    <3> HIDE DEF free
    <3> QED BY <2>1
  <2> QED BY <1>3, <2>2 DEF OutputPath
<1> QED BY <1>2, <1>3

\* The sizes that are compared.
LEMMA BudgetSizes ==
    ASSUME FewAttempts, Typed, NEW n \in Films \cap Sources
    PROVE  /\ IsFiniteSet(CopiesOf(n)) /\ IsFiniteSet(TakenUp(n))
           /\ Cardinality(CopiesOf(n)) \in Nat
           /\ Cardinality(TakenUp(n)) \in Nat
           /\ crashes \in Nat
<1>1. IsFiniteSet(CopiesOf(n)) BY OutsFinite, FS_Subset DEF CopiesOf
<1>2. IsFiniteSet(TakenUp(n)) BY FS_Subset DEF FewAttempts, TakenUp
<1>3. crashes \in Nat BY BoundsAssumption DEF Typed, TypeOK
<1> QED BY <1>1, <1>2, <1>3, FS_CardinalityType

\* As long as there are more names than runs, one is free.
LEMMA BudgetLeaves ==
    ASSUME NamesApart, FewAttempts, Accounted, Budget
    PROVE  NamesLeft
<1> SUFFICES ASSUME NEW w \in Workers, wpc[w] = "name"
             PROVE  lib[OutputPath(On(w))] = NoFile
    BY DEF NamesLeft
<1>1. PICK n \in Films \cap Sources : n = On(w)
  <2>1. On(w) \in Sources /\ lib[On(w)] # NoFile
        BY WorkersOutput DEF Accounted, Facing, Before
  <2>2. lib[On(w)] = Original(On(w)) /\ On(w) \in Names
        BY <2>1, NamesAssumption DEF Accounted, Safe, Places
  <2>3. Original(On(w)) \in Content
        BY <2>1, <2>2 DEF Accounted, Typed, TypeOK
  <2> QED BY <2>1, <2>3 DEF Original, Content
<1>2. Cardinality(CopiesOf(n)) + 1 <= Cardinality(TakenUp(n)) + crashes
      BY <1>1 DEF Budget, Encoding
<1>3. /\ IsFiniteSet(CopiesOf(n))
      /\ Cardinality(CopiesOf(n)) \in Nat /\ crashes \in Nat
      /\ Cardinality(TakenUp(n)) \in Nat
      BY BudgetSizes DEF Accounted
<1>4. /\ IsFiniteSet(Attempts(n))
      /\ Cardinality(Attempts(n)) + crashes <= Cardinality(Outs(n) \ {n})
      BY DEF FewAttempts
<1>5. /\ Cardinality(TakenUp(n)) <= Cardinality(Attempts(n))
      /\ Cardinality(Attempts(n)) \in Nat
      BY <1>4, FS_Subset, FS_CardinalityType DEF TakenUp
<1>6. Cardinality(Outs(n) \ {n}) \in Nat
      BY OutsFinite, FS_Subset, FS_CardinalityType
<1>7. Cardinality(CopiesOf(n)) # Cardinality(Outs(n) \ {n})
      BY <1>2, <1>3, <1>4, <1>5, <1>6
<1>8. PICK x \in Outs(n) \ {n} : x \notin CopiesOf(n)
      BY <1>7 DEF CopiesOf
<1>9. lib[x] = NoFile BY <1>8 DEF CopiesOf, Accounted, Filed
<1> QED BY <1>1, <1>8, <1>9, FreeIsFound


\* A row keeps its path.
LEMMA PathsStay ==
    ASSUME Typed, [Next]_vars
    PROVE  \A j \in Jobs : Born(j) => path'[j] = path[j]
<1> USE DEF rowVars
<1>1. ASSUME NEW n \in Sources, Enqueue(n)
      PROVE  \A j \in Jobs : Born(j) => path'[j] = path[j]
      BY <1>1 DEF Enqueue, Born, Typed, TypeOK
<1>2. ASSUME NEW w \in Workers, Work(w) PROVE path' = path
      BY <1>2 DEF Work, Claim, Encode, Choose, Place, Hold, Record, Stage
<1>3. ASSUME NEW r \in Reviewers, Review(r) PROVE path' = path
      BY <1>3 DEF Review, Move, Drop, Remove, Mark, Conclude
<1>4. CASE \/ \E u \in Users : Ask(u)
           \/ Expire \/ Sweep \/ ClearRecords \/ ClearRows \/ Crash
      BY <1>4 DEF Ask, Expire, Sweep, List, TakeNext, ClearRecords, ClearRows,
                  Crash
<1>5. CASE UNCHANGED vars BY <1>5 DEF vars
<1> QED BY <1>1, <1>2, <1>3, <1>4, <1>5 DEF Next

\* What a step does to the rows: none that was taken up waits again unless
\* the process dies.
LEMMA TakenUpStays ==
    ASSUME Typed, [Next]_vars, ~Crash
    PROVE  \A n \in Sources : TakenUp(n) \subseteq TakenUp(n)'
<1> SUFFICES ASSUME NEW j \in Jobs, status[j] \notin {"unborn", "pending"}
             PROVE  status'[j] \notin {"unborn", "pending"}
    BY PathsStay DEF TakenUp, Attempts, Born
<1> USE DEF rowVars
<1>1. ASSUME NEW k, NEW st, SetStatus(k, st), st \notin {"unborn", "pending"}
      PROVE  status'[j] \notin {"unborn", "pending"}
      BY <1>1 DEF SetStatus, Typed, TypeOK
<1>2. ASSUME NEW n \in Sources, Enqueue(n)
      PROVE  status'[j] \notin {"unborn", "pending"}
      BY <1>2 DEF Enqueue, Typed, TypeOK
<1>3. ASSUME NEW w \in Workers, Work(w)
      PROVE  status'[j] \notin {"unborn", "pending"}
      BY <1>1, <1>3
      DEF Work, Claim, Encode, Choose, Place, Hold, Record, Stage, GiveUp
<1>4. ASSUME NEW r \in Reviewers, Review(r)
      PROVE  status'[j] \notin {"unborn", "pending"}
      BY <1>1, <1>4 DEF Review, Move, Drop, Remove, Mark, Conclude
<1>5. CASE ClearRows BY <1>5 DEF ClearRows
<1>6. CASE \/ \E u \in Users : Ask(u)
           \/ Expire \/ Sweep \/ ClearRecords
      BY <1>6 DEF Ask, Expire, Sweep, List, TakeNext, ClearRecords
<1>7. CASE UNCHANGED vars BY <1>7 DEF vars
<1> QED BY <1>2, <1>3, <1>4, <1>5, <1>6, <1>7 DEF Next

\* A worker leaves no row running behind.
LEMMA MannedNext ==
    ASSUME Typed, SingleWorker, Manned, [Next]_vars
    PROVE  Manned'
<1> SUFFICES ASSUME NEW j \in Jobs, status'[j] = "running"
             PROVE  \E w \in Workers : wpc'[w] # "idle" /\ wjob'[w] = j
    BY DEF Manned
<1> USE DEF rowVars, workVars
<1>1. ASSUME NEW k, NEW st, SetStatus(k, st), st # "running"
      PROVE  status[j] = "running" /\ j # k
      BY <1>1 DEF SetStatus, HasRow, Typed, TypeOK
<1>2. ASSUME status[j] = "running", UNCHANGED workVars
      PROVE  \E w \in Workers : wpc'[w] # "idle" /\ wjob'[w] = j
      BY <1>2 DEF Manned
<1>3. ASSUME NEW w \in Workers, Work(w)
      PROVE  \E v \in Workers : wpc'[v] # "idle" /\ wjob'[v] = j
  <2>1. status[j] = "running" => wpc[w] # "idle" /\ wjob[w] = j
        BY DEF Manned, SingleWorker
  <2>2. CASE Claim(w)
    <3>1. status[j] # "running" BY <2>1, <2>2 DEF Claim
    <3>2. PICK k \in Jobs : /\ SetStatus(k, "running") /\ Advance(w, "encode")
                            /\ wjob' = [wjob EXCEPT ![w] = k]
          BY <1>1, <2>2, <3>1 DEF Claim
    <3>3. j = k BY <3>1, <3>2 DEF SetStatus, Typed, TypeOK
    <3> QED BY <3>2, <3>3 DEF Advance, Typed, TypeOK
  <2>3. CASE GiveUp(w) BY <1>1, <2>1, <2>3 DEF GiveUp
  <2>4. CASE Stage(w) BY <1>1, <2>1, <2>4 DEF Stage
  <2>5. CASE /\ \E s \in {"name", "place", "hold", "record", "stage"} :
                   Advance(w, s)
             /\ UNCHANGED <<status, wjob>>
        BY <2>1, <2>5 DEF Advance, Typed, TypeOK
  <2> QED BY <1>3, <2>2, <2>3, <2>4, <2>5
          DEF Work, Encode, Choose, Place, Hold, Record
<1>4. ASSUME NEW r \in Reviewers, Review(r)
      PROVE  \E v \in Workers : wpc'[v] # "idle" /\ wjob'[v] = j
      BY <1>1, <1>2, <1>4 DEF Review, Move, Drop, Remove, Mark, Conclude
<1>5. CASE Crash BY <1>5 DEF Crash
<1>6. ASSUME NEW n \in Sources, Enqueue(n)
      PROVE  \E v \in Workers : wpc'[v] # "idle" /\ wjob'[v] = j
      BY <1>2, <1>6 DEF Enqueue, Typed, TypeOK
<1>7. CASE ClearRows BY <1>2, <1>7 DEF ClearRows
<1>8. CASE \/ \E u \in Users : Ask(u)
           \/ Expire \/ Sweep \/ ClearRecords
      BY <1>2, <1>8 DEF Ask, Expire, Sweep, List, TakeNext, ClearRecords
<1>9. CASE UNCHANGED vars BY <1>2, <1>9 DEF vars
<1> QED BY <1>3, <1>4, <1>5, <1>6, <1>7, <1>8, <1>9 DEF Next

\* Only the renaming of an output makes a copy.
LEMMA CopiesLess ==
    ASSUME NamesApart, Typed, Safe, Facing, [Next]_vars,
           \A w \in Workers : ~Place(w), NEW n \in Films \cap Sources
    PROVE  CopiesOf(n)' \subseteq CopiesOf(n)
<1>1. \A x \in Outs(n) \ {n} : lib'[x] \in {lib[x], NoFile}
      BY OnlyPlaceFills, OutputsApart, OutputNames DEF Spare
<1>2. Copy(n) # NoFile BY NamesAssumption DEF Copy, Content
<1> QED BY <1>1, <1>2 DEF CopiesOf, Copy

\* The step of a worker that neither takes up a row nor adds a copy, or any
\* other that leaves the workers.
LEMMA EncodingLess ==
    ASSUME Typed, SingleWorker, [Next]_vars, \A w \in Workers : ~Claim(w),
           NEW n \in Sources
    PROVE  Encoding(n)' => Encoding(n)
<1> SUFFICES ASSUME NEW w \in Workers, wpc'[w] \in {"encode", "name", "place"}
             PROVE  /\ wpc[w] \in {"encode", "name", "place"}
                    /\ wjob'[w] = wjob[w]
  <2>1. \A w \in Workers : wpc[w] # "idle" => path'[wjob[w]] = path[wjob[w]]
        BY PathsStay DEF Typed, Shape, Born
  <2> QED BY <2>1 DEF Encoding, On
<1> USE DEF workVars
<1>1. ASSUME NEW v \in Workers, Work(v)
      PROVE  wpc[w] \in {"encode", "name", "place"} /\ wjob'[w] = wjob[w]
  <2>1. v = w BY DEF SingleWorker
  <2>2. CASE Leave(v) BY <2>1, <2>2 DEF Leave, Typed, TypeOK
  <2>3. CASE \E s \in {"hold", "record", "stage"} : Advance(v, s)
        BY <2>1, <2>3 DEF Advance, Typed, TypeOK
  <2> QED BY <1>1, <2>1, <2>2, <2>3
          DEF Work, Encode, Choose, Place, Hold, Record, Stage, GiveUp
<1>2. ASSUME NEW r \in Reviewers, Review(r)
      PROVE  wpc[w] \in {"encode", "name", "place"} /\ wjob'[w] = wjob[w]
      BY <1>2 DEF Review, Move, Drop, Remove, Mark, Conclude
<1>3. CASE Crash BY <1>3 DEF Crash
<1>4. CASE \/ \E m \in Sources : Enqueue(m)
           \/ \E u \in Users : Ask(u)
           \/ Expire \/ Sweep \/ ClearRecords \/ ClearRows
      BY <1>4 DEF Enqueue, Ask, Expire, Sweep, List, TakeNext,
                  ClearRecords, ClearRows
<1>5. CASE UNCHANGED vars BY <1>5 DEF vars
<1> QED BY <1>1, <1>2, <1>3, <1>4, <1>5 DEF Next

\* The start: no copy, no run.
LEMMA BudgetStart == FewAttempts /\ NamesApart /\ Init => Manned /\ Budget
<1> SUFFICES ASSUME FewAttempts, NamesApart, Init PROVE Manned /\ Budget
    OBVIOUS
<1>1. Manned BY DEF Manned, Init
<1>2. Typed BY TypedStart
<1>3. ASSUME NEW n \in Films \cap Sources
      PROVE  Cardinality(CopiesOf(n)) + (IF Encoding(n) THEN 1 ELSE 0)
                <= Cardinality(TakenUp(n)) + crashes
  <2>1. ~Encoding(n) BY DEF Encoding, Init
  <2>2. CopiesOf(n) = {}
    <3>1. \A x \in Outs(n) \ {n} : x \in Names /\ x \notin Films
          BY OutputsApart, OutputNames
    <3>2. \A x \in Outs(n) \ {n} : lib[x] = NoFile BY <3>1 DEF Init
    <3>3. Copy(n) # NoFile BY NamesAssumption DEF Copy, Content
    <3> QED BY <3>2, <3>3 DEF CopiesOf
  <2>3. Cardinality(CopiesOf(n)) = 0 BY <2>2, FS_EmptySet
  <2> QED BY <1>2, <2>1, <2>3, BudgetSizes
<1> QED BY <1>1, <1>3 DEF Budget

\* A run adds at most one copy, and is counted when it is taken up. A crash
\* lets one row run again, and is counted itself.
LEMMA BudgetNext ==
    ASSUME NamesApart, FewAttempts, FewAttempts', SingleWorker, Typed, Typed',
           Safe, Facing, Filed, Manned, Budget, [Next]_vars
    PROVE  Budget'
<1> SUFFICES ASSUME NEW n \in Films \cap Sources
             PROVE  Cardinality(CopiesOf(n)')
                       + (IF Encoding(n)' THEN 1 ELSE 0)
                       <= Cardinality(TakenUp(n)') + crashes'
    BY DEF Budget
<1> DEFINE C == CopiesOf(n)
           U == TakenUp(n)
           E == Encoding(n)
<1>1. /\ IsFiniteSet(C) /\ IsFiniteSet(C') /\ IsFiniteSet(U)
      /\ IsFiniteSet(U') /\ crashes \in Nat
      /\ Cardinality(C) \in Nat /\ Cardinality(C') \in Nat
      /\ Cardinality(U) \in Nat /\ Cardinality(U') \in Nat
  <2>1. /\ IsFiniteSet(C) /\ IsFiniteSet(U) /\ crashes \in Nat
        BY BudgetSizes
  <2>2. IsFiniteSet(C') BY OutsFinite, FS_Subset DEF CopiesOf
  <2>3. IsFiniteSet(U') BY FS_Subset DEF FewAttempts, TakenUp
  <2> HIDE DEF C, U
  <2> QED BY <2>1, <2>2, <2>3, FS_CardinalityType
<1>2. Cardinality(C) + (IF E THEN 1 ELSE 0) <= Cardinality(U) + crashes
      BY DEF Budget
<1>3. ~Crash => /\ U \subseteq U' /\ Cardinality(U) <= Cardinality(U')
                /\ crashes' = crashes
  <2>1. ~Crash => U \subseteq U' BY TakenUpStays
  <2>2. ~Crash => crashes' = crashes
    <3> USE DEF restVars
    <3>1. ASSUME NEW w \in Workers, Work(w) PROVE crashes' = crashes
          BY <3>1 DEF Work, Claim, Encode, Choose, Place, Hold, Record, Stage
    <3>2. ASSUME NEW r \in Reviewers, Review(r) PROVE crashes' = crashes
          BY <3>2 DEF Review, Move, Drop, Remove, Mark, Conclude
    <3>3. CASE \/ \E m \in Sources : Enqueue(m)
               \/ \E u \in Users : Ask(u)
               \/ Expire \/ Sweep \/ ClearRecords \/ ClearRows
          BY <3>3 DEF Enqueue, Ask, Expire, Sweep, List, TakeNext,
                      ClearRecords, ClearRows
    <3> QED BY <3>1, <3>2, <3>3 DEF Next, vars
  <2>3. U \subseteq U' => Cardinality(U) <= Cardinality(U')
    <3> HIDE DEF U
    <3> QED BY <1>1, FS_Subset
  <2> QED BY <2>1, <2>2, <2>3
<1>4. C' \subseteq C => Cardinality(C') <= Cardinality(C)
  <2> HIDE DEF C
  <2> QED BY <1>1, FS_Subset
<1>5. ASSUME Crash
      PROVE  Cardinality(C') + (IF E' THEN 1 ELSE 0)
                <= Cardinality(U') + crashes'
  <2>1. crashes' = crashes + 1 /\ ~E' BY <1>5 DEF Crash, Encoding
  <2>2. C' \subseteq C BY <1>5 DEF Crash, diskVars, CopiesOf, Copy
  <2>3. Cardinality(U) <= Cardinality(U') + 1
    <3>1. PICK j : U \subseteq U' \cup {j}
      <4>1. \A j \in U : j \in U' \/ status[j] = "running"
            BY <1>5 DEF Crash, TakenUp, Attempts
      <4>2. \A j, k \in Jobs : status[j] = "running" /\ status[k] = "running"
                               => j = k
            BY DEF Manned, SingleWorker
      <4>3. U \subseteq Jobs BY DEF TakenUp, Attempts
      <4> HIDE DEF U
      <4> QED BY <4>1, <4>2, <4>3
    <3> HIDE DEF U
    <3>2. /\ IsFiniteSet(U' \cup {j})
          /\ Cardinality(U' \cup {j})
                \in {Cardinality(U'), Cardinality(U') + 1}
          BY <1>1, FS_AddElement
    <3>3. Cardinality(U) <= Cardinality(U' \cup {j})
          BY <3>1, <3>2, FS_Subset
    <3> QED BY <1>1, <3>2, <3>3
  <2> HIDE DEF C, U, E
  <2> QED BY <1>1, <1>2, <1>4, <2>1, <2>2, <2>3
<1>6. ASSUME NEW w \in Workers, Place(w), ~Crash
      PROVE  Cardinality(C') + (IF E' THEN 1 ELSE 0)
                <= Cardinality(U') + crashes'
  <2>1. On(w) \in Sources /\ path[wjob[w]] = On(w) /\ wout[w] \in Names
        BY <1>6, AtHand DEF Place
  <2>2. ~E'
    <3> SUFFICES ASSUME NEW v \in Workers
                 PROVE  wpc'[v] \notin {"encode", "name", "place"}
        BY DEF Encoding
    <3>1. v = w BY DEF SingleWorker
    <3>2. CASE Leave(w) BY <3>1, <3>2 DEF Leave, Typed, TypeOK
    <3>3. CASE Advance(w, "hold") BY <3>1, <3>3 DEF Advance, Typed, TypeOK
    <3> QED BY <1>6, <3>2, <3>3 DEF Place, GiveUp
  <2>3. C' \subseteq C \cup (IF E THEN {wout[w]} ELSE {})
    <3>1. \/ lib' = lib
          \/ lib' = [lib EXCEPT ![wout[w]] = Copy(On(w))]
          BY <1>6, <2>1 DEF Place, Filed
    <3>2. \A x \in Outs(n) : x \in Names BY OutputNames
    <3>3. \A x \in Names : \/ lib'[x] = lib[x]
                           \/ x = wout[w] /\ lib'[x] = Copy(On(w))
          BY <3>1 DEF Typed, TypeOK
    <3>4. CASE On(w) = n
      <4>1. E BY <1>6, <3>4 DEF Encoding, Place
      <4> QED BY <3>2, <3>3, <4>1 DEF CopiesOf, Copy
    <3>5. CASE On(w) # n
      <4>1. Copy(On(w)) # Copy(n) BY <3>5 DEF Copy
      <4> QED BY <3>2, <3>3, <4>1 DEF CopiesOf, Copy
    <3> QED BY <3>4, <3>5
  <2> HIDE DEF C, U, E
  <2>4. CASE E
    <3>1. /\ IsFiniteSet(C \cup {wout[w]})
          /\ Cardinality(C \cup {wout[w]})
                \in {Cardinality(C), Cardinality(C) + 1}
          BY <1>1, FS_AddElement
    <3>2. Cardinality(C') <= Cardinality(C \cup {wout[w]})
          BY <2>3, <2>4, <3>1, FS_Subset
    <3>3. Cardinality(C') <= Cardinality(C) + 1 BY <1>1, <3>1, <3>2
    <3> QED BY <1>1, <1>2, <1>3, <1>6, <2>2, <2>4, <3>3
  <2>5. CASE ~E BY <1>1, <1>2, <1>3, <1>4, <1>6, <2>2, <2>3, <2>5
  <2> QED BY <2>4, <2>5
<1>7. ASSUME NEW w \in Workers, Claim(w), ~Crash
      PROVE  Cardinality(C') + (IF E' THEN 1 ELSE 0)
                <= Cardinality(U') + crashes'
  <2>1. ~E BY <1>7 DEF Encoding, Claim, SingleWorker
  <2>2. C' \subseteq C BY <1>7 DEF Claim, diskVars, CopiesOf, Copy
  <2>3. PICK j \in Jobs, st \in {"skipped", "running"} :
            /\ status[j] = "pending" /\ SetStatus(j, st)
            /\ st = "skipped" => UNCHANGED <<wpc, wjob>>
            /\ st = "running" => wjob' = [wjob EXCEPT ![w] = j]
        BY <1>7 DEF Claim
  <2>4. /\ status'[j] = st /\ path' = path
        /\ j \notin U /\ (path[j] = n => j \in U')
        BY <1>7, <2>3 DEF Claim, SetStatus, HasRow, TakenUp, Attempts,
                          Typed, TypeOK
  <2>5. E' => path[j] = n
    <3>1. CASE st = "skipped" BY <2>1, <2>3, <2>4, <3>1 DEF Encoding, On
    <3>2. CASE st = "running"
      <4>1. wjob'[w] = j BY <2>3, <3>2 DEF Typed, TypeOK
      <4> QED BY <2>4, <4>1 DEF Encoding, On, SingleWorker
    <3> QED BY <3>1, <3>2
  <2> HIDE DEF C, U, E
  <2>6. CASE E'
    <3>1. /\ IsFiniteSet(U \cup {j})
          /\ Cardinality(U \cup {j}) = Cardinality(U) + 1
          BY <1>1, <2>4, FS_AddElement
    <3>2. Cardinality(U \cup {j}) <= Cardinality(U')
          BY <1>1, <1>3, <1>7, <2>4, <2>5, <2>6, FS_Subset
    <3> QED BY <1>1, <1>2, <1>3, <1>4, <1>7, <2>1, <2>2, <3>1, <3>2
  <2>7. CASE ~E' BY <1>1, <1>2, <1>3, <1>4, <1>7, <2>1, <2>2, <2>7
  <2> QED BY <2>6, <2>7
<1>8. ASSUME ~Crash, \A w \in Workers : ~Place(w) /\ ~Claim(w)
      PROVE  Cardinality(C') + (IF E' THEN 1 ELSE 0)
                <= Cardinality(U') + crashes'
  <2>1. E' => E BY <1>8, EncodingLess
  <2>2. C' \subseteq C BY <1>8, CopiesLess
  <2> HIDE DEF C, U, E
  <2>3. CASE E' BY <1>1, <1>2, <1>3, <1>4, <1>8, <2>1, <2>2, <2>3
  <2>4. CASE ~E' BY <1>1, <1>2, <1>3, <1>4, <1>8, <2>2, <2>4
  <2> QED BY <2>3, <2>4
<1> QED BY <1>5, <1>6, <1>7, <1>8

\* A film that is not enqueued more often than it has names finds one free.
THEOREM NamesNeverRunOut ==
    NamesApart /\ OutputsDiffer /\ SingleWorker /\ Spec /\ []FewAttempts
    => []NamesLeft
<1> DEFINE All == Accounted /\ Manned /\ Budget
<1>1. NamesApart /\ FewAttempts /\ Init => All
      BY AccountedStart, BudgetStart
<1>2. ASSUME NamesApart PROVE FewAttempts /\ All => NamesLeft
      BY <1>2, BudgetLeaves
<1>3. ASSUME NamesApart, OutputsDiffer, SingleWorker
      PROVE  All /\ FewAttempts /\ FewAttempts' /\ [Next]_vars => All'
      BY <1>2, <1>3, AccountedNext, MannedNext, BudgetNext DEF Accounted
<1>4. CASE NamesApart /\ OutputsDiffer /\ SingleWorker
  <2> HIDE DEF All
  <2> QED BY <1>1, <1>2, <1>3, <1>4, PTL DEF Spec
<1>5. CASE ~(NamesApart /\ OutputsDiffer /\ SingleWorker)
      BY <1>5
<1> QED BY <1>4, <1>5

\* One worker implements Custody through crashes, failing calls, cleared
\* histories and overlapping requests.
THEOREM CustodyThroughCrashes ==
    NamesApart /\ OutputsDiffer /\ SingleWorker /\ Spec /\ []FewAttempts
    => CustodyKept
BY NamesNeverRunOut, CustodyWhileNamesLast, PTL

\* Fewer jobs and crashes than any film has names.
FewJobs ==
    /\ IsFiniteSet(Jobs)
    /\ \A n \in Sources :
          Cardinality(Jobs) + MaxCrashes <= Cardinality(Outs(n) \ {n})

\* A bound on the jobs is one on how often a film is enqueued.
LEMMA FewJobsFewAttempts == FewJobs /\ Spec => []FewAttempts
<1>1. ASSUME FewJobs PROVE TypeOK => FewAttempts
  <2> SUFFICES ASSUME TypeOK, NEW n \in Sources
               PROVE  /\ IsFiniteSet(Attempts(n))
                      /\ Cardinality(Attempts(n)) + crashes
                            <= Cardinality(Outs(n) \ {n})
      BY DEF FewAttempts
  <2>1. /\ IsFiniteSet(Attempts(n))
        /\ Cardinality(Attempts(n)) <= Cardinality(Jobs)
        BY <1>1, FS_Subset DEF Attempts, FewJobs
  <2>2. /\ Cardinality(Attempts(n)) \in Nat /\ Cardinality(Jobs) \in Nat
        /\ Cardinality(Outs(n) \ {n}) \in Nat
        BY <1>1, <2>1, OutsFinite, FS_Subset, FS_CardinalityType DEF FewJobs
  <2>3. crashes \in Nat /\ MaxCrashes \in Nat /\ crashes <= MaxCrashes
        BY <1>1, BoundsAssumption DEF TypeOK
  <2> QED BY <1>1, <2>1, <2>2, <2>3 DEF FewJobs
<1>2. CASE FewJobs BY <1>1, <1>2, TypeCorrect, PTL
<1>3. CASE ~FewJobs BY <1>3
<1> QED BY <1>2, <1>3

\* The same, of the constants alone.
THEOREM CustodyWithFewJobs ==
    NamesApart /\ OutputsDiffer /\ SingleWorker /\ FewJobs /\ Spec
    => CustodyKept
BY FewJobsFewAttempts, CustodyThroughCrashes, PTL


\* What is kept in custody is not lost.
LEMMA InCustodyNotLost == CustodyKept => []NoFilmLost
<1> DEFINE NoneLost == \A f \in Films : OnDiskOf(f) # {}
<1>1. Safekeeping!Init => NoneLost
      BY DEF Safekeeping!Init, OnDiskOf
<1>2. NoneLost /\ [Safekeeping!Next]_([f \in Films |->
              {k \in {"original", "encoded"} :
                   OnDisk([film |-> f, kind |-> k])}]) => NoneLost'
  <2> SUFFICES ASSUME NoneLost, Found' = Found \/ Safekeeping!Next,
                      NEW f \in Films
               PROVE  OnDiskOf(f)' # {}
      BY DEF Found, OnDiskOf
  <2>1. Found[f] = OnDiskOf(f) /\ Found'[f] = OnDiskOf(f)'
        BY DEF Found
  <2>2. CASE Found' = Found BY <2>1, <2>2
  <2>3. ASSUME NEW g \in Films, Safekeeping!Encode(g)
        PROVE  OnDiskOf(f)' # {}
    <3>1. Found' = [Found EXCEPT ![g] = @ \cup {"encoded"}]
          BY <2>3 DEF Safekeeping!Encode, Found, OnDiskOf
    <3> QED BY <2>1, <3>1 DEF Found
  <2>4. ASSUME NEW g \in Films,
               Safekeeping!Accept(g) \/ Safekeeping!Restore(g)
        PROVE  OnDiskOf(f)' # {}
    <3>1. \/ Found' = [Found EXCEPT ![g] = {"encoded"}]
          \/ Found' = [Found EXCEPT ![g] = {"original"}]
          BY <2>4 DEF Safekeeping!Accept, Safekeeping!Restore, Found, OnDiskOf
    <3> QED BY <2>1, <3>1 DEF Found
  <2> QED BY <2>2, <2>3, <2>4 DEF Safekeeping!Next
<1>3. NoneLost => NoFilmLost BY DEF NoFilmLost, OnDiskOf
<1> HIDE DEF NoneLost
<1> QED BY <1>1, <1>2, <1>3, PTL DEF CustodyKept, Safekeeping!Spec

\* "Never corrupt or lose a file" (docs/architecture.md:12): some whole copy
\* of every film stays on disk, under either set of hypotheses. What a run
\* shows against it takes two films whose outputs share a name.
THEOREM FilmsAreNotLost ==
    /\ NamesApart /\ OutputsDiffer
    /\ Undisturbed \/ (SingleWorker /\ []FewAttempts)
    /\ Spec
    => []NoFilmLost
<1>1. NamesApart /\ OutputsDiffer /\ Undisturbed /\ Spec => []NoFilmLost
      BY StagingIsCustody, InCustodyNotLost
<1>2. NamesApart /\ OutputsDiffer /\ SingleWorker /\ Spec /\ []FewAttempts
      => []NoFilmLost
      BY CustodyThroughCrashes, InCustodyNotLost
<1> QED BY <1>1, <1>2
=============================================================================
