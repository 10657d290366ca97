---------------------------- MODULE ReviewProofs ----------------------------
(* Theorems about ReviewPage, for every number of handlers under way and of *)
(* originals.                                                               *)
EXTENDS ReviewPage, Integers, FiniteSetTheorems, SequenceTheorems, TLAPS

-----------------------------------------------------------------------------
(* Answers under way. *)

\* u is answered before v.
Precedes(u, v, q) == \E i, j \in DOMAIN q : i < j /\ q[i] = u /\ q[j] = v

\* t is answered.
In(t, q) == \E i \in DOMAIN q : q[i] = t

\* The answers without one of them.
Without(q, k) == SubSeq(q, 1, k - 1) \o SubSeq(q, k + 1, Len(q))

\* What is left when one of the answers has arrived.
LEMMA Leaving ==
    ASSUME NEW S, NEW q \in Seq(S), NEW k \in DOMAIN q
    PROVE  /\ Without(q, k) \in Seq(S)
           /\ DOMAIN Without(q, k) = 1 .. (Len(q) - 1)
           /\ \A i \in 1 .. (Len(q) - 1) :
                 Without(q, k)[i] = IF i < k THEN q[i] ELSE q[i + 1]
<1> DEFINE a == SubSeq(q, 1, k - 1)
           b == SubSeq(q, k + 1, Len(q))
<1>1. Len(q) \in Nat /\ k \in 1 .. Len(q) BY LenProperties
<1>2. /\ a \in Seq(S) /\ Len(a) = k - 1
      /\ \A i \in 1 .. (k - 1) : a[i] = q[i]
  <2>1. \A i \in 1 .. (k - 1) : q[i] \in S BY <1>1, ElementOfSeq
  <2> QED BY <1>1, <2>1, SubSeqProperties
<1>3. /\ b \in Seq(S) /\ Len(b) = Len(q) - k
      /\ \A i \in 1 .. (Len(q) - k) : b[i] = q[k + i]
  <2>1. \A i \in (k + 1) .. Len(q) : q[i] \in S BY <1>1, ElementOfSeq
  <2> QED BY <1>1, <2>1, SubSeqProperties
<1>4. Without(q, k) = a \o b BY DEF Without
<1> HIDE DEF a, b
<1>5. /\ a \o b \in Seq(S) /\ Len(a \o b) = Len(q) - 1
      /\ \A i \in 1 .. (Len(q) - 1) :
            (a \o b)[i] = IF i < k THEN a[i] ELSE b[i - (k - 1)]
      BY <1>1, <1>2, <1>3, ConcatProperties
<1>6. ASSUME NEW i \in 1 .. (Len(q) - 1)
      PROVE  (a \o b)[i] = IF i < k THEN q[i] ELSE q[i + 1]
  <2>1. CASE i < k BY <1>1, <1>2, <1>5, <2>1
  <2>2. CASE ~(i < k)
    <3>1. i - (k - 1) \in 1 .. (Len(q) - k) BY <1>1, <2>2
    <3>2. b[i - (k - 1)] = q[k + (i - (k - 1))] BY <1>3, <3>1
    <3>3. k + (i - (k - 1)) = i + 1 BY <1>1
    <3> QED BY <1>5, <2>2, <3>2, <3>3
  <2> QED BY <2>1, <2>2
<1> QED BY <1>4, <1>5, <1>6, LenProperties

Distinct(q) == \A i, j \in DOMAIN q : q[i] = q[j] => i = j

\* The others stay, in their order.
LEMMA LeavingOrder ==
    ASSUME NEW S, NEW q \in Seq(S), Distinct(q), NEW k \in DOMAIN q,
           NEW p, p = Without(q, k)
    PROVE  /\ p \in Seq(S) /\ Distinct(p)
           /\ \A u : In(u, p) <=> In(u, q) /\ u # q[k]
           /\ \A u, v : Precedes(u, v, p) <=>
                            Precedes(u, v, q) /\ u # q[k] /\ v # q[k]
<1> DEFINE n == Len(q)
<1>1. n \in Nat /\ DOMAIN q = 1 .. n /\ k \in 1 .. n BY LenProperties
<1>2. /\ p \in Seq(S) /\ DOMAIN p = 1 .. (n - 1)
      /\ \A i \in 1 .. (n - 1) : p[i] = IF i < k THEN q[i] ELSE q[i + 1]
      BY Leaving
<1> HIDE DEF n
<1> DEFINE old(i) == IF i < k THEN i ELSE i + 1
           new(i) == IF i < k THEN i ELSE i - 1
<1>3. \A i \in DOMAIN p : old(i) \in DOMAIN q /\ p[i] = q[old(i)] /\ old(i) # k
      BY <1>1, <1>2
<1>4. \A i \in DOMAIN q : i # k => /\ new(i) \in DOMAIN p
                                   /\ p[new(i)] = q[i]
  <2> SUFFICES ASSUME NEW i \in DOMAIN q, i # k
               PROVE  new(i) \in DOMAIN p /\ p[new(i)] = q[i]
      OBVIOUS
  <2>1. CASE i < k BY <1>1, <1>2, <2>1
  <2>2. CASE i > k
    <3>1. i - 1 \in 1 .. (n - 1) /\ ~(i - 1 < k) /\ (i - 1) + 1 = i
          BY <1>1, <2>2
    <3>2. new(i) = i - 1 BY <1>1, <2>2
    <3> QED BY <1>2, <3>1, <3>2
  <2> QED BY <1>1, <2>1, <2>2
<1>5. \A i, j \in DOMAIN p : /\ i < j => old(i) < old(j)
                             /\ old(i) = old(j) => i = j
      BY <1>1, <1>2
<1>6. \A i, j \in DOMAIN q : i # k /\ j # k /\ i < j => new(i) < new(j)
      BY <1>1
<1> HIDE DEF old, new
<1>7. Distinct(p) BY <1>3, <1>5 DEF Distinct
<1>8. \A i \in DOMAIN q : q[i] = q[k] => i = k BY DEF Distinct
<1>9. \A u : In(u, p) <=> In(u, q) /\ u # q[k]
      BY <1>3, <1>4, <1>8 DEF In
<1>10. \A u, v : Precedes(u, v, p) <=>
                     Precedes(u, v, q) /\ u # q[k] /\ v # q[k]
      BY <1>3, <1>4, <1>5, <1>6, <1>8 DEF Precedes
<1> QED BY <1>2, <1>7, <1>9, <1>10

\* A read that is answered is the last of them.
LEMMA Joining ==
    ASSUME NEW S, NEW q \in Seq(S), Distinct(q), NEW t \in S, ~In(t, q),
           NEW p, p = Append(q, t)
    PROVE  /\ p \in Seq(S) /\ Distinct(p)
           /\ \A u : In(u, p) <=> In(u, q) \/ u = t
           /\ \A u, v : Precedes(u, v, p) <=>
                            Precedes(u, v, q) \/ (In(u, q) /\ v = t)
<1> DEFINE n == Len(q)
<1>1. /\ n \in Nat /\ DOMAIN q = 1 .. n
      /\ p \in Seq(S) /\ DOMAIN p = 1 .. (n + 1)
      /\ p[n + 1] = t /\ \A i \in 1 .. n : p[i] = q[i]
      BY LenProperties, AppendProperties
<1> HIDE DEF n
<1>2. \A i \in DOMAIN p : i \in DOMAIN q \/ i = n + 1 BY <1>1
<1>3. \A i \in DOMAIN q : /\ i \in DOMAIN p /\ p[i] = q[i] /\ p[i] # t
                          /\ i < n + 1
      BY <1>1 DEF In
<1>4. n + 1 \in DOMAIN p /\ \A i \in DOMAIN p : ~(n + 1 < i) BY <1>1
<1>5. Distinct(p) BY <1>1, <1>2, <1>3 DEF Distinct
<1>6. \A u : In(u, p) <=> In(u, q) \/ u = t BY <1>1, <1>2, <1>3, <1>4 DEF In
<1>7. \A u, v : Precedes(u, v, p) <=>
                    Precedes(u, v, q) \/ (In(u, q) /\ v = t)
  <2> SUFFICES ASSUME NEW u, NEW v
               PROVE  Precedes(u, v, p) <=>
                          Precedes(u, v, q) \/ (In(u, q) /\ v = t)
      OBVIOUS
  <2>1. Precedes(u, v, p) => Precedes(u, v, q) \/ (In(u, q) /\ v = t)
        BY <1>1, <1>2, <1>3, <1>4 DEF Precedes, In
  <2>2. Precedes(u, v, q) => Precedes(u, v, p) BY <1>3 DEF Precedes
  <2>3. In(u, q) /\ v = t => Precedes(u, v, p)
        BY <1>1, <1>3, <1>4 DEF Precedes, In
  <2> QED BY <2>1, <2>2, <2>3
<1> QED BY <1>1, <1>5, <1>6, <1>7

\* Answers that differ have an order, and only one.
LEMMA Ordered ==
    ASSUME NEW S, NEW q \in Seq(S), Distinct(q), NEW u, NEW v, NEW w
    PROVE  /\ ~(Precedes(u, v, q) /\ Precedes(v, u, q))
           /\ Precedes(u, v, q) => u # v /\ In(u, q) /\ In(v, q)
           /\ Precedes(u, v, q) /\ Precedes(v, w, q) => Precedes(u, w, q)
           /\ In(u, q) /\ In(v, q) /\ u # v =>
                  Precedes(u, v, q) \/ Precedes(v, u, q)
<1>1. DOMAIN q = 1 .. Len(q) /\ Len(q) \in Nat BY LenProperties
<1>2. \A i, j \in DOMAIN q : q[i] = q[j] => i = j BY DEF Distinct
<1>3. \A i \in DOMAIN q : i \in Int BY <1>1
<1>4. ~(Precedes(u, v, q) /\ Precedes(v, u, q)) BY <1>2, <1>3 DEF Precedes
<1>5. Precedes(u, v, q) => u # v /\ In(u, q) /\ In(v, q)
      BY <1>2, <1>3 DEF Precedes, In
<1>6. Precedes(u, v, q) /\ Precedes(v, w, q) => Precedes(u, w, q)
      BY <1>2, <1>3 DEF Precedes
<1>7. In(u, q) /\ In(v, q) /\ u # v =>
          Precedes(u, v, q) \/ Precedes(v, u, q)
      BY <1>2, <1>3 DEF Precedes, In
<1> QED BY <1>4, <1>5, <1>6, <1>7

-----------------------------------------------------------------------------
(* Types, the queue of answers, and the numbers of the rows. *)

Answers == {"listed", "counted"}

TaskType == [op : {"none", "open", "delete", "restore", "bulk"},
             todo : SUBSET SeenRows,
             at : {"idle", "act", "list", "listed", "count", "counted"},
             saw : SUBSET SeenRows]

TableType == [OriginalIds -> [status : {"none", "held", "gone"},
                              film : 0..MaxOriginals]]

\* A task is in the queue while its answer is under way, and once.
Queue ==
    /\ Distinct(answered)
    /\ \A t \in ReviewTasks : In(t, answered) <=> task[t].at \in Answers
    /\ \A t \in overtaken : In(t, answered)

\* The film under an id is the one with that number; ids are given out in
\* their order, and what a row was seen with is what it was given.
Numbered ==
    /\ \A i \in OriginalIds : original[i].status = "held" =>
                                  original[i].film = i /\ i <= staged
    /\ \A r \in records \cup selected : r.film = r.id /\ r.id <= staged
    /\ \A t \in ReviewTasks : \A r \in task[t].todo \cup task[t].saw :
           r.film = r.id /\ r.id <= staged

Typed == ReviewTypeOK /\ Queue /\ Numbered

\* The type invariant by its named sets.
LEMMA Types ==
    ReviewTypeOK <=>
        /\ original \in TableType /\ staged \in 0..MaxOriginals
        /\ records \subseteq SeenRows /\ selected \subseteq SeenRows
        /\ loading \in BOOLEAN /\ confirming \in BOOLEAN
        /\ badge \in 0..MaxOriginals
        /\ task \in [ReviewTasks -> TaskType]
        /\ answered \in Seq(ReviewTasks) /\ overtaken \subseteq ReviewTasks
        /\ late \subseteq ReadKinds /\ moved \subseteq ReadKinds
BY DEF ReviewTypeOK, TableType, TaskType

\* One task changes.
LEMMA TaskReplaced ==
    ASSUME task \in [ReviewTasks -> TaskType], NEW t \in ReviewTasks,
           NEW x \in TaskType, task' = [task EXCEPT ![t] = x]
    PROVE  /\ task' \in [ReviewTasks -> TaskType] /\ task'[t] = x
           /\ \A u \in ReviewTasks \ {t} : task'[u] = task[u]
OBVIOUS

\* A task that has just been given its request.
LEMMA Opened ==
    ASSUME NEW o, NEW a
    PROVE  [NoTask EXCEPT !.op = o, !.at = a] =
               [op |-> o, todo |-> {}, at |-> a, saw |-> {}]
<1>1. PICK y : y = [NoTask EXCEPT !.op = o] OBVIOUS
<1>2. y = [op |-> o, todo |-> {}, at |-> "idle", saw |-> {}]
      BY <1>1 DEF NoTask
<1>3. [y EXCEPT !.at = a] = [op |-> o, todo |-> {}, at |-> a, saw |-> {}]
      BY <1>2
<1> QED BY <1>1, <1>3, Zenon

\* A task that has ended is a task.
LEMMA NoTaskType == NoTask \in TaskType
BY DEF NoTask, TaskType

\* What the list shows are rows with their numbers.
LEMMA Listing ==
    ASSUME Typed
    PROVE  /\ ListOriginals(original) \subseteq SeenRows
           /\ \A r \in ListOriginals(original) :
                 /\ r.film = r.id /\ r.id <= staged
                 /\ original[r.id].status = "held"
           /\ \A r \in SeenRows :
                 r.film = r.id /\ original[r.id].status = "held" =>
                     r \in ListOriginals(original)
<1>1. \A i \in Held(original) : /\ i \in OriginalIds
                                /\ original[i].status = "held"
                                /\ original[i].film = i /\ i <= staged
      BY DEF Held, Typed, Numbered
<1>2. ListOriginals(original) \subseteq SeenRows
      BY <1>1 DEF ListOriginals, SeenRows
<1>3. \A r \in ListOriginals(original) :
          r.film = r.id /\ r.id <= staged /\ original[r.id].status = "held"
      BY <1>1 DEF ListOriginals
<1>4. ASSUME NEW r \in SeenRows, r.film = r.id, original[r.id].status = "held"
      PROVE  r \in ListOriginals(original)
  <2>1. r.id \in Held(original) BY <1>4 DEF Held, SeenRows
  <2>2. r = [id |-> r.id, film |-> original[r.id].film]
        BY <1>1, <1>4, <2>1 DEF SeenRows
  <2> QED BY <2>1, <2>2 DEF ListOriginals
<1> QED BY <1>2, <1>3, <1>4

\* A list has a row for every original that is held, and no more rows than
\* there are ids.
LEMMA Counting ==
    ASSUME Typed
    PROVE  Cardinality(ListOriginals(original)) = Cardinality(Held(original))
<1> DEFINE row(i) == [id |-> i, film |-> original[i].film]
           f == [i \in Held(original) |-> row(i)]
<1>1. IsFiniteSet(Held(original))
  <2>1. MaxOriginals \in Int BY ReviewAssumption
  <2>2. IsFiniteSet(OriginalIds) BY <2>1, FS_Interval DEF OriginalIds
  <2>3. Held(original) \in SUBSET OriginalIds BY DEF Held
  <2> QED BY <2>2, <2>3, FS_Subset
<1>2. f \in Bijection(Held(original), ListOriginals(original))
  <2>1. f \in [Held(original) -> ListOriginals(original)]
        BY DEF ListOriginals
  <2>2. \A i, j \in Held(original) : f[i] = f[j] => i = j OBVIOUS
  <2>3. \A r \in ListOriginals(original) : \E i \in Held(original) : f[i] = r
        BY DEF ListOriginals
  <2> HIDE DEF f
  <2> QED BY <2>1, <2>2, <2>3
          DEF Bijection, Injection, IsInjective, Surjection
<1>3. ExistsBijection(Held(original), ListOriginals(original))
  <2> HIDE DEF f
  <2> QED BY <1>2 DEF ExistsBijection
<1> QED BY <1>1, <1>3, FS_Bijection

\* Rows with their numbers are no more than the ids.
LEMMA Few ==
    ASSUME NEW S \in SUBSET SeenRows, \A r \in S : r.film = r.id
    PROVE  Cardinality(S) \in 0..MaxOriginals
<1> DEFINE f == [r \in S |-> r.id]
<1>1. IsFiniteSet(OriginalIds) /\ Cardinality(OriginalIds) = MaxOriginals
  <2>1. MaxOriginals \in Nat /\ 1 \in Int /\ MaxOriginals \in Int
        BY ReviewAssumption
  <2> QED BY <2>1, FS_Interval DEF OriginalIds
<1>2. f \in Injection(S, OriginalIds)
  <2>1. f \in [S -> OriginalIds] BY DEF SeenRows
  <2>2. \A r, s \in S : f[r] = f[s] => r = s BY DEF SeenRows
  <2> HIDE DEF f
  <2> QED BY <2>1, <2>2 DEF Injection, IsInjective
<1>3. IsFiniteSet(S) /\ Cardinality(S) <= MaxOriginals
  <2> HIDE DEF f
  <2> QED BY <1>1, <1>2, FS_Injection
<1> QED BY <1>3, FS_CardinalityType, ReviewAssumption

\* An answer arrives: the task leaves the queue, and those of its kind that
\* were before it are overtaken.
LEMMA Delivered ==
    ASSUME Typed, NEW t \in ReviewTasks, task[t].at \in Answers,
           NEW kind \in ReadKinds, Deliver(t, kind),
           task'[t].at \notin Answers,
           \A u \in ReviewTasks \ {t} : task'[u].at = task[u].at
    PROVE  /\ answered' \in Seq(ReviewTasks) /\ Queue'
           /\ overtaken' \subseteq ReviewTasks /\ late' \subseteq ReadKinds
           /\ \A u, v : Precedes(u, v, answered') <=>
                            Precedes(u, v, answered) /\ u # t /\ v # t
           /\ \A u : u \in overtaken' <=>
                  \/ u \in overtaken /\ u # t
                  \/ Precedes(u, t, answered) /\ task[u].at = task[t].at
           /\ late' = IF t \in overtaken THEN late \cup {kind}
                                         ELSE late \ {kind}
<1>1. /\ answered \in Seq(ReviewTasks) /\ Distinct(answered)
      /\ In(t, answered)
      /\ overtaken \subseteq ReviewTasks /\ late \subseteq ReadKinds
      BY DEF Typed, ReviewTypeOK, Queue
<1>2. PICK k \in DOMAIN answered :
          /\ answered[k] = t
          /\ answered' = Without(answered, k)
          /\ overtaken' = (overtaken \ {t}) \cup
                 {u \in {answered[i] : i \in 1..(k - 1)} :
                     task[u].at = task[t].at}
          /\ late' = IF t \in overtaken THEN late \cup {kind}
                                        ELSE late \ {kind}
      BY <1>1 DEF Deliver, In, Without
<1>3. /\ answered' \in Seq(ReviewTasks) /\ Distinct(answered')
      /\ \A u : In(u, answered') <=> In(u, answered) /\ u # t
      /\ \A u, v : Precedes(u, v, answered') <=>
                       Precedes(u, v, answered) /\ u # t /\ v # t
      BY <1>1, <1>2, LeavingOrder
<1>4. \A u : u \in {answered[i] : i \in 1..(k - 1)} <=>
                 Precedes(u, t, answered)
  <2>1. DOMAIN answered = 1 .. Len(answered) /\ Len(answered) \in Nat
        BY <1>1, LenProperties
  <2>2. \A j \in DOMAIN answered : answered[j] = t => j = k
        BY <1>1, <1>2 DEF Distinct
  <2>3. \A i : i \in 1 .. (k - 1) <=> i \in DOMAIN answered /\ i < k
        BY <2>1
  <2> QED BY <1>2, <2>2, <2>3 DEF Precedes
<1>5. \A u : u \in overtaken' <=>
          \/ u \in overtaken /\ u # t
          \/ Precedes(u, t, answered) /\ task[u].at = task[t].at
      BY <1>2, <1>4
<1>6. \A u \in ReviewTasks : Precedes(u, t, answered) =>
          In(u, answered) /\ u # t
      BY <1>1, Ordered
<1>7. \A u : In(u, answered) => u \in ReviewTasks
      BY <1>1, ElementOfSeq, LenProperties DEF In
<1>8. overtaken' \subseteq ReviewTasks
      BY <1>1, <1>2, <1>7, <1>4, <1>5 DEF Precedes, In
<1>9. Queue'
  <2>1. \A u \in ReviewTasks : In(u, answered') <=> task'[u].at \in Answers
        BY <1>3 DEF Typed, Queue
  <2>2. \A u \in overtaken' : In(u, answered')
        BY <1>3, <1>5, <1>6, <1>8 DEF Typed, Queue
  <2> QED BY <1>3, <2>1, <2>2 DEF Queue
<1> QED BY <1>1, <1>2, <1>3, <1>5, <1>8, <1>9

\* The rows that are named keep their numbers, in a step that names none but
\* those, and changes no originals but to make one, or some go.
LEMMA NumbersKept ==
    ASSUME Typed, staged' \in 0..MaxOriginals, staged <= staged',
           \A i \in OriginalIds : original'[i].status = "held" =>
               \/ original[i].status = "held" /\ original'[i] = original[i]
               \/ original'[i].film = i /\ i <= staged',
           \A r \in records' \cup selected' :
               r.film = r.id /\ r.id \in Int /\ r.id <= staged,
           \A t \in ReviewTasks : \A r \in task'[t].todo \cup task'[t].saw :
               r.film = r.id /\ r.id \in Int /\ r.id <= staged
    PROVE  Numbered'
<1>1. staged \in Int /\ staged' \in Int /\ OriginalIds \subseteq Int
      BY ReviewAssumption DEF Typed, ReviewTypeOK, OriginalIds
<1>2. \A i \in OriginalIds : original'[i].status = "held" =>
                                 original'[i].film = i /\ i <= staged'
      BY <1>1 DEF Typed, Numbered
<1> QED BY <1>1, <1>2 DEF Numbered

\* Whatever is named is a row with its number.
LEMMA Rowed ==
    ASSUME Typed
    PROVE  /\ \A r \in records \cup selected :
                  r \in SeenRows /\ r.id \in Int /\ r.film = r.id
                  /\ r.id <= staged
           /\ \A t \in ReviewTasks : \A r \in task[t].todo \cup task[t].saw :
                  r \in SeenRows /\ r.id \in Int /\ r.film = r.id
                  /\ r.id <= staged
<1>1. \A r \in SeenRows : r.id \in Int BY DEF SeenRows, OriginalIds
<1>2. /\ records \subseteq SeenRows /\ selected \subseteq SeenRows
      /\ \A t \in ReviewTasks : task[t].todo \subseteq SeenRows
                                /\ task[t].saw \subseteq SeenRows
      BY Types DEF Typed, TaskType
<1> QED BY <1>1, <1>2 DEF Typed, Numbered

\* A step of one task that neither asks the server for a list nor takes one.
LEMMA TaskTyped ==
    ASSUME Typed, NEW t \in ReviewTasks, NEW x \in TaskType,
           task' = [task EXCEPT ![t] = x],
           task[t].at \notin Answers, x.at \notin Answers,
           x.todo \cup x.saw \subseteq
               records \cup selected \cup task[t].todo \cup task[t].saw,
           original' \in TableType, staged' = staged,
           \A i \in OriginalIds : original'[i].status = "held" =>
                                      original'[i] = original[i],
           records' \subseteq records, selected' \subseteq selected,
           loading' \in BOOLEAN, confirming' \in BOOLEAN, badge' = badge,
           moved' \subseteq ReadKinds, UNCHANGED <<answered, overtaken, late>>
    PROVE  Typed'
<1>1. /\ task' \in [ReviewTasks -> TaskType] /\ task'[t] = x
      /\ \A u \in ReviewTasks \ {t} : task'[u] = task[u]
      BY TaskReplaced, Types DEF Typed
<1>2. ReviewTypeOK'
  <2>1. /\ original' \in TableType /\ staged' \in 0..MaxOriginals
        /\ records' \subseteq SeenRows /\ selected' \subseteq SeenRows
        /\ loading' \in BOOLEAN /\ confirming' \in BOOLEAN
        /\ badge' \in 0..MaxOriginals
        /\ task' \in [ReviewTasks -> TaskType]
        /\ answered' \in Seq(ReviewTasks) /\ overtaken' \subseteq ReviewTasks
        /\ late' \subseteq ReadKinds /\ moved' \subseteq ReadKinds
        BY <1>1, Types DEF Typed
  <2> QED BY <2>1 DEF ReviewTypeOK, TableType, TaskType
<1>3. Queue' BY <1>1 DEF Typed, Queue
<1>4. Numbered'
  <2>1. \A u \in ReviewTasks : \A r \in task'[u].todo \cup task'[u].saw :
            r.film = r.id /\ r.id \in Int /\ r.id <= staged
    <3>1. \A r \in x.todo \cup x.saw :
              r.film = r.id /\ r.id \in Int /\ r.id <= staged
          BY Rowed
    <3> QED BY <1>1, <3>1, Rowed
  <2>2. \A r \in records' \cup selected' :
            r.film = r.id /\ r.id \in Int /\ r.id <= staged
        BY Rowed
  <2>3. /\ staged' \in 0..MaxOriginals /\ staged <= staged'
        BY Types, ReviewAssumption DEF Typed
  <2>4. \A i \in OriginalIds : original'[i].status = "held" =>
            original[i].status = "held" /\ original'[i] = original[i]
        OBVIOUS
  <2> QED BY <2>1, <2>2, <2>3, <2>4, NumbersKept
<1> QED BY <1>2, <1>3, <1>4 DEF Typed

\* A task as it is but for where it is and what it saw.
LEMMA Continued ==
    ASSUME Typed, NEW t \in ReviewTasks, NEW a, NEW S
    PROVE  /\ Continue(t, a, S) =
                [task EXCEPT ![t] = [op |-> task[t].op, todo |-> task[t].todo,
                                     at |-> a, saw |-> S]]
           /\ task[t] \in TaskType
           /\ task[t].op \in {"none", "open", "delete", "restore", "bulk"}
           /\ task[t].todo \in SUBSET SeenRows
<1>1. task \in [ReviewTasks -> TaskType] BY Types DEF Typed
<1>2. task[t] \in TaskType BY <1>1
<1>3. PICK o \in {"none", "open", "delete", "restore", "bulk"},
           d \in SUBSET SeenRows,
           p \in {"idle", "act", "list", "listed", "count", "counted"},
           w \in SUBSET SeenRows :
          task[t] = [op |-> o, todo |-> d, at |-> p, saw |-> w]
      BY <1>2 DEF TaskType
<1>4. Continue(t, a, S) =
          [task EXCEPT ![t] = [task[t] EXCEPT !.at = a, !.saw = S]]
      BY <1>1 DEF Continue
<1>5. [task[t] EXCEPT !.at = a, !.saw = S] =
          [op |-> o, todo |-> d, at |-> a, saw |-> S]
  <2>1. [task[t] EXCEPT !.at = a] = [op |-> o, todo |-> d, at |-> a, saw |-> w]
        BY <1>3
  <2>2. ASSUME NEW y, y = [op |-> o, todo |-> d, at |-> a, saw |-> w]
        PROVE  [y EXCEPT !.saw = S] =
                   [op |-> o, todo |-> d, at |-> a, saw |-> S]
        BY <2>2
  <2>3. PICK y : y = [task[t] EXCEPT !.at = a] OBVIOUS
  <2>4. [y EXCEPT !.saw = S] = [op |-> o, todo |-> d, at |-> a, saw |-> S]
        BY <2>1, <2>2, <2>3
  <2> QED BY <2>3, <2>4, Zenon
<1> QED BY <1>2, <1>3, <1>4, <1>5

\* One original is done with, or none.
LEMMA Resolved ==
    ASSUME Typed, NEW r \in SeenRows, NEW outcome, Resolve(r, outcome)
    PROVE  /\ original' \in TableType
           /\ \A i \in OriginalIds : original'[i].status = "held" =>
                                         original'[i] = original[i]
<1>1. original \in TableType BY Types DEF Typed
<1>2. r.id \in OriginalIds BY DEF SeenRows
<1>3. original[r.id] \in [status : {"none", "held", "gone"},
                          film : 0..MaxOriginals]
      BY <1>1, <1>2 DEF TableType
<1>4. CASE outcome = "refused" BY <1>1, <1>4 DEF Resolve
<1>5. CASE outcome # "refused"
  <2> DEFINE x == [original[r.id] EXCEPT !.status = "gone"]
  <2>1. /\ x \in [status : {"none", "held", "gone"}, film : 0..MaxOriginals]
        /\ x.status = "gone"
        BY <1>3
  <2>2. original' = [original EXCEPT ![r.id] = x] BY <1>5 DEF Resolve
  <2> HIDE DEF x
  <2> QED BY <1>1, <1>2, <2>1, <2>2 DEF TableType
<1> QED BY <1>4, <1>5

\* A row is deleted or restored, or is not.
LEMMA ActOneTyped ==
    ASSUME Typed, NEW t \in ReviewTasks, ActOne(t) PROVE Typed'
<1>1. PICK r \in task[t].todo, outcome \in Outcomes :
          /\ Resolve(r, outcome)
          /\ IF outcome = "ok"
             THEN task' = Continue(t, "list", {}) /\ UNCHANGED moved
             ELSE /\ task' = [task EXCEPT ![t] = NoTask]
                  /\ moved' = ReadKinds
      BY DEF ActOne
<1>2. r \in SeenRows BY Rowed
<1>3. /\ original' \in TableType
      /\ \A i \in OriginalIds : original'[i].status = "held" =>
                                    original'[i] = original[i]
      BY <1>1, <1>2, Resolved
<1>4. PICK x \in TaskType :
          /\ task' = [task EXCEPT ![t] = x] /\ x.at \notin Answers
          /\ x.todo \cup x.saw \subseteq task[t].todo
  <2>1. CASE outcome = "ok"
    <3> DEFINE x == [op |-> task[t].op, todo |-> task[t].todo,
                     at |-> "list", saw |-> {}]
    <3>1. task' = [task EXCEPT ![t] = x] BY <1>1, <2>1, Continued
    <3>2. x \in TaskType BY Continued DEF TaskType
    <3>3. x.at = "list" /\ x.todo = task[t].todo /\ x.saw = {} OBVIOUS
    <3> QED BY <3>1, <3>2, <3>3 DEF Answers
  <2>2. CASE outcome # "ok"
        BY <1>1, <2>2, NoTaskType DEF NoTask, Answers
  <2> QED BY <2>1, <2>2
<1>5. task[t].at \notin Answers BY DEF ActOne, Answers
<1>6. moved' \subseteq ReadKinds BY <1>1, Types DEF Typed
<1> QED BY <1>3, <1>4, <1>5, <1>6, TaskTyped, Types DEF ActOne, Typed

\* One of the ticked rows is deleted, or is not.
LEMMA ActBulkTyped ==
    ASSUME Typed, NEW t \in ReviewTasks, ActBulk(t) PROVE Typed'
<1>1. PICK r \in task[t].todo, outcome \in Outcomes :
          /\ Resolve(r, outcome)
          /\ task' = [task EXCEPT ![t].todo = @ \ {r}]
      BY DEF ActBulk
<1>2. r \in SeenRows BY Rowed
<1>3. /\ original' \in TableType
      /\ \A i \in OriginalIds : original'[i].status = "held" =>
                                    original'[i] = original[i]
      BY <1>1, <1>2, Resolved
<1> DEFINE x == [task[t] EXCEPT !.todo = @ \ {r}]
<1>4. task[t] \in TaskType /\ task[t].at = "act" BY Continued DEF ActBulk
<1>5. /\ x \in TaskType /\ x.at = "act" /\ x.saw = task[t].saw
      /\ x.todo \subseteq task[t].todo
      BY <1>4 DEF TaskType
<1>6. task' = [task EXCEPT ![t] = x] BY <1>1
<1> HIDE DEF x
<1> QED BY <1>3, <1>4, <1>5, <1>6, TaskTyped, Types
        DEF ActBulk, Typed, Answers, reviewPage

\* All ticked rows have been tried.
LEMMA EndBulkTyped ==
    ASSUME Typed, NEW t \in ReviewTasks, EndBulk(t) PROVE Typed'
<1> DEFINE x == [op |-> task[t].op, todo |-> task[t].todo,
                 at |-> "list", saw |-> {}]
<1>1. task' = [task EXCEPT ![t] = x] BY Continued DEF EndBulk
<1>2. x \in TaskType BY Continued DEF TaskType
<1>3. x.at = "list" /\ x.todo = task[t].todo /\ x.saw = {} OBVIOUS
<1> HIDE DEF x
<1> QED BY <1>1, <1>2, <1>3, TaskTyped, Types
        DEF EndBulk, Typed, Answers, reviewTable

\* What becomes of a task whose list has arrived.
LEMMA ListingTyped ==
    ASSUME Typed, NEW t \in ReviewTasks, NEW S, ShowRecords(t, S)
    PROVE  /\ \E x \in TaskType :
                 /\ task' = [task EXCEPT ![t] = x] /\ x.at \notin Answers
                 /\ x.todo = {} /\ x.saw = {}
                 /\ x.at = IF task[t].op = "open" THEN "idle" ELSE "count"
                 /\ task[t].op # "open" => x.op = task[t].op
           /\ records' = S /\ loading' = FALSE /\ selected' \subseteq selected
           /\ UNCHANGED <<original, staged, confirming, badge>>
<1> DEFINE at == AfterList(task[t].op)
           x == IF at = "idle" THEN NoTask
                ELSE [NoTask EXCEPT !.op = task[t].op, !.at = at]
<1>1. at = IF task[t].op = "open" THEN "idle" ELSE "count"
      BY DEF AfterList
<1>2. task[t].op \in {"none", "open", "delete", "restore", "bulk"}
      BY Continued
<1>3. x = IF task[t].op = "open" THEN NoTask
          ELSE [op |-> task[t].op, todo |-> {}, at |-> "count", saw |-> {}]
      BY <1>1, Opened
<1>4. /\ x \in TaskType /\ x.at \notin Answers /\ x.todo = {} /\ x.saw = {}
      /\ x.at = IF task[t].op = "open" THEN "idle" ELSE "count"
      /\ task[t].op # "open" => x.op = task[t].op
      BY <1>2, <1>3, NoTaskType DEF NoTask, TaskType, Answers
<1>5. task' = [task EXCEPT ![t] = x] BY DEF ShowRecords
<1> HIDE DEF x
<1>6. /\ records' = S /\ loading' = FALSE /\ selected' \subseteq selected
      /\ UNCHANGED <<original, staged, confirming, badge>>
      BY DEF ShowRecords, reviewTable
<1> QED BY <1>4, <1>5, <1>6

\* A list that never arrives.
LEMMA LoseListTyped ==
    ASSUME Typed, NEW t \in ReviewTasks, LoseList(t) PROVE Typed'
<1>1. PICK x \in TaskType :
          /\ task' = [task EXCEPT ![t] = x] /\ x.at \notin Answers
          /\ x.todo = {} /\ x.saw = {}
      BY ListingTyped DEF LoseList
<1>2. /\ records' = {} /\ loading' = FALSE /\ selected' \subseteq selected
      /\ UNCHANGED <<original, staged, confirming, badge>>
      BY ListingTyped DEF LoseList
<1>3. task[t].at \notin Answers /\ moved' \subseteq ReadKinds
      BY Types DEF LoseList, Answers, Typed, ReadKinds
<1> QED BY <1>1, <1>2, <1>3, TaskTyped, Types DEF LoseList, Typed

\* A number that never arrives.
LEMMA LoseCountTyped ==
    ASSUME Typed, NEW t \in ReviewTasks, LoseCount(t) PROVE Typed'
<1>1. NoTask.at \notin Answers /\ NoTask.todo = {} /\ NoTask.saw = {}
      BY DEF NoTask, Answers
<1>2. moved' \subseteq ReadKinds BY Types DEF LoseCount, Typed, ReadKinds
<1> QED BY <1>1, <1>2, NoTaskType, TaskTyped, Types
        DEF LoseCount, Typed, Answers, reviewTable, reviewPage

\* Tasks that the user starts name rows of the page.
LEMMA ClickTyped ==
    ASSUME Typed, NEW t \in ReviewTasks, ClickRow(t) \/ ConfirmBulk(t)
    PROVE  Typed'
<1>1. PICK x \in TaskType :
          /\ task' = [task EXCEPT ![t] = x] /\ x.at \notin Answers
          /\ x.todo \subseteq records \cup selected /\ x.saw = {}
  <2>1. CASE ClickRow(t)
    <3>1. PICK r \in records, op \in {"delete", "restore"} :
              task' = [task EXCEPT ![t] =
                          [op |-> op, todo |-> {r}, at |-> "act", saw |-> {}]]
          BY <2>1 DEF ClickRow
    <3>2. [op |-> op, todo |-> {r}, at |-> "act", saw |-> {}] \in TaskType
          BY Rowed DEF TaskType
    <3> QED BY <3>1, <3>2 DEF Answers
  <2>2. CASE ConfirmBulk(t)
    <3>1. [op |-> "bulk", todo |-> selected, at |-> "act", saw |-> {}]
              \in TaskType
          BY Types DEF TaskType, Typed
    <3> QED BY <2>2, <3>1 DEF ConfirmBulk, Answers
  <2> QED BY <2>1, <2>2
<1>2. /\ records' = records /\ selected' = selected /\ loading' = loading
      /\ confirming' \in {confirming, FALSE}
      /\ UNCHANGED <<original, staged, badge, answered, overtaken, late,
                     moved>>
      BY DEF ClickRow, ConfirmBulk, reviewTable, reviewPage
<1>3. task[t].at \notin Answers BY DEF ClickRow, ConfirmBulk, Idle, Answers
<1> QED BY <1>1, <1>2, <1>3, TaskTyped, Types DEF Typed

\* Tasks that opening starts name nothing.
LEMMA OpenTyped ==
    ASSUME Typed, NEW t \in ReviewTasks, OpenLayout(t) \/ OpenReview(t)
    PROVE  Typed'
<1>1. PICK x \in TaskType :
          /\ task' = [task EXCEPT ![t] = x] /\ x.at \notin Answers
          /\ x.todo = {} /\ x.saw = {}
  <2>1. PICK a \in {"list", "count"} :
            task' = [task EXCEPT ![t] = [NoTask EXCEPT !.op = "open",
                                                       !.at = a]]
        BY DEF OpenLayout, OpenReview
  <2>2. [NoTask EXCEPT !.op = "open", !.at = a] =
            [op |-> "open", todo |-> {}, at |-> a, saw |-> {}]
        BY Opened
  <2>3. [op |-> "open", todo |-> {}, at |-> a, saw |-> {}] \in TaskType
        BY DEF TaskType
  <2> QED BY <2>1, <2>2, <2>3 DEF Answers
<1>2. /\ records' \in {records, {}} /\ selected' \in {selected, {}}
      /\ loading' \in {loading, TRUE} /\ confirming' \in {confirming, FALSE}
      /\ UNCHANGED <<original, staged, badge, answered, overtaken, late,
                     moved>>
      BY DEF OpenLayout, OpenReview, reviewTable, reviewPage
<1>3. task[t].at \notin Answers BY DEF OpenLayout, OpenReview, Idle, Answers
<1> QED BY <1>1, <1>2, <1>3, TaskTyped, Types DEF Typed

\* Ticks are rows of the page.
LEMMA TickTyped ==
    ASSUME Typed, ToggleSelect \/ SelectAll \/ AskBulk PROVE Typed'
<1>1. /\ selected' \subseteq selected \cup records
      /\ confirming' \in {confirming, ~confirming}
      /\ UNCHANGED <<original, staged, records, loading, badge, task,
                     answered, overtaken, late, moved>>
      BY DEF ToggleSelect, SelectAll, AskBulk, Select, reviewTable,
             reviewTasks
<1>2. ReviewTypeOK' BY <1>1 DEF Typed, ReviewTypeOK
<1>3. Queue' BY <1>1 DEF Typed, Queue
<1>4. Numbered' BY <1>1 DEF Typed, Numbered
<1> QED BY <1>2, <1>3, <1>4 DEF Typed

\* What others do to the table.
LEMMA TableTyped ==
    ASSUME Typed, Stage \/ Finish \/ Clear PROVE Typed'
<1>1. /\ UNCHANGED <<records, loading, selected, confirming, badge, task,
                     answered, overtaken, late>>
      /\ moved' = ReadKinds
      BY DEF Stage, Finish, Clear, Elsewhere, reviewPage, reviewTasks
<1>2. /\ original' \in TableType
      /\ staged' \in 0..MaxOriginals /\ staged <= staged'
      /\ \A i \in OriginalIds : original'[i].status = "held" =>
            \/ original[i].status = "held" /\ original'[i] = original[i]
            \/ original'[i].film = i /\ i <= staged'
  <2>1. original \in TableType /\ staged \in 0..MaxOriginals
        BY Types DEF Typed
  <2>2. CASE Stage
    <3>1. /\ staged' = staged + 1 /\ staged < MaxOriginals
          /\ original' = [original EXCEPT ![staged + 1] =
                             [status |-> "held", film |-> staged + 1]]
          BY <2>2 DEF Stage, NextOriginal
    <3>2. staged + 1 \in OriginalIds /\ staged + 1 \in 0..MaxOriginals
          BY <2>1, <3>1, ReviewAssumption DEF OriginalIds
    <3>3. staged <= staged' BY <2>1, <3>1, ReviewAssumption
    <3> QED BY <2>1, <3>1, <3>2, <3>3 DEF TableType
  <2>3. CASE Finish
    <3>1. PICK i \in Held(original) :
              original' = [original EXCEPT ![i].status = "gone"]
          BY <2>3 DEF Finish
    <3>2. i \in OriginalIds /\ original[i] \in
              [status : {"none", "held", "gone"}, film : 0..MaxOriginals]
          BY <2>1, <3>1 DEF Held, TableType
    <3> DEFINE x == [original[i] EXCEPT !.status = "gone"]
    <3>3. /\ x \in [status : {"none", "held", "gone"}, film : 0..MaxOriginals]
          /\ x.status = "gone" /\ original' = [original EXCEPT ![i] = x]
          BY <3>1, <3>2
    <3> HIDE DEF x
    <3>4. original' \in TableType BY <2>1, <3>2, <3>3 DEF TableType
    <3>5. \A k \in OriginalIds : original'[k].status = "held" =>
              original[k].status = "held" /\ original'[k] = original[k]
          BY <2>1, <3>2, <3>3 DEF TableType
    <3>6. staged' = staged BY <2>3 DEF Finish
    <3> QED BY <2>1, <3>4, <3>5, <3>6, ReviewAssumption
  <2>4. CASE Clear
    <3>1. /\ original' = [i \in OriginalIds |-> [status |-> "none",
                                                 film |-> 0]]
          /\ staged' = staged
          BY <2>4 DEF Clear
    <3>2. 0 \in 0..MaxOriginals BY ReviewAssumption
    <3> QED BY <2>1, <3>1, <3>2, ReviewAssumption DEF TableType
  <2> QED BY <2>2, <2>3, <2>4
<1>3. ReviewTypeOK'
      BY <1>1, <1>2 DEF Typed, ReviewTypeOK, TableType, ReadKinds
<1>4. Queue' BY <1>1 DEF Typed, Queue
<1>5. Numbered' BY <1>1, <1>2, Rowed, NumbersKept
<1> QED BY <1>3, <1>4, <1>5 DEF Typed

\* The server answers: the task joins the queue with the list.
LEMMA AnswerReadTyped ==
    ASSUME Typed, NEW t \in ReviewTasks, AnswerRead(t)
    PROVE  /\ Typed'
           /\ task' = [task EXCEPT ![t] =
                          [op |-> task[t].op, todo |-> task[t].todo,
                           at |-> IF task[t].at = "list" THEN "listed"
                                                         ELSE "counted",
                           saw |-> ListOriginals(original)]]
           /\ ~In(t, answered)
           /\ \A u, v : Precedes(u, v, answered') <=>
                  Precedes(u, v, answered) \/ (In(u, answered) /\ v = t)
<1> DEFINE x == [op |-> task[t].op, todo |-> task[t].todo,
                 at |-> IF task[t].at = "list" THEN "listed" ELSE "counted",
                 saw |-> ListOriginals(original)]
<1>1. task' = [task EXCEPT ![t] = x] BY Continued DEF AnswerRead
<1>2. x \in TaskType BY Continued, Listing DEF TaskType
<1>3. x.at \in Answers /\ x.todo = task[t].todo
      /\ x.saw = ListOriginals(original)
      BY DEF Answers
<1> HIDE DEF x
<1>4. /\ task' \in [ReviewTasks -> TaskType] /\ task'[t] = x
      /\ \A u \in ReviewTasks \ {t} : task'[u] = task[u]
      BY <1>1, <1>2, TaskReplaced, Types DEF Typed
<1>5. task[t].at \notin Answers BY DEF AnswerRead, Answers, ReadKinds
<1>6. /\ answered \in Seq(ReviewTasks) /\ Distinct(answered)
      /\ ~In(t, answered) /\ answered' = Append(answered, t)
      BY <1>5, Types DEF Typed, Queue, AnswerRead
<1>7. /\ answered' \in Seq(ReviewTasks) /\ Distinct(answered')
      /\ \A u : In(u, answered') <=> In(u, answered) \/ u = t
      /\ \A u, v : Precedes(u, v, answered') <=>
                       Precedes(u, v, answered) \/ (In(u, answered) /\ v = t)
  <2>1. \A p : p = Append(answered, t) =>
            /\ p \in Seq(ReviewTasks) /\ Distinct(p)
            /\ \A u : In(u, p) <=> In(u, answered) \/ u = t
            /\ \A u, v : Precedes(u, v, p) <=>
                   Precedes(u, v, answered) \/ (In(u, answered) /\ v = t)
        BY <1>6, Joining
  <2> QED BY <1>6, <2>1
<1>8. Queue'
  <2>1. \A u \in ReviewTasks : In(u, answered') <=> task'[u].at \in Answers
        BY <1>3, <1>4, <1>7 DEF Typed, Queue
  <2>2. overtaken' = overtaken BY DEF AnswerRead
  <2> QED BY <1>7, <2>1, <2>2 DEF Typed, Queue
<1>9. /\ UNCHANGED <<original, staged, records, selected, loading,
                     confirming, badge, overtaken, late>>
      /\ moved' \subseteq ReadKinds
      BY Types DEF AnswerRead, Typed, reviewTable, reviewPage
<1>10. ReviewTypeOK'
       BY <1>4, <1>7, <1>9, Types DEF Typed, ReviewTypeOK, TaskType, TableType
<1>11. Numbered'
  <2>1. \A u \in ReviewTasks : \A r \in task'[u].todo \cup task'[u].saw :
            r.film = r.id /\ r.id \in Int /\ r.id <= staged
    <3>1. \A r \in x.todo \cup x.saw :
              r.film = r.id /\ r.id \in Int /\ r.id <= staged
      <4>1. \A r \in SeenRows : r.id \in Int BY DEF SeenRows, OriginalIds
      <4> QED BY <1>3, <4>1, Rowed, Listing
    <3> QED BY <1>4, <3>1, Rowed
  <2>2. staged' \in 0..MaxOriginals /\ staged <= staged'
        BY <1>9, Types, ReviewAssumption DEF Typed
  <2> QED BY <1>9, <2>1, <2>2, Rowed, NumbersKept
<1> QED BY <1>1, <1>6, <1>7, <1>8, <1>10, <1>11 DEF Typed, x

\* A list is shown.
LEMMA ShowListTyped ==
    ASSUME Typed, NEW t \in ReviewTasks, ShowList(t) PROVE Typed'
<1>1. PICK x \in TaskType :
          /\ task' = [task EXCEPT ![t] = x] /\ x.at \notin Answers
          /\ x.todo = {} /\ x.saw = {}
      BY ListingTyped DEF ShowList
<1>2. /\ records' = task[t].saw /\ loading' = FALSE
      /\ selected' \subseteq selected
      /\ UNCHANGED <<original, staged, confirming, badge, moved>>
      BY ListingTyped DEF ShowList
<1>3. /\ task' \in [ReviewTasks -> TaskType] /\ task'[t] = x
      /\ \A u \in ReviewTasks \ {t} : task'[u] = task[u]
      BY <1>1, TaskReplaced, Types DEF Typed
<1>4. task[t].at \in Answers /\ "list" \in ReadKinds
      BY DEF ShowList, Answers, ReadKinds
<1>5. /\ answered' \in Seq(ReviewTasks) /\ Queue'
      /\ overtaken' \subseteq ReviewTasks /\ late' \subseteq ReadKinds
      BY <1>1, <1>3, <1>4, Delivered DEF ShowList
<1>6. records' \subseteq SeenRows BY <1>2, Rowed
<1>7. ReviewTypeOK'
      BY <1>2, <1>3, <1>5, <1>6, Types
      DEF Typed, ReviewTypeOK, TaskType, TableType
<1>8. Numbered'
  <2>1. \A u \in ReviewTasks : \A r \in task'[u].todo \cup task'[u].saw :
            r.film = r.id /\ r.id \in Int /\ r.id <= staged
        BY <1>1, <1>3, Rowed
  <2>2. staged' \in 0..MaxOriginals /\ staged <= staged'
        BY <1>2, Types, ReviewAssumption DEF Typed
  <2>3. \A r \in records' \cup selected' :
            r.film = r.id /\ r.id \in Int /\ r.id <= staged
        BY <1>2, Rowed
  <2> QED BY <1>2, <2>1, <2>2, <2>3, NumbersKept
<1> QED BY <1>5, <1>7, <1>8 DEF Typed

\* A number is shown.
LEMMA ShowCountTyped ==
    ASSUME Typed, NEW t \in ReviewTasks, ShowCount(t) PROVE Typed'
<1>1. /\ task' \in [ReviewTasks -> TaskType] /\ task'[t] = NoTask
      /\ \A u \in ReviewTasks \ {t} : task'[u] = task[u]
      BY TaskReplaced, NoTaskType, Types DEF Typed, ShowCount
<1>2. NoTask.at \notin Answers /\ NoTask.todo = {} /\ NoTask.saw = {}
      BY DEF NoTask, Answers
<1>3. task[t].at \in Answers /\ "count" \in ReadKinds
      BY DEF ShowCount, Answers, ReadKinds
<1>4. /\ answered' \in Seq(ReviewTasks) /\ Queue'
      /\ overtaken' \subseteq ReviewTasks /\ late' \subseteq ReadKinds
      BY <1>1, <1>2, <1>3, Delivered DEF ShowCount
<1>5. UNCHANGED <<original, staged, records, loading, selected, confirming,
                  moved>>
      BY DEF ShowCount, reviewTable
<1>6. badge' \in 0..MaxOriginals
  <2>1. task[t].saw \in SUBSET SeenRows /\ \A r \in task[t].saw : r.film = r.id
        BY Rowed
  <2> QED BY <2>1, Few DEF ShowCount
<1>7. ReviewTypeOK'
      BY <1>1, <1>4, <1>5, <1>6, Types
      DEF Typed, ReviewTypeOK, TaskType, TableType
<1>8. Numbered'
  <2>1. \A u \in ReviewTasks : \A r \in task'[u].todo \cup task'[u].saw :
            r.film = r.id /\ r.id \in Int /\ r.id <= staged
        BY <1>1, <1>2, Rowed
  <2>2. staged' \in 0..MaxOriginals /\ staged <= staged'
        BY <1>5, Types, ReviewAssumption DEF Typed
  <2> QED BY <1>5, <2>1, <2>2, Rowed, NumbersKept
<1> QED BY <1>4, <1>7, <1>8 DEF Typed

\* The page at the start.
LEMMA TypedStart == ReviewInit => Typed
<1> SUFFICES ASSUME ReviewInit PROVE Typed OBVIOUS
<1>1. PICK n \in 0..MaxOriginals :
          /\ staged = n
          /\ original = [i \in OriginalIds |->
                            IF i <= n THEN [status |-> "held", film |-> i]
                                      ELSE [status |-> "none", film |-> 0]]
      BY DEF ReviewInit
<1>2. OriginalIds \subseteq 0..MaxOriginals /\ 0 \in 0..MaxOriginals
      BY ReviewAssumption DEF OriginalIds
<1>3. original \in TableType BY <1>1, <1>2 DEF TableType
<1>4. task \in [ReviewTasks -> TaskType] BY NoTaskType DEF ReviewInit
<1>5. answered \in Seq(ReviewTasks) /\ DOMAIN answered = {}
      BY EmptySeq DEF ReviewInit
<1>6. ReviewTypeOK BY <1>1, <1>2, <1>3, <1>4, <1>5, Types DEF ReviewInit
<1>7. Queue
      BY <1>5 DEF Queue, Distinct, In, ReviewInit, NoTask, Answers
<1>8. Numbered BY <1>1 DEF Numbered, ReviewInit, NoTask
<1> QED BY <1>6, <1>7, <1>8 DEF Typed

\* Every step keeps types, queue and numbers.
LEMMA TypedStep == Typed /\ [ReviewNext]_reviewVars => Typed'
<1> SUFFICES ASSUME Typed, [ReviewNext]_reviewVars PROVE Typed' OBVIOUS
<1>1. CASE UNCHANGED reviewVars
      BY <1>1 DEF reviewVars, reviewTable, reviewPage, reviewTasks, Typed,
                  ReviewTypeOK, Queue, Numbered
<1>2. CASE \E t \in ReviewTasks : ReviewTask(t)
      BY <1>2, ActOneTyped, ActBulkTyped, EndBulkTyped, AnswerReadTyped,
         ShowListTyped, LoseListTyped, ShowCountTyped, LoseCountTyped,
         ClickTyped, OpenTyped
      DEF ReviewTask
<1> QED BY <1>1, <1>2, TickTyped, TableTyped DEF ReviewNext

\* Every reachable state is typed.
THEOREM ReviewTypes == ReviewSpec => []ReviewTypeOK
<1>1. Typed => ReviewTypeOK BY DEF Typed
<1> QED BY <1>1, TypedStart, TypedStep, PTL DEF ReviewSpec

\* What is deleted or restored is the film that was seen in the row.
THEOREM RequestsAreMeant == ReviewSpec => []RequestsNameWhatWasSeen
<1>1. Typed => RequestsNameWhatWasSeen
  <2> SUFFICES ASSUME Typed,
                      NEW r \in records \cup selected
                          \cup UNION {task[t].todo : t \in ReviewTasks},
                      original[r.id].status = "held"
               PROVE  original[r.id].film = r.film
      BY DEF RequestsNameWhatWasSeen
  <2>1. r.film = r.id /\ r \in SeenRows BY Rowed
  <2>2. r.id \in OriginalIds BY <2>1 DEF SeenRows
  <2> QED BY <2>1, <2>2 DEF Typed, Numbered
<1> QED BY <1>1, TypedStart, TypedStep, PTL DEF ReviewSpec

-----------------------------------------------------------------------------
(* Ticks of rows that are out of sight. *)

Lists(t) == task[t].at = "listed"

IsHeld(r) == original[r.id].status = "held"

\* A later list has every row of an earlier one that is still held.
Succession ==
    \A t, u \in ReviewTasks :
        Lists(t) /\ Lists(u) /\ Precedes(t, u, answered) =>
            \A r \in task[t].saw : IsHeld(r) => r \in task[u].saw

\* A list that none has overtaken has every row on the screen and every
\* ticked one that is still held.
Fuller ==
    \A t \in ReviewTasks \ overtaken : Lists(t) =>
        \A r \in records \cup selected : IsHeld(r) => r \in task[t].saw

Ticks == Succession /\ Fuller /\ HiddenTicksAreSpent

\* Steps that neither ask the server for a list nor show one.
LEMMA TicksLeft ==
    ASSUME Typed, Ticks,
           \A u \in ReviewTasks : Lists(u)' =>
               /\ Lists(u) /\ task'[u].saw = task[u].saw
               /\ u \in overtaken => u \in overtaken',
           \A u, v \in ReviewTasks :
               Precedes(u, v, answered') => Precedes(u, v, answered),
           \A i \in OriginalIds : i <= staged /\ original'[i].status = "held"
                                  => original[i].status = "held",
           records' \subseteq records,
           selected' \subseteq selected \cup records,
           records' = {} \/ (records' = records /\ loading' = loading),
           "list" \in late => "list" \in late'
    PROVE  Ticks'
<1>1. /\ \A r \in records \cup selected : IsHeld(r)' => IsHeld(r)
      /\ \A t \in ReviewTasks : \A r \in task[t].saw : IsHeld(r)' => IsHeld(r)
  <2>1. \A r \in SeenRows : r.id \in OriginalIds BY DEF SeenRows
  <2> QED BY <2>1, Rowed DEF IsHeld
<1>2. Succession' BY <1>1 DEF Ticks, Succession
<1>3. Fuller' BY <1>1 DEF Ticks, Fuller
<1>4. HiddenTicksAreSpent'
      BY <1>1 DEF Ticks, HiddenTicksAreSpent, Controls, IsHeld
<1> QED BY <1>2, <1>3, <1>4 DEF Ticks

\* A task that is not listed afterwards, the others as they were.
LEMMA OneTask ==
    ASSUME Typed, NEW t \in ReviewTasks, NEW x, task' = [task EXCEPT ![t] = x]
    PROVE  /\ task'[t] = x
           /\ \A u \in ReviewTasks \ {t} : task'[u] = task[u]
           /\ x.at # "listed" =>
                  \A u \in ReviewTasks : Lists(u)' => task'[u] = task[u]
BY Types DEF Typed, Lists

\* The steps of the tasks but the reads and their answers.
LEMMA TaskTicks ==
    ASSUME Typed, Ticks, NEW t \in ReviewTasks,
           \/ ActOne(t) \/ ActBulk(t) \/ EndBulk(t) \/ LoseList(t)
           \/ LoseCount(t) \/ ClickRow(t) \/ ConfirmBulk(t)
           \/ OpenLayout(t) \/ OpenReview(t)
    PROVE  Ticks'
<1>1. PICK x : task' = [task EXCEPT ![t] = x] /\ x.at # "listed"
  <2>1. CASE ActOne(t)
    <3>1. NoTask.at # "listed" BY DEF NoTask
    <3>2. PICK a \in {1} : task' = Continue(t, "list", {})
                           \/ task' = [task EXCEPT ![t] = NoTask]
          BY <2>1 DEF ActOne
    <3>3. Continue(t, "list", {}) =
              [task EXCEPT ![t] = [op |-> task[t].op, todo |-> task[t].todo,
                                   at |-> "list", saw |-> {}]]
          BY Continued
    <3> QED BY <3>1, <3>2, <3>3
  <2>2. CASE ActBulk(t)
    <3>1. PICK r : task' = [task EXCEPT ![t].todo = @ \ {r}]
          BY <2>2 DEF ActBulk
    <3> DEFINE x == [task[t] EXCEPT !.todo = @ \ {r}]
    <3>2. x.at = "act" BY <2>2, Continued DEF ActBulk, TaskType
    <3>3. task' = [task EXCEPT ![t] = x] BY <3>1
    <3> QED BY <3>2, <3>3
  <2>3. CASE EndBulk(t)
    <3> DEFINE y == [op |-> task[t].op, todo |-> task[t].todo,
                     at |-> "list", saw |-> {}]
    <3>1. task' = [task EXCEPT ![t] = y] BY <2>3, Continued DEF EndBulk
    <3>2. y.at # "listed" OBVIOUS
    <3> QED BY <3>1, <3>2, Zenon
  <2>4. CASE LoseList(t)
    <3>1. ShowRecords(t, {}) BY <2>4 DEF LoseList
    <3> QED BY <3>1, ListingTyped DEF Answers
  <2>5. CASE LoseCount(t) 
    <3>1. NoTask.at # "listed" BY DEF NoTask
    <3> QED BY <2>5, <3>1 DEF LoseCount
  <2>6. CASE ClickRow(t) \/ ConfirmBulk(t)
    <3>1. PICK o, d : task' = [task EXCEPT ![t] = [op |-> o, todo |-> d,
                                                  at |-> "act", saw |-> {}]]
          BY <2>6 DEF ClickRow, ConfirmBulk
    <3> DEFINE y == [op |-> o, todo |-> d, at |-> "act", saw |-> {}]
    <3>2. y.at # "listed" OBVIOUS
    <3> QED BY <3>1, <3>2, Zenon
  <2>7. CASE OpenLayout(t) \/ OpenReview(t)
    <3>1. PICK a \in {"list", "count"} :
              task' = [task EXCEPT ![t] = [NoTask EXCEPT !.op = "open",
                                                         !.at = a]]
          BY <2>7 DEF OpenLayout, OpenReview
    <3>2. [NoTask EXCEPT !.op = "open", !.at = a] =
              [op |-> "open", todo |-> {}, at |-> a, saw |-> {}]
          BY Opened
    <3>3. [NoTask EXCEPT !.op = "open", !.at = a].at # "listed" BY <3>2
    <3> QED BY <3>1, <3>3, Zenon
  <2> QED BY <2>1, <2>2, <2>3, <2>4, <2>5, <2>6, <2>7
<1>2. \A u \in ReviewTasks : Lists(u)' => task'[u] = task[u]
      BY <1>1, OneTask
<1>3. /\ staged' = staged
      /\ \A i \in OriginalIds : original'[i].status = "held" =>
                                    original[i].status = "held"
  <2>1. CASE ActOne(t) \/ ActBulk(t)
    <3>1. PICK r \in task[t].todo, outcome \in Outcomes : Resolve(r, outcome)
          BY <2>1 DEF ActOne, ActBulk
    <3>2. r \in SeenRows BY Rowed
    <3>3. staged' = staged BY <2>1 DEF ActOne, ActBulk
    <3> QED BY <3>1, <3>2, <3>3, Resolved
  <2>2. CASE ~(ActOne(t) \/ ActBulk(t))
        BY <2>2 DEF EndBulk, LoseList, ShowRecords, LoseCount, ClickRow,
                    ConfirmBulk, OpenLayout, OpenReview, reviewTable
  <2> QED BY <2>1, <2>2
<1>4. UNCHANGED <<answered, overtaken, late>>
      BY DEF ActOne, ActBulk, EndBulk, LoseList, LoseCount, ClickRow,
             ConfirmBulk, OpenLayout, OpenReview
<1>5. /\ selected' \subseteq selected
      /\ records' = {} \/ (records' = records /\ loading' = loading)
  <2>1. CASE LoseList(t) BY <2>1, ListingTyped DEF LoseList
  <2>2. CASE ~LoseList(t)
        BY <2>2 DEF ActOne, ActBulk, EndBulk, LoseCount, ClickRow,
                    ConfirmBulk, OpenLayout, OpenReview, reviewPage
  <2> QED BY <2>1, <2>2
<1>6. records' \subseteq records BY <1>5
<1> QED BY <1>2, <1>3, <1>4, <1>5, <1>6, TicksLeft DEF Lists

\* Ticking adds rows of the page only.
LEMMA TickTicks ==
    ASSUME Typed, Ticks, ToggleSelect \/ SelectAll \/ AskBulk PROVE Ticks'
<1>1. /\ selected' \subseteq selected \cup records
      /\ UNCHANGED <<original, staged, records, loading, task, answered,
                     overtaken, late>>
      BY DEF ToggleSelect, SelectAll, AskBulk, Select, reviewTable,
             reviewTasks
<1> QED BY <1>1, TicksLeft DEF Lists

\* What others do to the table.
LEMMA TableTicks ==
    ASSUME Typed, Ticks, Stage \/ Finish \/ Clear PROVE Ticks'
<1>1. UNCHANGED <<records, loading, selected, task, answered, overtaken,
                  late>>
      BY DEF Stage, Finish, Clear, Elsewhere, reviewPage, reviewTasks
<1>2. /\ original \in TableType /\ staged \in 0..MaxOriginals
      /\ OriginalIds \subseteq Int
      BY Types DEF Typed, OriginalIds
<1>3. \A i \in OriginalIds : i <= staged /\ original'[i].status = "held"
                             => original[i].status = "held"
  <2>1. CASE Stage
    <3>1. \A i \in OriginalIds : i <= staged => i # staged + 1
          BY <1>2, ReviewAssumption
    <3> QED BY <1>2, <2>1, <3>1 DEF Stage, NextOriginal, TableType
  <2>2. CASE Finish BY <1>2, <2>2 DEF Finish, Held, TableType
  <2>3. CASE Clear BY <2>3 DEF Clear
  <2> QED BY <2>1, <2>2, <2>3
<1> QED BY <1>1, <1>3, TicksLeft DEF Lists

\* The server answers: the list is the fullest, and the last.
LEMMA AnswerTicks ==
    ASSUME Typed, Ticks, NEW t \in ReviewTasks, AnswerRead(t) PROVE Ticks'
<1>1. /\ \A u \in ReviewTasks \ {t} : task'[u] = task[u]
      /\ task'[t].saw = ListOriginals(original)
      BY AnswerReadTyped, OneTask
<1>2. /\ \A u, v : Precedes(u, v, answered') <=>
             Precedes(u, v, answered) \/ (In(u, answered) /\ v = t)
      /\ ~In(t, answered)
      BY AnswerReadTyped
<1>3. UNCHANGED <<original, staged, records, selected, loading, overtaken,
                  late>>
      BY DEF AnswerRead, reviewTable, reviewPage
<1>4. \A r \in SeenRows : r.film = r.id /\ IsHeld(r) =>
                              r \in ListOriginals(original)
      BY Listing DEF IsHeld
<1>5. Succession'
  <2> SUFFICES ASSUME NEW u \in ReviewTasks, NEW v \in ReviewTasks,
                      Lists(u)', Lists(v)', Precedes(u, v, answered'),
                      NEW r \in task'[u].saw, IsHeld(r)'
               PROVE  r \in task'[v].saw
      BY DEF Succession
  <2>1. u # t
    <3>1. Distinct(answered) /\ answered \in Seq(ReviewTasks)
          BY Types DEF Typed, Queue
    <3> QED BY <1>2, <3>1, Ordered
  <2>2. r \in SeenRows /\ r.film = r.id /\ r \in task[u].saw
        BY <1>1, <2>1, Rowed
  <2>3. IsHeld(r) BY <1>3 DEF IsHeld
  <2>4. CASE v = t BY <1>1, <1>4, <2>2, <2>3, <2>4
  <2>5. CASE v # t
    <3>1. Lists(u) /\ Lists(v) BY <1>1, <2>1, <2>5 DEF Lists
    <3> QED BY <1>1, <1>2, <2>2, <2>3, <2>5, <3>1 DEF Ticks, Succession
  <2> QED BY <2>4, <2>5
<1>6. Fuller'
  <2> SUFFICES ASSUME NEW u \in ReviewTasks \ overtaken', Lists(u)',
                      NEW r \in records' \cup selected', IsHeld(r)'
               PROVE  r \in task'[u].saw
      BY DEF Fuller
  <2>1. r \in SeenRows /\ r.film = r.id /\ IsHeld(r)
        BY <1>3, Rowed DEF IsHeld
  <2>2. CASE u = t BY <1>1, <1>4, <2>1, <2>2
  <2>3. CASE u # t BY <1>1, <1>3, <2>1, <2>3 DEF Ticks, Fuller, Lists
  <2> QED BY <2>2, <2>3
<1>7. HiddenTicksAreSpent'
      BY <1>3 DEF Ticks, HiddenTicksAreSpent, Controls
<1> QED BY <1>5, <1>6, <1>7 DEF Ticks

\* A list is shown: it has the ticked rows that are held unless a later one
\* has been shown before it.
LEMMA ShowTicks ==
    ASSUME Typed, Ticks, NEW t \in ReviewTasks, ShowList(t) PROVE Ticks'
<1>1. /\ Lists(t) /\ task'[t].at \notin Answers
      /\ \A u \in ReviewTasks \ {t} : task'[u] = task[u]
      /\ records' = task[t].saw /\ selected' \subseteq selected
      /\ UNCHANGED <<original, staged>>
  <2>1. ShowRecords(t, task[t].saw) BY DEF ShowList
  <2> QED BY <2>1, ListingTyped, OneTask DEF ShowList, Lists
<1>2. /\ \A u, v : Precedes(u, v, answered') <=>
                       Precedes(u, v, answered) /\ u # t /\ v # t
      /\ \A u : u \in overtaken' <=>
             \/ u \in overtaken /\ u # t
             \/ Precedes(u, t, answered) /\ task[u].at = task[t].at
      /\ late' = IF t \in overtaken THEN late \cup {"list"}
                                    ELSE late \ {"list"}
  <2>1. task[t].at \in Answers /\ "list" \in ReadKinds
        BY <1>1 DEF Lists, Answers, ReadKinds
  <2>2. Deliver(t, "list") BY DEF ShowList
  <2> QED BY <1>1, <2>1, <2>2, Delivered
<1>3. \A u \in ReviewTasks : Lists(u)' =>
          u # t /\ Lists(u) /\ task'[u].saw = task[u].saw
      BY <1>1 DEF Lists, Answers
<1>4. \A r : IsHeld(r)' <=> IsHeld(r) BY <1>1 DEF IsHeld
<1>5. Succession' BY <1>2, <1>3, <1>4 DEF Ticks, Succession
<1>6. Fuller'
  <2> SUFFICES ASSUME NEW u \in ReviewTasks \ overtaken', Lists(u)',
                      NEW r \in records' \cup selected', IsHeld(r)'
               PROVE  r \in task'[u].saw
      BY DEF Fuller
  <2>1. u # t /\ Lists(u) /\ task'[u].saw = task[u].saw BY <1>3
  <2>2. u \notin overtaken /\ ~Precedes(u, t, answered)
        BY <1>1, <1>2, <2>1 DEF Lists
  <2>3. CASE r \in task[t].saw
    <3>1. In(u, answered) /\ In(t, answered)
          BY <1>1, <2>1 DEF Lists, Typed, Queue, Answers
    <3>2. Distinct(answered) /\ answered \in Seq(ReviewTasks)
          BY Types DEF Typed, Queue
    <3>3. Precedes(t, u, answered) BY <2>1, <2>2, <3>1, <3>2, Ordered
    <3> QED BY <1>1, <1>4, <2>1, <2>3, <3>3 DEF Ticks, Succession
  <2>4. CASE r \in selected
        BY <1>4, <2>1, <2>2, <2>4 DEF Ticks, Fuller
  <2> QED BY <1>1, <2>3, <2>4
<1>7. HiddenTicksAreSpent'
  <2> SUFFICES ASSUME "list" \notin late', NEW s \in selected' \ records',
                      IsHeld(s)'
               PROVE  FALSE
      BY DEF HiddenTicksAreSpent, IsHeld
  <2>1. t \notin overtaken BY <1>2
  <2>2. s \in task[t].saw BY <1>1, <1>4, <2>1 DEF Ticks, Fuller
  <2> QED BY <1>1, <2>2
<1> QED BY <1>5, <1>6, <1>7 DEF Ticks

\* A number in the header changes no tick.
LEMMA CountTicks ==
    ASSUME Typed, Ticks, NEW t \in ReviewTasks, ShowCount(t) PROVE Ticks'
<1>1. /\ task[t].at = "counted" /\ task'[t] = NoTask
      /\ \A u \in ReviewTasks \ {t} : task'[u] = task[u]
      /\ UNCHANGED <<original, staged, records, loading, selected>>
      BY OneTask DEF ShowCount, reviewTable
<1>2. /\ \A u, v : Precedes(u, v, answered') <=>
                       Precedes(u, v, answered) /\ u # t /\ v # t
      /\ \A u : u \in overtaken' <=>
             \/ u \in overtaken /\ u # t
             \/ Precedes(u, t, answered) /\ task[u].at = task[t].at
      /\ late' = IF t \in overtaken THEN late \cup {"count"}
                                    ELSE late \ {"count"}
  <2>1. /\ task[t].at \in Answers /\ "count" \in ReadKinds
        /\ task'[t].at \notin Answers
        BY <1>1 DEF NoTask, Answers, ReadKinds
  <2>2. Deliver(t, "count") BY DEF ShowCount
  <2> QED BY <1>1, <2>1, <2>2, Delivered
<1>3. \A u \in ReviewTasks : Lists(u)' => u # t /\ task'[u] = task[u]
      BY <1>1 DEF Lists, NoTask
<1>4. "list" \in late => "list" \in late' BY <1>2
<1> QED BY <1>1, <1>2, <1>3, <1>4, TicksLeft DEF Lists

\* "Delete n originals" destroys nothing that is out of sight.
THEOREM HiddenTicksAreNothing == ReviewSpec => []HiddenTicksAreSpent
<1>1. ReviewInit => Ticks
      BY DEF ReviewInit, Ticks, Succession, Fuller, HiddenTicksAreSpent,
             Controls, Lists, NoTask
<1>2. Typed /\ Ticks /\ [ReviewNext]_reviewVars => Ticks'
  <2> SUFFICES ASSUME Typed, Ticks, [ReviewNext]_reviewVars PROVE Ticks'
      OBVIOUS
  <2>1. CASE UNCHANGED reviewVars
        BY <2>1 DEF reviewVars, reviewTable, reviewPage, reviewTasks, Ticks,
                    Succession, Fuller, HiddenTicksAreSpent, Controls, Lists,
                    IsHeld
  <2>2. CASE \E t \in ReviewTasks : ReviewTask(t)
        BY <2>2, TaskTicks, AnswerTicks, ShowTicks, CountTicks DEF ReviewTask
  <2> QED BY <2>1, <2>2, TickTicks, TableTicks DEF ReviewNext
<1>3. Ticks => HiddenTicksAreSpent BY DEF Ticks
<1> QED BY <1>1, <1>2, <1>3, TypedStart, TypedStep, PTL DEF ReviewSpec

-----------------------------------------------------------------------------
(* What is on the screen when every handler has ended. *)

AnsweredAt(k) == IF k = "list" THEN "listed" ELSE "counted"

\* A task that will read, or change the originals and then read.
Pends(x, k) ==
    \/ x.at = k
    \/ x.op = "bulk" /\ x.at = "act"
    \/ k = "count" /\ x.op # "open" /\ x.at \in {"list", "listed"}

Pending(k) == \E t \in ReviewTasks : Pends(task[t], k)

Under(t, k) == task[t].at = AnsweredAt(k)

\* The last of the answers under way that none has overtaken.
Newest(t, k) ==
    /\ Under(t, k) /\ t \notin overtaken
    /\ \A u \in ReviewTasks : Under(u, k) /\ u \notin overtaken =>
                                  ~Precedes(t, u, answered)

Shows(k) == IF k = "list" THEN records = ListOriginals(original)
            ELSE badge = Cardinality(ListOriginals(original))

\* Unless a read is still to come, the newest answer is that of the table,
\* and what is shown is, when all that is under way has been overtaken.
Fresh(k) ==
    k \notin moved /\ ~Pending(k) =>
        /\ \A t \in ReviewTasks : Newest(t, k) =>
                                      task[t].saw = ListOriginals(original)
        /\ (\A t \in ReviewTasks : Under(t, k) => t \in overtaken)
           /\ k \notin late => Shows(k)

\* A step that has nothing to do with the answers of a kind.
LEMMA FreshKept ==
    ASSUME NEW k \in ReadKinds, Fresh(k),
           \/ k \in moved' \/ Pending(k)'
           \/ /\ k \notin moved /\ ~Pending(k) /\ original' = original
              /\ Shows(k)' <=> Shows(k)
              /\ k \notin late' => k \notin late
              /\ \A u \in ReviewTasks :
                    /\ Under(u, k)' <=> Under(u, k)
                    /\ Under(u, k) => /\ task'[u].saw = task[u].saw
                                      /\ u \in overtaken' <=> u \in overtaken
              /\ \A u, v \in ReviewTasks : Under(u, k) /\ Under(v, k) =>
                    (Precedes(u, v, answered') <=> Precedes(u, v, answered))
    PROVE  Fresh(k)'
<1>1. CASE k \in moved' \/ Pending(k)' BY <1>1 DEF Fresh
<1>2. CASE /\ k \notin moved /\ ~Pending(k) /\ original' = original
           /\ Shows(k)' <=> Shows(k)
           /\ k \notin late' => k \notin late
           /\ \A u \in ReviewTasks :
                 /\ Under(u, k)' <=> Under(u, k)
                 /\ Under(u, k) => /\ task'[u].saw = task[u].saw
                                   /\ u \in overtaken' <=> u \in overtaken
           /\ \A u, v \in ReviewTasks : Under(u, k) /\ Under(v, k) =>
                 (Precedes(u, v, answered') <=> Precedes(u, v, answered))
  <2>1. ASSUME NEW t \in ReviewTasks, Newest(t, k)'
        PROVE  Newest(t, k) /\ task'[t].saw = task[t].saw
        BY <1>2, <2>1 DEF Newest
  <2>2. (\A t \in ReviewTasks : Under(t, k)' => t \in overtaken') =>
            \A t \in ReviewTasks : Under(t, k) => t \in overtaken
        BY <1>2
  <2> QED BY <1>2, <2>1, <2>2 DEF Fresh
<1> QED BY <1>1, <1>2

\* One task changes, without an answer of the kind before or after.
LEMMA OneFresh ==
    ASSUME Typed, NEW k \in ReadKinds, Fresh(k), NEW t \in ReviewTasks, NEW x,
           task' = [task EXCEPT ![t] = x],
           UNCHANGED <<answered, overtaken, late>>,
           task[t].at # AnsweredAt(k), x.at # AnsweredAt(k),
           k \in moved => k \in moved',
           \/ k \in moved' \/ Pends(x, k)
           \/ /\ ~Pends(task[t], k) /\ original' = original
              /\ Shows(k)' <=> Shows(k)
    PROVE  Fresh(k)'
<1>1. task'[t] = x /\ \A u \in ReviewTasks \ {t} : task'[u] = task[u]
      BY OneTask
<1>2. CASE k \in moved' \/ Pends(x, k)
      BY <1>1, <1>2, FreshKept DEF Pending
<1>3. CASE ~(k \in moved' \/ Pends(x, k))
  <2>1. CASE Pending(k)' BY <2>1, FreshKept
  <2>2. CASE ~Pending(k)'
    <3>1. ~Pending(k) BY <1>1, <1>3, <2>2 DEF Pending
    <3>2. \A u \in ReviewTasks :
              /\ Under(u, k)' <=> Under(u, k)
              /\ Under(u, k) => task'[u].saw = task[u].saw
          BY <1>1 DEF Under
    <3> QED BY <1>3, <3>1, <3>2, FreshKept
  <2> QED BY <2>1, <2>2
<1> QED BY <1>2, <1>3

\* The steps of the tasks but the reads and their answers.
LEMMA TaskFresh ==
    ASSUME Typed, NEW k \in ReadKinds, Fresh(k), NEW t \in ReviewTasks,
           \/ ActOne(t) \/ ActBulk(t) \/ EndBulk(t) \/ LoseList(t)
           \/ LoseCount(t) \/ ClickRow(t) \/ ConfirmBulk(t)
           \/ OpenLayout(t) \/ OpenReview(t)
    PROVE  Fresh(k)'
<1> USE DEF ReadKinds
<1>1. UNCHANGED <<answered, overtaken, late>>
      BY DEF ActOne, ActBulk, EndBulk, LoseList, LoseCount, ClickRow,
             ConfirmBulk, OpenLayout, OpenReview
<1>2. k \in moved => k \in moved'
      BY DEF ActOne, ActBulk, EndBulk, LoseList, LoseCount, ClickRow,
             ConfirmBulk, OpenLayout, OpenReview
<1>3. NoTask.at # AnsweredAt(k) /\ NoTask.op = "none" /\ NoTask.at = "idle"
      BY DEF NoTask, AnsweredAt
<1>4. AnsweredAt(k) \in Answers BY DEF AnsweredAt, Answers
<1>5. CASE ActOne(t)
  <2>1. task[t].at # AnsweredAt(k) BY <1>5 DEF ActOne, AnsweredAt
  <2>2. CASE task' = [task EXCEPT ![t] = NoTask] /\ moved' = ReadKinds
        BY <1>1, <1>2, <1>3, <2>1, <2>2, OneFresh
  <2>3. CASE task' = Continue(t, "list", {})
    <3> DEFINE x == [op |-> task[t].op, todo |-> task[t].todo,
                     at |-> "list", saw |-> {}]
    <3>1. task' = [task EXCEPT ![t] = x] BY <2>3, Continued
    <3>2. x.at = "list" /\ x.op = task[t].op OBVIOUS
    <3> HIDE DEF x
    <3>3. x.at # AnsweredAt(k) /\ Pends(x, k)
          BY <1>5, <3>2 DEF AnsweredAt, Pends, ActOne
    <3> QED BY <1>1, <1>2, <2>1, <3>1, <3>3, OneFresh
  <2> QED BY <1>5, <2>2, <2>3 DEF ActOne
<1>6. CASE ActBulk(t)
  <2>1. PICK r : task' = [task EXCEPT ![t].todo = @ \ {r}]
        BY <1>6 DEF ActBulk
  <2> DEFINE x == [task[t] EXCEPT !.todo = @ \ {r}]
  <2>2. /\ x.at = "act" /\ x.op = "bulk"
        /\ task[t].at # AnsweredAt(k) /\ x.at # AnsweredAt(k)
        BY <1>6, Continued DEF ActBulk, TaskType, AnsweredAt
  <2>3. task' = [task EXCEPT ![t] = x] BY <2>1
  <2> HIDE DEF x
  <2>4. Pends(x, k) BY <2>2 DEF Pends
  <2> QED BY <1>1, <1>2, <2>2, <2>3, <2>4, OneFresh
<1>7. CASE EndBulk(t)
  <2> DEFINE x == [op |-> task[t].op, todo |-> task[t].todo,
                   at |-> "list", saw |-> {}]
  <2>1. task' = [task EXCEPT ![t] = x] BY <1>7, Continued DEF EndBulk
  <2>2. x.at = "list" /\ x.op = "bulk" /\ task[t].at # AnsweredAt(k)
        BY <1>7 DEF EndBulk, AnsweredAt
  <2> HIDE DEF x
  <2>3. x.at # AnsweredAt(k) /\ Pends(x, k) BY <2>2 DEF AnsweredAt, Pends
  <2> QED BY <1>1, <1>2, <2>1, <2>2, <2>3, OneFresh
<1>8. CASE LoseList(t)
  <2>1. ShowRecords(t, {}) /\ task[t].at # AnsweredAt(k)
        BY <1>8 DEF LoseList, AnsweredAt
  <2>2. PICK x :
            /\ task' = [task EXCEPT ![t] = x] /\ x.at \notin Answers
            /\ x.at = IF task[t].op = "open" THEN "idle" ELSE "count"
            /\ task[t].op # "open" => x.op = task[t].op
        BY <2>1, ListingTyped
  <2>3. x.at # AnsweredAt(k) BY <1>4, <2>2
  <2>4. CASE k = "list"
        BY <1>1, <1>2, <1>8, <2>1, <2>2, <2>3, <2>4, OneFresh DEF LoseList
  <2>5. CASE k = "count" /\ task[t].op # "open"
    <3>1. Pends(x, k) BY <2>2, <2>5 DEF Pends
    <3> QED BY <1>1, <1>2, <2>1, <2>2, <2>3, <3>1, OneFresh
  <2>6. CASE k = "count" /\ task[t].op = "open"
    <3>1. ~Pends(task[t], k) BY <1>8, <2>6 DEF Pends, LoseList
    <3>2. original' = original /\ (Shows(k)' <=> Shows(k))
          BY <2>1, <2>6, ListingTyped DEF Shows
    <3> QED BY <1>1, <1>2, <2>1, <2>2, <2>3, <3>1, <3>2, OneFresh
  <2> QED BY <2>4, <2>5, <2>6
<1>9. CASE LoseCount(t)
  <2>1. /\ task' = [task EXCEPT ![t] = NoTask] /\ task[t].at # AnsweredAt(k)
        /\ original' = original
        BY <1>9 DEF LoseCount, AnsweredAt, reviewTable
  <2>2. CASE k = "count"
        BY <1>1, <1>2, <1>3, <1>9, <2>1, <2>2, OneFresh DEF LoseCount
  <2>3. CASE k = "list"
    <3>1. ~Pends(task[t], k) BY <1>9, <2>3 DEF Pends, LoseCount
    <3>2. Shows(k)' <=> Shows(k)
          BY <1>9, <2>1 DEF Shows, LoseCount, reviewPage
    <3> QED BY <1>1, <1>2, <1>3, <2>1, <3>1, <3>2, OneFresh
  <2> QED BY <2>2, <2>3
<1>10. CASE ClickRow(t) \/ ConfirmBulk(t)
  <2>1. PICK o, d : task' = [task EXCEPT ![t] = [op |-> o, todo |-> d,
                                                at |-> "act", saw |-> {}]]
        BY <1>10 DEF ClickRow, ConfirmBulk
  <2> DEFINE x == [op |-> o, todo |-> d, at |-> "act", saw |-> {}]
  <2>2. task' = [task EXCEPT ![t] = x] BY <2>1
  <2>3. x.at = "act" OBVIOUS
  <2> HIDE DEF x
  <2>4. task[t].at = "idle" BY <1>10 DEF ClickRow, ConfirmBulk, Idle
  <2>5. ~Pends(task[t], k) /\ task[t].at # AnsweredAt(k) /\ x.at # AnsweredAt(k)
        BY <2>3, <2>4 DEF Pends, AnsweredAt
  <2>6. UNCHANGED <<original, records, badge>>
        BY <1>10 DEF ClickRow, ConfirmBulk, reviewTable, reviewPage
  <2>7. Shows(k)' <=> Shows(k) BY <2>6 DEF Shows
  <2> QED BY <1>1, <1>2, <2>2, <2>5, <2>6, <2>7, OneFresh
<1>11. CASE OpenLayout(t) \/ OpenReview(t)
  <2>1. PICK a \in ReadKinds :
            /\ task' = [task EXCEPT ![t] = [NoTask EXCEPT !.op = "open",
                                                          !.at = a]]
            /\ \/ a = "count" /\ OpenLayout(t)
               \/ a = "list" /\ OpenReview(t)
    <3>1. CASE OpenLayout(t)
      <4>1. task' = [task EXCEPT ![t] = [NoTask EXCEPT !.op = "open",
                                                       !.at = "count"]]
            BY <3>1 DEF OpenLayout
      <4> QED BY <3>1, <4>1
    <3>2. CASE OpenReview(t)
      <4>1. task' = [task EXCEPT ![t] = [NoTask EXCEPT !.op = "open",
                                                       !.at = "list"]]
            BY <3>2 DEF OpenReview
      <4> QED BY <3>2, <4>1
    <3> QED BY <1>11, <3>1, <3>2
  <2> DEFINE x == [op |-> "open", todo |-> {}, at |-> a, saw |-> {}]
  <2>2. task' = [task EXCEPT ![t] = x] BY <2>1, Opened
  <2>3. x.at = a /\ x.op = "open" OBVIOUS
  <2> HIDE DEF x
  <2>4. task[t].at = "idle" BY <1>11 DEF OpenLayout, OpenReview, Idle
  <2>5. /\ ~Pends(task[t], k) /\ task[t].at # AnsweredAt(k)
        /\ x.at # AnsweredAt(k)
        BY <2>3, <2>4 DEF Pends, AnsweredAt
  <2>6. CASE a = k
    <3>1. Pends(x, k) BY <2>3, <2>6 DEF Pends
    <3> QED BY <1>1, <1>2, <2>2, <2>5, <3>1, OneFresh
  <2>7. CASE a # k
    <3>1. original' = original /\ (Shows(k)' <=> Shows(k))
          BY <1>11, <2>1, <2>7
          DEF OpenLayout, OpenReview, reviewTable, reviewPage, Shows
    <3> QED BY <1>1, <1>2, <2>2, <2>5, <3>1, OneFresh
  <2> QED BY <2>6, <2>7
<1> QED BY <1>5, <1>6, <1>7, <1>8, <1>9, <1>10, <1>11

\* What the user ticks and what others do to the table.
LEMMA OtherFresh ==
    ASSUME NEW k \in ReadKinds, Fresh(k),
           \/ ToggleSelect \/ SelectAll \/ AskBulk
           \/ Stage \/ Finish \/ Clear \/ UNCHANGED reviewVars
    PROVE  Fresh(k)'
<1>1. CASE Stage \/ Finish \/ Clear
      BY <1>1, FreshKept DEF Stage, Finish, Clear, Elsewhere
<1>2. CASE ~(Stage \/ Finish \/ Clear)
  <2>1. UNCHANGED <<original, records, badge, task, answered, overtaken, late,
                    moved>>
        BY <1>2 DEF ToggleSelect, SelectAll, AskBulk, Select, reviewTable,
                    reviewPage, reviewTasks, reviewVars
  <2> QED BY <2>1 DEF Fresh, Pending, Newest, Under, Shows
<1> QED BY <1>1, <1>2

\* The server answers: the answer is the newest of its kind, and true.
LEMMA AnswerFresh ==
    ASSUME Typed, NEW k \in ReadKinds, Fresh(k), NEW t \in ReviewTasks,
           AnswerRead(t)
    PROVE  Fresh(k)'
<1> USE DEF ReadKinds
<1> DEFINE x == [op |-> task[t].op, todo |-> task[t].todo,
                 at |-> IF task[t].at = "list" THEN "listed" ELSE "counted",
                 saw |-> ListOriginals(original)]
<1>1. task' = [task EXCEPT ![t] = x] /\ ~In(t, answered)
      /\ \A u, v : Precedes(u, v, answered') <=>
             Precedes(u, v, answered) \/ (In(u, answered) /\ v = t)
      BY AnswerReadTyped
<1>2. /\ x.op = task[t].op /\ x.at = AnsweredAt(task[t].at)
      /\ x.saw = ListOriginals(original)
      BY DEF AnsweredAt
<1> HIDE DEF x
<1>3. task'[t] = x /\ \A u \in ReviewTasks \ {t} : task'[u] = task[u]
      BY <1>1, OneTask
<1>4. /\ UNCHANGED <<original, records, badge, overtaken, late>>
      /\ moved' = moved \ {task[t].at} /\ task[t].at \in ReadKinds
      BY DEF AnswerRead, reviewTable, reviewPage
<1>5. CASE task[t].at = k
  <2>1. t \notin overtaken BY <1>1 DEF Typed, Queue
  <2>2. Under(t, k)' BY <1>2, <1>3, <1>5 DEF Under
  <2>3. \A u \in ReviewTasks : Newest(u, k)' => u = t
    <3> SUFFICES ASSUME NEW u \in ReviewTasks, Newest(u, k)', u # t
                 PROVE  FALSE
        OBVIOUS
    <3>1. task[u].at = AnsweredAt(k) BY <1>3 DEF Newest, Under
    <3>2. In(u, answered) BY <3>1 DEF Typed, Queue, Answers, AnsweredAt
    <3>3. Precedes(u, t, answered') BY <1>1, <3>2
    <3> QED BY <1>4, <2>1, <2>2, <3>3 DEF Newest
  <2> QED BY <1>2, <1>3, <1>4, <2>1, <2>2, <2>3 DEF Fresh
<1>6. CASE task[t].at # k
  <2>1. task[t].at # AnsweredAt(k) /\ x.at # AnsweredAt(k)
        BY <1>2, <1>4, <1>6 DEF AnsweredAt
  <2>2. Pends(task[t], k) <=> Pends(x, k)
        BY <1>2, <1>4, <1>6 DEF AnsweredAt, Pends
  <2>3. Pending(k)' <=> Pending(k) BY <1>3, <2>2 DEF Pending
  <2>4. \A u \in ReviewTasks :
            /\ Under(u, k)' <=> Under(u, k)
            /\ Under(u, k) => u # t /\ task'[u].saw = task[u].saw
        BY <1>3, <2>1 DEF Under
  <2>5. Shows(k)' <=> Shows(k) BY <1>4 DEF Shows
  <2>6. k \in moved' <=> k \in moved BY <1>4, <1>6
  <2>7. \A u, v \in ReviewTasks : Under(u, k) /\ Under(v, k) =>
            (Precedes(u, v, answered') <=> Precedes(u, v, answered))
        BY <1>1, <2>4
  <2> QED BY <1>4, <2>3, <2>4, <2>5, <2>6, <2>7, FreshKept
<1> QED BY <1>5, <1>6

\* An answer of the kind is shown.
LEMMA ShownFresh ==
    ASSUME Typed, NEW k \in ReadKinds, Fresh(k), NEW t \in ReviewTasks,
           Under(t, k), Deliver(t, k), task'[t].at \notin Answers,
           \A u \in ReviewTasks \ {t} : task'[u] = task[u],
           original' = original, moved' = moved,
           Pending(k) => Pending(k)',
           task[t].saw = ListOriginals(original) => Shows(k)'
    PROVE  Fresh(k)'
<1>1. /\ \A u, v : Precedes(u, v, answered') <=>
                       Precedes(u, v, answered) /\ u # t /\ v # t
      /\ \A u : u \in overtaken' <=>
             \/ u \in overtaken /\ u # t
             \/ Precedes(u, t, answered) /\ task[u].at = task[t].at
      /\ late' = IF t \in overtaken THEN late \cup {k} ELSE late \ {k}
  <2>1. task[t].at \in Answers BY DEF Under, AnsweredAt, Answers
  <2> QED BY <2>1, Delivered
<1>2. \A u \in ReviewTasks : Under(u, k)' <=> Under(u, k) /\ u # t
      BY DEF Under, AnsweredAt, Answers
<1>3. \A u \in ReviewTasks : Under(u, k) =>
          (u \in overtaken' <=> \/ u \in overtaken /\ u # t
                                \/ Precedes(u, t, answered))
      BY <1>1 DEF Under
<1>4. /\ Distinct(answered) /\ answered \in Seq(ReviewTasks)
      BY Types DEF Typed, Queue
<1> SUFFICES ASSUME k \notin moved, ~Pending(k)
             PROVE  /\ \A u \in ReviewTasks : Newest(u, k)' =>
                           task'[u].saw = ListOriginals(original)
                    /\ (\A u \in ReviewTasks : Under(u, k)' => u \in overtaken')
                       /\ k \notin late' => Shows(k)'
    BY DEF Fresh
<1>5. ASSUME NEW u \in ReviewTasks, Newest(u, k)'
      PROVE  task'[u].saw = ListOriginals(original)
  <2>1. u # t /\ Under(u, k) /\ u \notin overtaken
        /\ ~Precedes(u, t, answered)
        BY <1>2, <1>3, <1>5 DEF Newest
  <2>2. ASSUME NEW v \in ReviewTasks, Under(v, k), v \notin overtaken,
               Precedes(u, v, answered)
        PROVE  FALSE
    <3>1. v # t BY <2>1, <2>2
    <3>2. Precedes(u, v, answered') /\ Under(v, k)'
          BY <1>1, <1>2, <2>1, <2>2, <3>1
    <3>3. v \in overtaken' BY <1>5, <3>2 DEF Newest
    <3>4. Precedes(v, t, answered) BY <1>3, <2>2, <3>3
    <3> QED BY <1>4, <2>1, <2>2, <3>4, Ordered
  <2>3. Newest(u, k) BY <2>1, <2>2 DEF Newest
  <2> QED BY <2>1, <2>3 DEF Fresh
<1>6. ASSUME \A u \in ReviewTasks : Under(u, k)' => u \in overtaken',
             k \notin late'
      PROVE  Shows(k)'
  <2>1. t \notin overtaken BY <1>1, <1>6
  <2>2. ASSUME NEW v \in ReviewTasks, Under(v, k), v \notin overtaken,
               Precedes(t, v, answered)
        PROVE  FALSE
    <3>1. v # t BY <1>4, <2>2, Ordered
    <3>2. Precedes(v, t, answered) BY <1>2, <1>3, <1>6, <2>2, <3>1
    <3> QED BY <1>4, <2>2, <3>2, Ordered
  <2>3. Newest(t, k) BY <2>1, <2>2 DEF Newest
  <2> QED BY <2>3 DEF Fresh
<1> QED BY <1>5, <1>6

\* An answer of the other kind is shown.
LEMMA AsideFresh ==
    ASSUME Typed, NEW k \in ReadKinds, NEW j \in ReadKinds, j # k, Fresh(k),
           NEW t \in ReviewTasks, Under(t, j), Deliver(t, j),
           task'[t].at \notin Answers,
           \A u \in ReviewTasks \ {t} : task'[u] = task[u],
           original' = original, moved' = moved,
           Pending(k) => Pending(k)', Shows(k)' <=> Shows(k)
    PROVE  Fresh(k)'
<1>1. /\ \A u, v : Precedes(u, v, answered') <=>
                       Precedes(u, v, answered) /\ u # t /\ v # t
      /\ \A u : u \in overtaken' <=>
             \/ u \in overtaken /\ u # t
             \/ Precedes(u, t, answered) /\ task[u].at = task[t].at
      /\ late' = IF t \in overtaken THEN late \cup {j} ELSE late \ {j}
  <2>1. task[t].at \in Answers BY DEF Under, AnsweredAt, Answers
  <2> QED BY <2>1, Delivered
<1>2. AnsweredAt(j) # AnsweredAt(k) BY DEF AnsweredAt, ReadKinds
<1>3. \A u \in ReviewTasks :
          /\ Under(u, k)' <=> Under(u, k)
          /\ Under(u, k) => /\ u # t /\ task'[u].saw = task[u].saw
                            /\ u \in overtaken' <=> u \in overtaken
      BY <1>1, <1>2 DEF Under, AnsweredAt, Answers
<1>4. k \notin late' => k \notin late BY <1>1
<1> QED BY <1>1, <1>3, <1>4, FreshKept

\* An answer is shown: one kind of read is concerned, the other is not.
LEMMA ShowFresh ==
    ASSUME Typed, NEW k \in ReadKinds, Fresh(k), NEW t \in ReviewTasks,
           ShowList(t) \/ ShowCount(t)
    PROVE  Fresh(k)'
<1> USE DEF ReadKinds
<1>1. CASE ShowList(t)
  <2>1. /\ task[t].at = "listed" /\ Deliver(t, "list") /\ moved' = moved
        /\ ShowRecords(t, task[t].saw)
        BY <1>1 DEF ShowList
  <2>2. PICK x :
            /\ task' = [task EXCEPT ![t] = x] /\ x.at \notin Answers
            /\ x.at = IF task[t].op = "open" THEN "idle" ELSE "count"
            /\ task[t].op # "open" => x.op = task[t].op
        BY <2>1, ListingTyped
  <2>3. task'[t] = x /\ \A u \in ReviewTasks \ {t} : task'[u] = task[u]
        BY <2>2, OneTask
  <2>4. records' = task[t].saw /\ original' = original /\ badge' = badge
        BY <2>1, ListingTyped
  <2>5. Pends(task[t], k) => Pends(x, k) BY <2>1, <2>2 DEF Pends
  <2>6. Pending(k) => Pending(k)' BY <2>3, <2>5 DEF Pending
  <2>7. Under(t, "list") BY <2>1 DEF Under, AnsweredAt
  <2>8. CASE k = "list"
    <3>1. task[t].saw = ListOriginals(original) => Shows(k)'
          BY <2>4, <2>8 DEF Shows
    <3> QED BY <2>1, <2>2, <2>3, <2>4, <2>6, <2>7, <2>8, <3>1, ShownFresh
  <2>9. CASE k = "count"
    <3>1. Shows(k)' <=> Shows(k) BY <2>4, <2>9 DEF Shows
    <3>2. k # "list" BY <2>9
    <3> QED BY <2>1, <2>2, <2>3, <2>4, <2>6, <2>7, <3>1, <3>2, AsideFresh
  <2> QED BY <2>8, <2>9
<1>2. CASE ShowCount(t)
  <2>1. /\ task[t].at = "counted" /\ Deliver(t, "count") /\ moved' = moved
        /\ task' = [task EXCEPT ![t] = NoTask]
        /\ badge' = Cardinality(task[t].saw)
        /\ records' = records /\ original' = original
        BY <1>2 DEF ShowCount, reviewTable
  <2>2. /\ task'[t] = NoTask
        /\ \A u \in ReviewTasks \ {t} : task'[u] = task[u]
        BY <2>1, OneTask
  <2>3. task'[t].at \notin Answers BY <2>2 DEF NoTask, Answers
  <2>4. ~Pends(task[t], k) BY <2>1 DEF Pends
  <2>5. Pending(k) => Pending(k)' BY <2>2, <2>4 DEF Pending
  <2>6. Under(t, "count") BY <2>1 DEF Under, AnsweredAt
  <2>7. CASE k = "count"
    <3>1. task[t].saw = ListOriginals(original) => Shows(k)'
          BY <2>1, <2>7 DEF Shows
    <3> QED BY <2>1, <2>2, <2>3, <2>5, <2>6, <2>7, <3>1, ShownFresh
  <2>8. CASE k = "list"
    <3>1. Shows(k)' <=> Shows(k) BY <2>1, <2>8 DEF Shows
    <3>2. k # "count" BY <2>8
    <3> QED BY <2>1, <2>2, <2>3, <2>5, <2>6, <3>1, <3>2, AsideFresh
  <2> QED BY <2>7, <2>8
<1> QED BY <1>1, <1>2

\* Once every handler has ended the list and the number are those of the
\* table, but for a change made elsewhere, a failure or an overtaken answer.
THEOREM QuietIsTrue == ReviewSpec => []QuietReviewIsTrue
<1> DEFINE F == \A k \in ReadKinds : Fresh(k)
<1>1. ReviewInit => F BY DEF ReviewInit, Fresh
<1>2. Typed /\ F /\ [ReviewNext]_reviewVars => F'
  <2> SUFFICES ASSUME Typed, F, [ReviewNext]_reviewVars,
                      NEW k \in ReadKinds
               PROVE  Fresh(k)'
      OBVIOUS
  <2>1. Fresh(k) OBVIOUS
  <2>2. CASE \E t \in ReviewTasks : ReviewTask(t)
        BY <2>1, <2>2, TaskFresh, AnswerFresh, ShowFresh DEF ReviewTask
  <2> QED BY <2>1, <2>2, OtherFresh DEF ReviewNext
<1>3. Typed /\ F => QuietReviewIsTrue
  <2> SUFFICES ASSUME Typed, F, \A t \in ReviewTasks : Idle(t)
               PROVE  /\ "list" \notin moved \cup late =>
                             records = ListOriginals(original)
                      /\ "count" \notin moved \cup late =>
                             badge = Cardinality(Held(original))
      BY DEF QuietReviewIsTrue
  <2>1. \A k \in ReadKinds :
            ~Pending(k) /\ \A t \in ReviewTasks : ~Under(t, k)
        BY DEF Pending, Pends, Under, Idle, AnsweredAt, ReadKinds
  <2>2. \A k \in ReadKinds : k \notin moved \cup late => Shows(k)
        BY <2>1 DEF Fresh
  <2> QED BY <2>2, Counting DEF Shows, ReadKinds
<1> QED BY <1>1, <1>2, <1>3, TypedStart, TypedStep, PTL DEF ReviewSpec
=============================================================================
