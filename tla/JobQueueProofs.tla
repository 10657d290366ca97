--------------------------- MODULE JobQueueProofs ---------------------------
(* Theorems about JobQueue, for every set of jobs, goroutines and clients,  *)
(* every clamp, threshold and way to stop.                                  *)
EXTENDS JobQueue, FiniteSetTheorems, TLAPS

-----------------------------------------------------------------------------
(* Types. *)

LEMMA ClampInRange ==
    ASSUME NEW n \in Int
    PROVE  Clamp(n) \in 1..MaxConcurrency
BY LimitAssumption DEF LimitAssumption, Clamp

LEMMA SetStatusType ==
    ASSUME status \in [JobIds -> Statuses], NEW j \in JobIds,
           NEW st \in Statuses, SetStatus(j, st)
    PROVE  status' \in [JobIds -> Statuses]
BY DEF SetStatus

\* What the handlers and the loop hold is a job, and a goroutine has one
\* exactly as long as it lives; nothing lives in a process that is gone.
Shape ==
    /\ tick \in {"picked", "claimed"} => sel \in JobIds
    /\ \A s \in Slots : stage[s] # "free" => runJob[s] \in JobIds
    /\ \A c \in Clients : request[c].op # "none" => request[c].job \in JobIds
    /\ proc = "down" => tick = "idle" /\ \A s \in Slots : stage[s] = "free"

LEMMA TypeInit == Init => TypeOK /\ Shape
BY LimitAssumption, ThresholdAssumption, PrioritiesAssumption
   DEF Init, TypeOK, Shape, Statuses, NoRow, Terminal, Stages, Requests, Idle,
       LimitAssumption, ThresholdAssumption, PrioritiesAssumption

LEMMA TypeStep == TypeOK /\ Shape /\ [Next]_vars => TypeOK' /\ Shape'
<1> SUFFICES ASSUME TypeOK, Shape, [Next]_vars
             PROVE  TypeOK' /\ Shape'
    OBVIOUS
<1> USE JobIdsAssumption DEF JobIdsAssumption, NoJob
<1> USE DEF TypeOK, Shape, rowVars, tickVars, runVars, workerVars, userVars,
            NoteStale, SetStatus, Statuses, Terminal, NoRow, Stages, Idle,
            Requests
<1>1. CASE TickStart BY <1>1 DEF TickStart
<1>2. CASE TickRoom BY <1>2 DEF TickRoom
<1>3. CASE TickPick BY <1>3 DEF TickPick
<1>4. CASE TickSkip BY <1>4 DEF TickSkip
<1>5. CASE TickClaim BY <1>5 DEF TickClaim
<1>6. CASE TickSpawn BY <1>6 DEF TickSpawn
<1>7. ASSUME NEW s \in Slots, EncodeOk(s) PROVE TypeOK' /\ Shape'
      BY <1>7 DEF EncodeOk
<1>8. ASSUME NEW s \in Slots, EncodeCancelled(s) PROVE TypeOK' /\ Shape'
      BY <1>8 DEF EncodeCancelled
<1>9. ASSUME NEW s \in Slots, Fail(s) PROVE TypeOK' /\ Shape'
  <2>1. runJob[s] \in JobIds /\ stage[s] # "free"
        BY <1>9 DEF Fail
  <2>2. failCount' \in [JobIds -> 0..FailThreshold]
    <3> DEFINE old == failCount[runJob[s]]
               new == IF status[runJob[s]] \in NoRow \/ old = FailThreshold
                      THEN old ELSE old + 1
    <3>1. old \in 0..FailThreshold BY <2>1
    <3>2. new \in 0..FailThreshold
          BY <3>1, ThresholdAssumption DEF ThresholdAssumption
    <3>3. failCount' = [failCount EXCEPT ![runJob[s]] = new]
          BY <1>9 DEF Fail
    <3> HIDE DEF new
    <3> QED BY <3>2, <3>3
  <2> QED BY <1>9, <2>1, <2>2 DEF Fail
<1>10. ASSUME NEW s \in Slots, Judge(s) PROVE TypeOK' /\ Shape'
      BY <1>10 DEF Judge
<1>11. ASSUME NEW s \in Slots, GiveUp(s) PROVE TypeOK' /\ Shape'
      BY <1>11 DEF GiveUp
<1>12. ASSUME NEW s \in Slots, Refail(s) PROVE TypeOK' /\ Shape'
      BY <1>12 DEF Refail
<1>13. ASSUME NEW s \in Slots, Trip(s) PROVE TypeOK' /\ Shape'
      BY <1>13 DEF Trip
<1>14. ASSUME NEW s \in Slots, Finish(s) PROVE TypeOK' /\ Shape'
      BY <1>14 DEF Finish
<1>15. ASSUME NEW s \in Slots, Unregister(s) PROVE TypeOK' /\ Shape'
      BY <1>15 DEF Unregister
<1>16. ASSUME NEW s \in Slots, Release(s) PROVE TypeOK' /\ Shape'
      BY <1>16 DEF Release
<1>17. ASSUME NEW c \in Clients, NEW j \in JobIds, CancelRead(c, j)
       PROVE  TypeOK' /\ Shape'
  <2>1. CASE Ask(c, "cancelRow", j) BY <2>1 DEF Ask
  <2>2. CASE Ask(c, "signal", j) BY <2>2 DEF Ask
  <2> QED BY <1>17, <2>1, <2>2 DEF CancelRead
<1>18. ASSUME NEW c \in Clients, NEW j \in JobIds, RetryRead(c, j)
       PROVE  TypeOK' /\ Shape'
      BY <1>18 DEF RetryRead, Ask
<1>19. ASSUME NEW c \in Clients, CancelRow(c) PROVE TypeOK' /\ Shape'
      BY <1>19 DEF CancelRow
<1>20. ASSUME NEW c \in Clients, Signal(c) PROVE TypeOK' /\ Shape'
  <2>1. CASE cancels[request[c].job] = NoSlot
    <3>1. UNCHANGED <<status, priority, failCount, tick, sel, stage, runJob,
                      cancelled, cancels, activeJobs, maxConcurrency, paused,
                      asked, proc, stale>>
          /\ request' = [request EXCEPT ![c] = Idle]
          BY <1>20, <2>1 DEF Signal
    <3>2. TypeOK' BY <3>1
    <3>3. Shape' BY <3>1
    <3> QED BY <3>2, <3>3
  <2>2. CASE cancels[request[c].job] # NoSlot
    <3>1. request[c].job \in JobIds BY <1>20 DEF Signal
    <3>2. cancels[request[c].job] \in Slots BY <2>2, <3>1
    <3>3. cancelled' = [cancelled EXCEPT ![cancels[request[c].job]] = TRUE]
          BY <1>20, <2>2 DEF Signal
    <3>4. asked' = asked \cup {request[c].job}
          BY <1>20, <2>2 DEF Signal
    <3>5. UNCHANGED <<status, priority, failCount, tick, sel, stage, runJob,
                      cancels, activeJobs, maxConcurrency, paused, proc, stale>>
          /\ request' = [request EXCEPT ![c] = Idle]
          BY <1>20, <2>2 DEF Signal
    <3>6. TypeOK' BY <3>1, <3>2, <3>3, <3>4, <3>5
    <3>7. Shape' BY <3>5
    <3> QED BY <3>6, <3>7
  <2> QED BY <2>1, <2>2
<1>21. ASSUME NEW c \in Clients, RetryRow(c) PROVE TypeOK' /\ Shape'
  <2>1. /\ request[c].job \in JobIds
        /\ SetStatus(request[c].job, "pending")
        /\ request' = [request EXCEPT ![c] = Idle]
        /\ NoteStale(request[c].job, {"failed", "cancelled"})
        /\ UNCHANGED <<priority, failCount, tick, sel, stage, runJob, cancelled,
                       cancels, activeJobs, maxConcurrency, paused, asked,
                       proc>>
        BY <1>21 DEF RetryRow
  <2>2. status' \in [JobIds -> Statuses] /\ stale' \in SUBSET JobIds
        BY <2>1
  <2>3. TypeOK' BY <2>1, <2>2
  <2>4. Shape' BY <2>1
  <2> QED BY <2>3, <2>4
<1>22. CASE Enqueue BY <1>22 DEF Enqueue
<1>23. CASE ClearHistory
  <2> DEFINE gone == {j \in JobIds : status[j] \in Terminal}
  <2>1. /\ status' = [j \in JobIds |-> IF j \in gone THEN "cleared"
                                          ELSE status[j]]
        /\ priority' = [j \in JobIds |-> IF j \in gone THEN 0 ELSE priority[j]]
        /\ failCount' = [j \in JobIds |-> IF j \in gone THEN 0
                                             ELSE failCount[j]]
        /\ asked' = asked \ gone
        /\ UNCHANGED <<tickVars, runVars, workerVars, request, proc, stale>>
        BY <1>23 DEF ClearHistory
  <2>2. 0 \in Priorities /\ 0 \in 0..FailThreshold
        BY ThresholdAssumption, PrioritiesAssumption
        DEF ThresholdAssumption, PrioritiesAssumption
  <2> HIDE DEF gone
  <2> QED BY <2>1, <2>2
<1>24. CASE SetPaused BY <1>24 DEF SetPaused
<1>25. CASE SetConcurrency
      BY <1>25, ClampInRange, RequestedAssumption
      DEF SetConcurrency, RequestedAssumption
<1>26. CASE Sigterm BY <1>26 DEF Sigterm
<1>27. CASE Exit BY <1>27 DEF Exit, Die
<1>28. CASE Crash BY <1>28 DEF Crash, Die
<1>29. CASE Restart BY <1>29 DEF Restart
<1>30. CASE UNCHANGED vars BY <1>30 DEF vars
<1> QED
  BY <1>1, <1>2, <1>3, <1>4, <1>5, <1>6, <1>7, <1>8, <1>9, <1>10, <1>11,
     <1>12, <1>13, <1>14, <1>15, <1>16, <1>17, <1>18, <1>19, <1>20, <1>21,
     <1>22, <1>23, <1>24, <1>25, <1>26, <1>27, <1>28, <1>29, <1>30
  DEF Next, Tick, Run, User, Client, Process

\* Type correctness of the queue model (every variable, every step).
THEOREM TypeCorrect == Spec => []TypeOK
<1>1. Spec => [](TypeOK /\ Shape)
      BY TypeInit, TypeStep, PTL DEF Spec
<1> QED BY <1>1, PTL

-----------------------------------------------------------------------------
(* The number of goroutines. *)

LEMMA LiveFinite == IsFiniteSet(Live) /\ Cardinality(Live) \in Nat
<1>1. IsFiniteSet(Live)
      BY SlotsAssumption, FS_Subset DEF Live, SlotsAssumption
<1> QED BY <1>1, FS_CardinalityType

\* A step within a goroutine's life changes neither the set of goroutines,
\* nor the counter, nor the loop.
LEMMA InnerStep ==
    ASSUME TypeOK, NEW s \in Slots,
           \/ EncodeOk(s) \/ EncodeCancelled(s) \/ Fail(s) \/ Judge(s)
           \/ GiveUp(s) \/ Refail(s) \/ Trip(s) \/ Finish(s) \/ Unregister(s)
    PROVE  Live' = Live /\ UNCHANGED <<activeJobs, tick>>
BY DEF TypeOK, Live, EncodeOk, EncodeCancelled, Fail, Judge, GiveUp, Refail,
       Trip, Finish, Unregister, tickVars, workerVars

LEMMA SpawnStep ==
    ASSUME TypeOK, TickSpawn
    PROVE  Cardinality(Live') = Cardinality(Live) + 1
<1>1. PICK s \in Slots : /\ stage[s] = "free"
                         /\ stage' = [stage EXCEPT ![s] = "encoding"]
      BY DEF TickSpawn
<1>2. Live' = Live \cup {s} /\ s \notin Live
      BY <1>1 DEF TypeOK, Live
<1> QED BY <1>2, LiveFinite, FS_AddElement

LEMMA ReleaseStep ==
    ASSUME TypeOK, NEW s \in Slots, Release(s)
    PROVE  Cardinality(Live') = Cardinality(Live) - 1
<1>1. Live' = Live \ {s} /\ s \in Live
      BY DEF TypeOK, Live, Release
<1> QED BY <1>1, LiveFinite, FS_RemoveElement

LEMMA SlotInit == Init => SlotAccounting
<1> SUFFICES ASSUME Init PROVE SlotAccounting
    OBVIOUS
<1>1. Live = {} BY DEF Init, Live
<1> QED BY <1>1, FS_EmptySet, LimitAssumption
        DEF Init, SlotAccounting, LimitAssumption

LEMMA SlotStep ==
    TypeOK /\ SlotAccounting /\ [Next]_vars => SlotAccounting'
<1> SUFFICES ASSUME TypeOK, SlotAccounting, [Next]_vars
             PROVE  SlotAccounting'
    OBVIOUS
<1> USE LimitAssumption, LiveFinite
    DEF LimitAssumption, SlotAccounting, TypeOK
<1>1. CASE UNCHANGED <<stage, activeJobs>> /\ (tick' = tick \/ tick' = "idle")
  <2>1. Live' = Live BY <1>1 DEF Live
  <2> QED BY <1>1, <2>1
<1>2. CASE TickStart \/ TickRoom \/ TickPick \/ TickSkip \/ TickClaim
  <2>1. Live' = Live /\ activeJobs' = activeJobs
        BY <1>2 DEF Live, TickStart, TickRoom, TickPick, TickSkip, TickClaim,
                    runVars, workerVars
  <2> QED BY <1>2, <2>1
          DEF TickStart, TickRoom, TickPick, TickSkip, TickClaim
<1>3. CASE TickSpawn
  <2>1. tick = "claimed" /\ tick' = "loop" /\ activeJobs' = activeJobs + 1
        BY <1>3 DEF TickSpawn
  <2> QED BY <1>3, <2>1, SpawnStep
<1>4. ASSUME NEW s \in Slots, Run(s) PROVE SlotAccounting'
  <2>1. CASE Release(s)
    <3>1. activeJobs' = activeJobs - 1 /\ tick' = tick
          BY <2>1 DEF Release, tickVars
    <3> QED BY <2>1, <3>1, ReleaseStep
  <2>2. CASE ~Release(s)
    <3>1. Live' = Live /\ UNCHANGED <<activeJobs, tick>>
          BY <1>4, <2>2, InnerStep DEF Run
    <3> QED BY <3>1
  <2> QED BY <2>1, <2>2
<1>5. CASE User
  <2>1. UNCHANGED <<stage, activeJobs, tick>>
        BY <1>5 DEF User, Client, CancelRead, Ask, RetryRead, CancelRow, Signal,
                    RetryRow, Enqueue, ClearHistory, SetPaused, SetConcurrency,
                    runVars, workerVars, tickVars
  <2> QED BY <1>1, <2>1
<1>6. CASE Sigterm \/ Restart
      BY <1>1, <1>6 DEF Sigterm, Restart, runVars, workerVars, tickVars
<1>7. CASE Exit \/ Crash
  <2>1. Live' = {} BY <1>7 DEF Exit, Crash, Die, Live
  <2> QED BY <1>7, <2>1, FS_EmptySet DEF Exit, Crash, Die
<1>8. CASE UNCHANGED vars
      BY <1>1, <1>8 DEF vars, runVars, workerVars, tickVars
<1> QED BY <1>2, <1>3, <1>4, <1>5, <1>6, <1>7, <1>8 DEF Next, Tick, Process

\* activeJobs counts the goroutines and never passes the clamp.
THEOREM ConcurrencyBounded == Spec => []SlotAccounting
<1>1. Init => TypeOK /\ Shape /\ SlotAccounting BY TypeInit, SlotInit
<1>2. TypeOK /\ Shape /\ SlotAccounting /\ [Next]_vars
         => (TypeOK /\ Shape /\ SlotAccounting)'
      BY TypeStep, SlotStep
<1> QED BY <1>1, <1>2, PTL DEF Spec

-----------------------------------------------------------------------------
(* Cancel functions. *)

LEMMA CancelsInit == Init => CancelReachesOwnJob
BY DEF Init, CancelReachesOwnJob

LEMMA CancelsStep ==
    TypeOK /\ Shape /\ CancelReachesOwnJob /\ [Next]_vars
        => CancelReachesOwnJob'
<1> SUFFICES ASSUME TypeOK, Shape, CancelReachesOwnJob, [Next]_vars
             PROVE  CancelReachesOwnJob'
    OBVIOUS
<1> USE SlotsAssumption
    DEF SlotsAssumption, TypeOK, CancelReachesOwnJob, Stages
<1>1. CASE UNCHANGED <<stage, runJob, cancels>> BY <1>1
<1>2. CASE TickStart \/ TickRoom \/ TickPick \/ TickSkip \/ TickClaim
      BY <1>1, <1>2 DEF TickStart, TickRoom, TickPick, TickSkip, TickClaim,
                        runVars, workerVars
<1>3. CASE TickSpawn BY <1>3 DEF TickSpawn, Shape
<1>4. ASSUME NEW s \in Slots, Run(s) PROVE CancelReachesOwnJob'
  <2>1. CASE Unregister(s) BY <2>1, Shape DEF Unregister, Shape
  <2>2. CASE Release(s) BY <2>2 DEF Release
  <2>3. CASE ~Unregister(s) /\ ~Release(s)
    <3>1. \E st \in Stages \ {"free", "unregistered"} :
             stage' = [stage EXCEPT ![s] = st]
          BY <1>4, <2>3 DEF Run, EncodeOk, EncodeCancelled, Fail, Judge,
                            GiveUp, Refail, Trip, Finish
    <3>2. UNCHANGED <<runJob, cancels>>
          BY <1>4, <2>3 DEF Run, EncodeOk, EncodeCancelled, Fail, Judge,
                            GiveUp, Refail, Trip, Finish, workerVars
    <3> QED BY <3>1, <3>2
  <2> QED BY <2>1, <2>2, <2>3
<1>5. CASE User
      BY <1>1, <1>5
      DEF User, Client, CancelRead, Ask, RetryRead, CancelRow, Signal,
          RetryRow, Enqueue, ClearHistory, SetPaused, SetConcurrency,
          runVars, workerVars
<1>6. CASE Sigterm \/ Restart
      BY <1>1, <1>6 DEF Sigterm, Restart, runVars, workerVars
<1>7. CASE Exit \/ Crash BY <1>7 DEF Exit, Crash, Die
<1>8. CASE UNCHANGED vars BY <1>1, <1>8 DEF vars, runVars, workerVars
<1> QED BY <1>2, <1>3, <1>4, <1>5, <1>6, <1>7, <1>8 DEF Next, Tick, Process

\* Worker.CancelJob never stops another job's encode.
THEOREM CancelsAreOwn == Spec => []CancelReachesOwnJob
<1>1. Init => TypeOK /\ Shape /\ CancelReachesOwnJob
      BY TypeInit, CancelsInit
<1>2. TypeOK /\ Shape /\ CancelReachesOwnJob /\ [Next]_vars
         => (TypeOK /\ Shape /\ CancelReachesOwnJob)'
      BY TypeStep, CancelsStep
<1> QED BY <1>1, <1>2, PTL DEF Spec

-----------------------------------------------------------------------------
(* Who holds a running row. *)

LEMMA OwnerInit == Init => RunningHasOwner /\ OneRunUnlessStale
BY DEF Init, RunningHasOwner, OneRunUnlessStale, Owes, Undecided

\* Writing the outcome of s's job ends what s owes and touches no other row.
LEMMA OutcomeStep ==
    ASSUME TypeOK, Shape, RunningHasOwner, OneRunUnlessStale,
           NEW s \in Slots, Owes(s, runJob[s]),
           NEW st \in Terminal, NEW x \in Stages \ Undecided,
           SetStatus(runJob[s], st), stage' = [stage EXCEPT ![s] = x],
           UNCHANGED <<runJob, tick, sel, stale, proc>>
    PROVE  RunningHasOwner' /\ OneRunUnlessStale'
<1> USE DEF TypeOK, Shape, Owes, Undecided, Stages
<1>1. runJob[s] \in JobIds BY DEF Owes
<1>2. /\ \A j \in JobIds \ {runJob[s]} : status'[j] = status[j]
      /\ status'[runJob[s]] # "running"
      BY <1>1 DEF SetStatus, NoRow, Terminal
<1>3. \A t \in Slots \ {s} : stage'[t] = stage[t]
      OBVIOUS
<1>4. \A j \in JobIds : ~Owes(s, j)'
      OBVIOUS
<1>5. \A t \in Slots \ {s}, j \in JobIds : Owes(t, j)' <=> Owes(t, j)
      BY <1>3
<1>6. \A j \in JobIds \ {runJob[s]} : ~Owes(s, j)
      OBVIOUS
<1>7. RunningHasOwner'
      BY <1>1, <1>2, <1>5, <1>6 DEF RunningHasOwner
<1>8. OneRunUnlessStale'
      BY <1>1, <1>2, <1>4, <1>5 DEF OneRunUnlessStale
<1> QED BY <1>7, <1>8

\* A step that leaves a goroutine as undecided as it was disturbs neither.
LEMMA SameOwners ==
    ASSUME RunningHasOwner, OneRunUnlessStale,
           \A s \in Slots, j \in JobIds : Owes(s, j)' <=> Owes(s, j),
           UNCHANGED <<status, sel, stale>>,
           proc' # "down" => proc # "down",
           (tick' = "claimed") <=> (tick = "claimed")
    PROVE  RunningHasOwner' /\ OneRunUnlessStale'
BY DEF RunningHasOwner, OneRunUnlessStale

\* A write by someone who holds no claim (a handler, or the loop skipping the
\* row) is either of a row that nobody runs, or is recorded as stale.
LEMMA OutsideWrite ==
    ASSUME TypeOK, RunningHasOwner, OneRunUnlessStale,
           NEW j \in JobIds, NEW st \in Terminal \cup {"pending"},
           NEW expected, "running" \notin expected,
           NoteStale(j, expected), SetStatus(j, st),
           UNCHANGED <<stage, runJob, proc>>,
           (tick' = "claimed") <=> (tick = "claimed"),
           tick = "claimed" => sel' = sel
    PROVE  RunningHasOwner' /\ OneRunUnlessStale'
<1> USE DEF TypeOK, Owes, Undecided, Stages
<1>1. /\ \A k \in JobIds \ {j} : status'[k] = status[k]
      /\ status'[j] # "running"
      BY DEF SetStatus, NoRow, Terminal
<1>2. stale \subseteq stale' /\ (j \notin stale' => status[j] \in expected)
      BY DEF NoteStale
<1>3. \A s \in Slots, k \in JobIds : Owes(s, k)' <=> Owes(s, k)
      OBVIOUS
<1>4. RunningHasOwner' BY <1>1, <1>3 DEF RunningHasOwner
<1>5. ASSUME NEW k \in JobIds \ stale'
      PROVE  /\ \A s, t \in Slots : Owes(s, k)' /\ Owes(t, k)' => s = t
             /\ \A s \in Slots : Owes(s, k)' => status'[k] = "running"
             /\ tick' = "claimed" /\ sel' = k =>
                   status'[k] = "running" /\ \A s \in Slots : ~Owes(s, k)'
  <2>1. k \in JobIds \ stale BY <1>2, <1>5
  <2>2. CASE k = j
    <3>1. status[j] # "running" BY <1>2, <1>5, <2>2
    <3>2. (\A s \in Slots : ~Owes(s, k)) /\ ~(tick = "claimed" /\ sel = k)
          BY <2>1, <2>2, <3>1 DEF OneRunUnlessStale
    <3> QED BY <1>3, <3>2
  <2>3. CASE k # j BY <1>1, <1>3, <2>1, <2>3 DEF OneRunUnlessStale
  <2> QED BY <2>2, <2>3
<1>6. OneRunUnlessStale' BY <1>5 DEF OneRunUnlessStale
<1> QED BY <1>4, <1>6

LEMMA ClaimStep ==
    ASSUME TypeOK, Shape, RunningHasOwner, OneRunUnlessStale, TickClaim
    PROVE  RunningHasOwner' /\ OneRunUnlessStale'
<1> USE DEF TypeOK, Owes, Undecided, Stages
<1>1. sel \in JobIds /\ sel' = sel /\ tick = "picked" /\ tick' = "claimed"
      BY DEF TickClaim, Shape
<1>2. /\ \A k \in JobIds \ {sel} : status'[k] = status[k]
      /\ status[sel] \notin NoRow => status'[sel] = "running"
      BY <1>1 DEF TickClaim, SetStatus
<1>3. stale \subseteq stale' /\ (sel \notin stale' => status[sel] = "pending")
      BY DEF TickClaim, NoteStale
<1>4. \A s \in Slots, k \in JobIds : Owes(s, k)' <=> Owes(s, k)
      BY DEF TickClaim, runVars
<1>5. RunningHasOwner'
      BY <1>1, <1>2, <1>4 DEF RunningHasOwner, TickClaim
<1>6. ASSUME sel \notin stale'
      PROVE  (\A s \in Slots : ~Owes(s, sel)) /\ status'[sel] = "running"
  <2>1. status[sel] = "pending" /\ sel \notin stale BY <1>3, <1>6
  <2> QED BY <1>1, <1>2, <2>1 DEF OneRunUnlessStale, NoRow
<1>7. OneRunUnlessStale'
      BY <1>1, <1>2, <1>3, <1>4, <1>6 DEF OneRunUnlessStale
<1> QED BY <1>5, <1>7

LEMMA SpawnOwners ==
    ASSUME TypeOK, Shape, RunningHasOwner, OneRunUnlessStale, TickSpawn
    PROVE  RunningHasOwner' /\ OneRunUnlessStale'
<1>1. /\ sel \in JobIds /\ sel' = NoJob /\ tick = "claimed" /\ tick' = "loop"
      /\ UNCHANGED <<status, stale, proc>>
      BY DEF TickSpawn, Shape, rowVars
<1>2. PICK s \in Slots : /\ stage[s] = "free"
                         /\ stage' = [stage EXCEPT ![s] = "encoding"]
                         /\ runJob' = [runJob EXCEPT ![s] = sel]
      BY DEF TickSpawn
<1>3. /\ \A t \in Slots \ {s}, k \in JobIds : Owes(t, k)' <=> Owes(t, k)
      /\ \A k \in JobIds : Owes(s, k)' <=> k = sel
      /\ \A k \in JobIds : ~Owes(s, k)
      BY <1>1, <1>2 DEF TypeOK, Owes, Undecided
<1>4. RunningHasOwner'
      BY <1>1, <1>2, <1>3 DEF RunningHasOwner
<1>5. OneRunUnlessStale'
      BY <1>1, <1>2, <1>3 DEF OneRunUnlessStale
<1> QED BY <1>4, <1>5

LEMMA OwnerStep ==
    TypeOK /\ Shape /\ RunningHasOwner /\ OneRunUnlessStale /\ [Next]_vars
        => RunningHasOwner' /\ OneRunUnlessStale'
<1> SUFFICES ASSUME TypeOK, Shape, RunningHasOwner, OneRunUnlessStale,
                    [Next]_vars
             PROVE  RunningHasOwner' /\ OneRunUnlessStale'
    OBVIOUS
<1> USE DEF TypeOK, Stages
<1>1. CASE TickStart \/ TickRoom
      BY <1>1, SameOwners
      DEF TickStart, TickRoom, Owes, rowVars, runVars
<1>2. CASE TickPick
  <2>1. tick = "pick" /\ tick' # "claimed" BY <1>2 DEF TickPick
  <2>2. UNCHANGED <<status, stale, proc, stage, runJob>>
        BY <1>2 DEF TickPick, rowVars, runVars
  <2> QED BY <2>1, <2>2 DEF RunningHasOwner, OneRunUnlessStale, Owes
<1>3. CASE TickSkip
  <2>1. sel \in JobIds /\ tick = "picked" /\ tick' = "loop"
        BY <1>3 DEF TickSkip, Shape
  <2>2. NoteStale(sel, {"pending"}) /\ SetStatus(sel, "skipped")
        BY <1>3 DEF TickSkip
  <2> QED BY <1>3, <2>1, <2>2, OutsideWrite DEF TickSkip, runVars, Terminal
<1>4. CASE TickClaim BY <1>4, ClaimStep
<1>5. CASE TickSpawn BY <1>5, SpawnOwners
<1>6. ASSUME NEW s \in Slots, Run(s)
      PROVE  RunningHasOwner' /\ OneRunUnlessStale'
  <2>1. CASE EncodeOk(s) \/ Fail(s) \/ Judge(s)
    <3>1. \A t \in Slots, j \in JobIds : Owes(t, j)' <=> Owes(t, j)
          BY <2>1 DEF EncodeOk, Fail, Judge, Owes, Undecided
    <3> QED BY <2>1, <3>1, SameOwners
            DEF EncodeOk, Fail, Judge, rowVars, tickVars
  <2>2. CASE Trip(s) \/ Unregister(s) \/ Release(s)
    <3>1. \A t \in Slots, j \in JobIds : Owes(t, j)' <=> Owes(t, j)
          BY <2>2 DEF Trip, Unregister, Release, Owes, Undecided
    <3> QED BY <2>2, <3>1, SameOwners
            DEF Trip, Unregister, Release, rowVars, tickVars
  <2>3. CASE EncodeCancelled(s)
    <3>1. Owes(s, runJob[s]) /\ SetStatus(runJob[s], "cancelled")
          BY <2>3 DEF EncodeCancelled, Owes, Undecided
    <3> QED BY <2>3, <3>1, OutcomeStep
            DEF EncodeCancelled, Undecided, Terminal, tickVars
  <2>4. CASE GiveUp(s)
    <3>1. PICK st \in {"error", "excluded"} : SetStatus(runJob[s], st)
          BY <2>4 DEF GiveUp
    <3>2. Owes(s, runJob[s]) BY <2>4 DEF GiveUp, Owes, Undecided
    <3>3. /\ stage' = [stage EXCEPT ![s] = "tripping"]
          /\ UNCHANGED <<runJob, tick, sel, stale, proc>>
          BY <2>4 DEF GiveUp, tickVars
    <3>4. st \in Terminal /\ "tripping" \in Stages \ Undecided
          BY DEF Terminal, Stages, Undecided
    <3> QED BY <3>1, <3>2, <3>3, <3>4, OutcomeStep
  <2>5. CASE Refail(s)
    <3>1. Owes(s, runJob[s]) /\ SetStatus(runJob[s], "failed")
          BY <2>5 DEF Refail, Owes, Undecided
    <3> QED BY <2>5, <3>1, OutcomeStep
            DEF Refail, Undecided, Terminal, tickVars
  <2>6. CASE Finish(s)
    <3>1. PICK st \in {"staged", "excluded"} : SetStatus(runJob[s], st)
          BY <2>6 DEF Finish
    <3>2. Owes(s, runJob[s]) BY <2>6 DEF Finish, Owes, Undecided
    <3>3. /\ stage' = [stage EXCEPT ![s] = "leaving"]
          /\ UNCHANGED <<runJob, tick, sel, stale, proc>>
          BY <2>6 DEF Finish, tickVars
    <3>4. st \in Terminal /\ "leaving" \in Stages \ Undecided
          BY DEF Terminal, Stages, Undecided
    <3> QED BY <3>1, <3>2, <3>3, <3>4, OutcomeStep
  <2> QED BY <1>6, <2>1, <2>2, <2>3, <2>4, <2>5, <2>6 DEF Run
<1>7. ASSUME NEW c \in Clients, Client(c)
      PROVE  RunningHasOwner' /\ OneRunUnlessStale'
  <2>1. CASE \/ \E j \in JobIds : CancelRead(c, j) \/ RetryRead(c, j)
             \/ Signal(c)
        BY <2>1, SameOwners
        DEF CancelRead, RetryRead, Ask, Signal, Owes, rowVars, runVars, tickVars
  <2>2. CASE CancelRow(c)
    <3>1. request[c].job \in JobIds BY <2>2 DEF CancelRow, Shape
    <3>2. /\ NoteStale(request[c].job, {"pending"})
          /\ SetStatus(request[c].job, "cancelled")
          BY <2>2 DEF CancelRow
    <3> QED BY <2>2, <3>1, <3>2, OutsideWrite
            DEF CancelRow, runVars, tickVars, Terminal
  <2>3. CASE RetryRow(c)
    <3>1. request[c].job \in JobIds BY <2>3 DEF RetryRow, Shape
    <3>2. /\ NoteStale(request[c].job, {"failed", "cancelled"})
          /\ SetStatus(request[c].job, "pending")
          BY <2>3 DEF RetryRow
    <3> QED BY <2>3, <3>1, <3>2, OutsideWrite DEF RetryRow, runVars, tickVars
  <2> QED BY <1>7, <2>1, <2>2, <2>3 DEF Client
<1>8. CASE Enqueue
  <2>1. PICK j \in JobIds : /\ status[j] = "unborn"
                            /\ status' = [status EXCEPT ![j] = "pending"]
        BY <1>8 DEF Enqueue
  <2>2. UNCHANGED <<stage, runJob, tick, sel, stale, proc>>
        BY <1>8 DEF Enqueue, runVars, tickVars
  <2> QED BY <2>1, <2>2 DEF RunningHasOwner, OneRunUnlessStale, Owes
<1>9. CASE ClearHistory
  <2>1. \A j \in JobIds : (status'[j] = "running") <=> (status[j] = "running")
        BY <1>9 DEF ClearHistory, Terminal
  <2>2. UNCHANGED <<stage, runJob, tick, sel, stale, proc>>
        BY <1>9 DEF ClearHistory, runVars, tickVars
  <2> QED BY <2>1, <2>2 DEF RunningHasOwner, OneRunUnlessStale, Owes
<1>10. CASE SetPaused \/ SetConcurrency \/ Sigterm
       BY <1>10, SameOwners
       DEF SetPaused, SetConcurrency, Sigterm, Owes, rowVars, runVars, tickVars
<1>11. CASE Exit \/ Crash
       BY <1>11
       DEF Exit, Crash, Die, RunningHasOwner, OneRunUnlessStale, Owes, Undecided
<1>12. CASE Restart
  <2>1. /\ \A j \in JobIds : status'[j] # "running"
        /\ \A s \in Slots : stage'[s] = "free"
        /\ tick' = "idle"
        BY <1>12 DEF Restart, Shape, runVars, tickVars
  <2> QED BY <2>1 DEF RunningHasOwner, OneRunUnlessStale, Owes, Undecided
<1>13. CASE UNCHANGED vars
       BY <1>13, SameOwners DEF vars, Owes, rowVars, runVars, tickVars
<1> QED
  BY <1>1, <1>2, <1>3, <1>4, <1>5, <1>6, <1>7, <1>8, <1>9, <1>10, <1>11,
     <1>12, <1>13 DEF Next, Tick, User, Process

\* No row is stranded in "running", and a job has two goroutines, or one that
\* its row does not admit to, only after a write based on a stale read.
THEOREM RunsAreOwned == Spec => [](RunningHasOwner /\ OneRunUnlessStale)
<1>1. Init => TypeOK /\ Shape /\ RunningHasOwner /\ OneRunUnlessStale
      BY TypeInit, OwnerInit
<1>2. TypeOK /\ Shape /\ RunningHasOwner /\ OneRunUnlessStale /\ [Next]_vars
         => (TypeOK /\ Shape /\ RunningHasOwner /\ OneRunUnlessStale)'
      BY TypeStep, OwnerStep
<1> QED BY <1>1, <1>2, PTL DEF Spec

-----------------------------------------------------------------------------
(* What a row has been through. *)

\* What the loop and the goroutines hold has, or has had, a row.
Born ==
    /\ tick \in {"picked", "claimed"} => status[sel] # "unborn"
    /\ \A s \in Slots : stage[s] # "free" => status[runJob[s]] # "unborn"

\* A row is never unmade, and never comes back once it has been cleared.
LEMMA RowsStay ==
    ASSUME TypeOK, Shape, [Next]_vars, NEW j \in JobIds
    PROVE  /\ status[j] # "unborn" => status'[j] # "unborn"
           /\ status[j] = "cleared" => status'[j] = "cleared"
<1> USE DEF TypeOK, Shape, SetStatus, NoRow, Terminal, rowVars
<1>1. CASE Tick
      BY <1>1 DEF Tick, TickStart, TickRoom, TickPick, TickSkip, TickClaim,
                  TickSpawn
<1>2. ASSUME NEW s \in Slots, Run(s)
      PROVE  /\ status[j] # "unborn" => status'[j] # "unborn"
             /\ status[j] = "cleared" => status'[j] = "cleared"
      BY <1>2 DEF Run, EncodeOk, EncodeCancelled, Fail, Judge, GiveUp, Refail,
                  Trip, Finish, Unregister, Release
<1>3. CASE User
      BY <1>3 DEF User, Client, CancelRead, Ask, RetryRead, CancelRow, Signal,
                  RetryRow, Enqueue, ClearHistory, SetPaused, SetConcurrency
<1>4. CASE Process
      BY <1>4 DEF Process, Sigterm, Exit, Crash, Die, Restart
<1>5. CASE UNCHANGED vars BY <1>5 DEF vars
<1> QED BY <1>1, <1>2, <1>3, <1>4, <1>5 DEF Next

LEMMA BornInit == Init => Born
BY DEF Init, Born

LEMMA BornStep ==
    TypeOK /\ Shape /\ Born /\ [Next]_vars => Born'
<1> SUFFICES ASSUME TypeOK, Shape, Born, [Next]_vars
             PROVE  Born'
    OBVIOUS
<1> USE DEF TypeOK, Shape, Born
<1>1. \A j \in JobIds : status[j] # "unborn" => status'[j] # "unborn"
      BY RowsStay
<1>2. ASSUME tick' \in {"picked", "claimed"} => tick' = tick /\ sel' = sel,
             \A s \in Slots : stage'[s] # "free" =>
                 stage[s] # "free" /\ runJob'[s] = runJob[s]
      PROVE  Born'
      BY <1>1, <1>2
<1>3. CASE TickStart \/ TickRoom \/ TickSkip
      BY <1>2, <1>3 DEF TickStart, TickRoom, TickSkip, runVars
<1>4. CASE TickPick
      BY <1>1, <1>4 DEF TickPick, IsNextPending, rowVars, runVars
<1>5. CASE TickClaim BY <1>1, <1>5 DEF TickClaim, runVars
<1>6. CASE TickSpawn BY <1>1, <1>6 DEF TickSpawn, rowVars
<1>7. ASSUME NEW s \in Slots, Run(s) PROVE Born'
      BY <1>2, <1>7 DEF Run, EncodeOk, EncodeCancelled, Fail, Judge, GiveUp,
                        Refail, Trip, Finish, Unregister, Release, tickVars
<1>8. CASE User
      BY <1>2, <1>8
      DEF User, Client, CancelRead, Ask, RetryRead, CancelRow, Signal,
          RetryRow, Enqueue, ClearHistory, SetPaused, SetConcurrency,
          runVars, tickVars
<1>9. CASE Process
      BY <1>2, <1>9 DEF Process, Sigterm, Exit, Crash, Die, Restart, tickVars,
                        runVars
<1>10. CASE UNCHANGED vars BY <1>2, <1>10 DEF vars, tickVars, runVars
<1> QED BY <1>3, <1>4, <1>5, <1>6, <1>7, <1>8, <1>9, <1>10 DEF Next, Tick

-----------------------------------------------------------------------------
(* Failures and the threshold. *)

\* A goroutine gives up a job that has failed often enough, unless the row has
\* been cleared under it.
Judged ==
    \A s \in Slots : stage[s] = "giveup" =>
        \/ failCount[runJob[s]] = FailThreshold
        \/ status[runJob[s]] = "cleared"

LEMMA ThresholdInit == Init => ErrorOnlyAtThreshold /\ Judged
BY DEF Init, ErrorOnlyAtThreshold, Judged

\* A step that forgets no failure, gives nobody up and writes no "error".
LEMMA ThresholdKept ==
    ASSUME TypeOK, Shape, [Next]_vars, ErrorOnlyAtThreshold, Judged,
           \A j \in JobIds : failCount[j] = FailThreshold =>
               failCount'[j] = FailThreshold,
           \A j \in JobIds : status'[j] = "error" => status[j] = "error",
           \A s \in Slots : stage'[s] = "giveup" =>
               stage[s] = "giveup" /\ runJob'[s] = runJob[s]
    PROVE  ErrorOnlyAtThreshold' /\ Judged'
<1>1. ErrorOnlyAtThreshold' BY DEF ErrorOnlyAtThreshold
<1>2. Judged'
  <2> SUFFICES ASSUME NEW s \in Slots, stage'[s] = "giveup"
               PROVE  \/ failCount'[runJob'[s]] = FailThreshold
                      \/ status'[runJob'[s]] = "cleared"
      BY DEF Judged
  <2>1. runJob[s] \in JobIds /\ runJob'[s] = runJob[s] BY DEF Shape
  <2> QED BY <2>1, RowsStay DEF Judged
<1> QED BY <1>1, <1>2

LEMMA ThresholdStep ==
    TypeOK /\ Shape /\ Born /\ ErrorOnlyAtThreshold /\ Judged /\ [Next]_vars
        => ErrorOnlyAtThreshold' /\ Judged'
<1> SUFFICES ASSUME TypeOK, Shape, Born, ErrorOnlyAtThreshold, Judged,
                    [Next]_vars
             PROVE  ErrorOnlyAtThreshold' /\ Judged'
    OBVIOUS
<1> USE DEF TypeOK, Shape, Stages
<1>1. CASE Tick
  <2>1. UNCHANGED failCount
        BY <1>1 DEF Tick, TickStart, TickRoom, TickPick, TickSkip, TickClaim,
                    TickSpawn, rowVars
  <2>2. \A j \in JobIds : status'[j] = "error" => status[j] = "error"
        BY <1>1 DEF Tick, TickStart, TickRoom, TickPick, TickSkip, TickClaim,
                    TickSpawn, rowVars, SetStatus
  <2>3. \A s \in Slots : stage'[s] = "giveup" =>
            stage[s] = "giveup" /\ runJob'[s] = runJob[s]
        BY <1>1 DEF Tick, TickStart, TickRoom, TickPick, TickSkip, TickClaim,
                    TickSpawn, runVars
  <2> QED BY <2>1, <2>2, <2>3, ThresholdKept
<1>2. ASSUME NEW s \in Slots, Run(s)
      PROVE  ErrorOnlyAtThreshold' /\ Judged'
  <2>1. CASE Fail(s)
    <3>1. \A j \in JobIds : failCount[j] = FailThreshold =>
              failCount'[j] = FailThreshold
          BY <2>1 DEF Fail
    <3>2. UNCHANGED <<status, runJob>>
          BY <2>1 DEF Fail
    <3>3. stage' = [stage EXCEPT ![s] = "counted"]
          BY <2>1 DEF Fail
    <3> QED BY <3>1, <3>2, <3>3, ThresholdKept
  <2>2. CASE Judge(s)
    <3>1. UNCHANGED <<status, failCount, runJob>>
          BY <2>2 DEF Judge, rowVars
    <3>2. \A t \in Slots \ {s} : stage'[t] = stage[t]
          BY <2>2 DEF Judge
    <3>3. stage'[s] = "giveup" => failCount[runJob[s]] = FailThreshold
      <4>1. /\ runJob[s] \in JobIds
            /\ stage'[s] = "giveup" => failCount[runJob[s]] >= FailThreshold
            BY <2>2 DEF Judge
      <4> QED BY <4>1, ThresholdAssumption DEF ThresholdAssumption
    <3> QED BY <3>1, <3>2, <3>3 DEF ErrorOnlyAtThreshold, Judged
  <2>3. CASE GiveUp(s)
    <3>1. PICK st \in {"error", "excluded"} : SetStatus(runJob[s], st)
          BY <2>3 DEF GiveUp
    <3>2. /\ UNCHANGED <<failCount, runJob>>
          /\ stage' = [stage EXCEPT ![s] = "tripping"]
          /\ stage[s] = "giveup" /\ runJob[s] \in JobIds
          BY <2>3 DEF GiveUp
    <3>3. ErrorOnlyAtThreshold'
          BY <3>1, <3>2 DEF SetStatus, NoRow, Judged, ErrorOnlyAtThreshold
    <3>4. Judged'
          BY <3>2, RowsStay DEF Judged
    <3> QED BY <3>3, <3>4
  <2>4. CASE ~Fail(s) /\ ~Judge(s) /\ ~GiveUp(s)
    <3>1. /\ UNCHANGED failCount
          /\ \A j \in JobIds : status'[j] = "error" => status[j] = "error"
          BY <1>2, <2>4 DEF Run, EncodeOk, EncodeCancelled, Refail, Trip,
                            Finish, Unregister, Release, SetStatus, rowVars
    <3>2. \A t \in Slots : stage'[t] = "giveup" =>
              stage[t] = "giveup" /\ runJob'[t] = runJob[t]
          BY <1>2, <2>4 DEF Run, EncodeOk, EncodeCancelled, Refail, Trip,
                            Finish, Unregister, Release
    <3> QED BY <3>1, <3>2, ThresholdKept
  <2> QED BY <2>1, <2>2, <2>3, <2>4
<1>3. CASE ClearHistory
  <2>1. \A j \in JobIds :
           \/ failCount'[j] = failCount[j] /\ status'[j] = status[j]
           \/ status'[j] = "cleared"
        BY <1>3 DEF ClearHistory
  <2>2. UNCHANGED <<stage, runJob>>
        BY <1>3 DEF ClearHistory, runVars
  <2>3. ErrorOnlyAtThreshold'
        BY <2>1 DEF ErrorOnlyAtThreshold
  <2>4. Judged'
        BY <2>1, <2>2 DEF Judged
  <2> QED BY <2>3, <2>4
<1>4. CASE \/ \E c \in Clients : Client(c)
           \/ Enqueue \/ SetPaused \/ SetConcurrency
  <2>1. /\ UNCHANGED <<failCount, stage, runJob>>
        /\ \A j \in JobIds : status'[j] = "error" => status[j] = "error"
        BY <1>4
        DEF Client, CancelRead, Ask, RetryRead, CancelRow, Signal, RetryRow,
            Enqueue, SetPaused, SetConcurrency, SetStatus, rowVars, runVars
  <2> QED BY <2>1, ThresholdKept
<1>5. CASE Process
  <2>1. /\ UNCHANGED failCount
        /\ \A j \in JobIds : status'[j] = "error" => status[j] = "error"
        /\ \A s \in Slots : stage'[s] = "giveup" =>
               stage[s] = "giveup" /\ runJob'[s] = runJob[s]
        BY <1>5
        DEF Process, Sigterm, Exit, Crash, Die, Restart, rowVars, runVars
  <2> QED BY <2>1, ThresholdKept
<1>6. CASE UNCHANGED vars
      BY <1>6, ThresholdKept DEF vars, rowVars, runVars
<1> QED BY <1>1, <1>2, <1>3, <1>4, <1>5, <1>6 DEF Next, User

\* A job is left to an operator only after fail_threshold failures, however
\* often it has been retried, crashed or run twice (worker.go handleFailure).
THEOREM ErrorsAreEarned == Spec => []ErrorOnlyAtThreshold
<1>1. Init => TypeOK /\ Shape /\ Born /\ ErrorOnlyAtThreshold /\ Judged
      BY TypeInit, BornInit, ThresholdInit
<1>2. TypeOK /\ Shape /\ Born /\ ErrorOnlyAtThreshold /\ Judged /\ [Next]_vars
         => (TypeOK /\ Shape /\ Born /\ ErrorOnlyAtThreshold /\ Judged)'
      BY TypeStep, BornStep, ThresholdStep
<1> QED BY <1>1, <1>2, PTL DEF Spec

-----------------------------------------------------------------------------
(* Whose cancellation it is. *)

\* A context is done only where a user wanted it, or the row has gone since.
Wanted ==
    /\ proc # "stopping"
    /\ \A s \in Slots : stage[s] # "free" /\ cancelled[s] =>
          runJob[s] \in asked \/ status[runJob[s]] = "cleared"

LEMMA WantedInit == Init => CancelledOnlyByUser /\ Wanted
BY DEF Init, CancelledOnlyByUser, Wanted

\* A step that cancels nothing and forgets no request.
LEMMA WantedKept ==
    ASSUME TypeOK, Shape, [Next]_vars, CancelledOnlyByUser, Wanted,
           UNCHANGED asked, proc' # "stopping",
           \A j \in JobIds : status'[j] = "cancelled" =>
               status[j] = "cancelled",
           \A s \in Slots : stage'[s] # "free" /\ cancelled'[s] =>
               stage[s] # "free" /\ cancelled[s] /\ runJob'[s] = runJob[s]
    PROVE  CancelledOnlyByUser' /\ Wanted'
<1>1. CancelledOnlyByUser' BY DEF CancelledOnlyByUser
<1>2. Wanted'
  <2> SUFFICES ASSUME NEW s \in Slots, stage'[s] # "free", cancelled'[s]
               PROVE  runJob'[s] \in asked' \/ status'[runJob'[s]] = "cleared"
      BY DEF Wanted
  <2>1. runJob[s] \in JobIds /\ runJob'[s] = runJob[s] BY DEF Shape
  <2> QED BY <2>1, RowsStay DEF Wanted
<1> QED BY <1>1, <1>2

LEMMA WantedStep ==
    ASSUME "sigterm" \notin Stops, TypeOK, Shape, CancelReachesOwnJob,
           CancelledOnlyByUser, Wanted, [Next]_vars
    PROVE  CancelledOnlyByUser' /\ Wanted'
<1> USE DEF TypeOK, Shape
<1>1. CASE Tick
  <2>1. /\ UNCHANGED <<asked, proc>>
        /\ \A j \in JobIds : status'[j] = "cancelled" =>
               status[j] = "cancelled"
        BY <1>1 DEF Tick, TickStart, TickRoom, TickPick, TickSkip, TickClaim,
                    TickSpawn, rowVars, userVars, SetStatus
  <2>2. \A s \in Slots : stage'[s] # "free" /\ cancelled'[s] =>
            stage[s] # "free" /\ cancelled[s] /\ runJob'[s] = runJob[s]
        BY <1>1 DEF Tick, TickStart, TickRoom, TickPick, TickSkip, TickClaim,
                    TickSpawn, runVars, Wanted
  <2> QED BY <2>1, <2>2, WantedKept DEF Wanted
<1>2. ASSUME NEW s \in Slots, Run(s)
      PROVE  CancelledOnlyByUser' /\ Wanted'
  <2>1. UNCHANGED <<asked, proc>>
        BY <1>2 DEF Run, EncodeOk, EncodeCancelled, Fail, Judge, GiveUp,
                    Refail, Trip, Finish, Unregister, Release, userVars
  <2>2. \A t \in Slots : stage'[t] # "free" /\ cancelled'[t] =>
            stage[t] # "free" /\ cancelled[t] /\ runJob'[t] = runJob[t]
        BY <1>2 DEF Run, EncodeOk, EncodeCancelled, Fail, Judge, GiveUp,
                    Refail, Trip, Finish, Unregister, Release
  <2>3. CASE EncodeCancelled(s)
    <3>1. /\ SetStatus(runJob[s], "cancelled")
          /\ runJob[s] \in JobIds
          /\ runJob[s] \in asked \/ status[runJob[s]] = "cleared"
          BY <2>3 DEF EncodeCancelled, Wanted
    <3>2. CancelledOnlyByUser'
          BY <2>1, <3>1 DEF SetStatus, NoRow, CancelledOnlyByUser
    <3>3. Wanted'
      <4> SUFFICES ASSUME NEW t \in Slots, stage'[t] # "free", cancelled'[t]
                   PROVE  \/ runJob'[t] \in asked'
                          \/ status'[runJob'[t]] = "cleared"
          BY <2>1 DEF Wanted
      <4>1. runJob[t] \in JobIds /\ runJob'[t] = runJob[t] BY <2>2
      <4> QED BY <2>1, <2>2, <4>1, RowsStay DEF Wanted
    <3> QED BY <3>2, <3>3
  <2>4. CASE ~EncodeCancelled(s)
    <3>1. \A j \in JobIds : status'[j] = "cancelled" => status[j] = "cancelled"
          BY <1>2, <2>4 DEF Run, EncodeOk, Fail, Judge, GiveUp, Refail, Trip,
                            Finish, Unregister, Release, SetStatus, rowVars
    <3> QED BY <2>1, <2>2, <3>1, WantedKept DEF Wanted
  <2> QED BY <2>3, <2>4
<1>3. ASSUME NEW c \in Clients, CancelRow(c)
      PROVE  CancelledOnlyByUser' /\ Wanted'
  <2>1. /\ SetStatus(request[c].job, "cancelled")
        /\ asked' = asked \cup {request[c].job}
        /\ UNCHANGED <<stage, runJob, cancelled, proc>>
        BY <1>3 DEF CancelRow, runVars
  <2>2. CancelledOnlyByUser'
        BY <2>1 DEF SetStatus, CancelledOnlyByUser
  <2>3. Wanted'
        BY <2>1, RowsStay DEF Wanted
  <2> QED BY <2>2, <2>3
<1>4. ASSUME NEW c \in Clients, Signal(c)
      PROVE  CancelledOnlyByUser' /\ Wanted'
  <2> DEFINE j == request[c].job
  <2>1. /\ j \in JobIds
        /\ UNCHANGED <<status, stage, runJob, proc>>
        BY <1>4 DEF Signal, rowVars
  <2>2. CASE cancels[j] = NoSlot
        BY <1>4, <2>1, <2>2 DEF Signal, CancelledOnlyByUser, Wanted
  <2>3. CASE cancels[j] # NoSlot
    <3>1. /\ cancelled' = [cancelled EXCEPT ![cancels[j]] = TRUE]
          /\ asked' = asked \cup {j}
          BY <1>4, <2>3 DEF Signal
    <3>2. runJob[cancels[j]] = j
          BY <2>1, <2>3 DEF CancelReachesOwnJob
    <3>3. \A s \in Slots : cancelled'[s] => cancelled[s] \/ runJob[s] \in asked'
          BY <3>1, <3>2
    <3> HIDE DEF j
    <3> QED BY <2>1, <3>1, <3>3 DEF CancelledOnlyByUser, Wanted
  <2> QED BY <2>2, <2>3
<1>5. CASE ClearHistory
  <2> DEFINE gone == {j \in JobIds : status[j] \in Terminal}
  <2>1. /\ status' = [j \in JobIds |-> IF j \in gone THEN "cleared"
                                          ELSE status[j]]
        /\ asked' = asked \ gone
        /\ UNCHANGED <<stage, runJob, cancelled, proc>>
        BY <1>5 DEF ClearHistory, runVars
  <2> HIDE DEF gone
  <2>2. CancelledOnlyByUser' BY <2>1 DEF CancelledOnlyByUser
  <2>3. Wanted' BY <2>1 DEF Wanted
  <2> QED BY <2>2, <2>3
<1>6. CASE \/ \E c \in Clients : \/ \E j \in JobIds : CancelRead(c, j)
                                 \/ \E j \in JobIds : RetryRead(c, j)
                                 \/ RetryRow(c)
           \/ Enqueue \/ SetPaused \/ SetConcurrency
  <2>1. /\ UNCHANGED <<asked, proc, stage, runJob, cancelled>>
        /\ \A j \in JobIds : status'[j] = "cancelled" =>
               status[j] = "cancelled"
        BY <1>6 DEF CancelRead, Ask, RetryRead, RetryRow, Enqueue, SetPaused,
                    SetConcurrency, SetStatus, rowVars, runVars, userVars
  <2> QED BY <2>1, WantedKept DEF Wanted
<1>7. CASE Process
  <2>1. /\ UNCHANGED asked
        /\ proc' # "stopping"
        /\ \A j \in JobIds : status'[j] = "cancelled" =>
               status[j] = "cancelled"
        /\ \A s \in Slots : stage'[s] # "free" /\ cancelled'[s] =>
               stage[s] # "free" /\ cancelled[s] /\ runJob'[s] = runJob[s]
        BY <1>7 DEF Process, Sigterm, Exit, Crash, Die, Restart, rowVars,
                    runVars, userVars
  <2> QED BY <2>1, WantedKept
<1>8. CASE UNCHANGED vars
      BY <1>8, WantedKept DEF vars, rowVars, runVars, userVars, Wanted
<1> QED BY <1>1, <1>2, <1>3, <1>4, <1>5, <1>6, <1>7, <1>8
        DEF Next, User, Client

\* While nobody stops the daemon, "cancelled by user" is written to no job but
\* one a user asked to cancel (worker.go:255, handlers.go:176).
THEOREM CancelsAreAskedFor ==
    ASSUME "sigterm" \notin Stops
    PROVE  Spec => []CancelledOnlyByUser
<1> DEFINE Inv == TypeOK /\ Shape /\ CancelReachesOwnJob
                  /\ CancelledOnlyByUser /\ Wanted
<1>1. Init => Inv
      BY TypeInit, CancelsInit, WantedInit
<1>2. Inv /\ [Next]_vars => Inv'
      BY TypeStep, CancelsStep, WantedStep
<1>3. Inv => CancelledOnlyByUser
      OBVIOUS
<1> QED BY <1>1, <1>2, <1>3, PTL DEF Spec
=============================================================================
