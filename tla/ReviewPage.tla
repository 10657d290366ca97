----------------------------- MODULE ReviewPage -----------------------------
(***************************************************************************)
(* The Review page of the web client (pages/Review.tsx) and the number of  *)
(* originals in the header (context/LayoutContext.tsx), over the originals *)
(* table that the worker, the sweep and other clients change meanwhile.    *)
(*                                                                         *)
(* A handler of the page is a task: it sends its request or requests, then *)
(* reloads the list, then the number. Each request takes effect at the     *)
(* server at one moment and is noticed by the page at a later one, so the  *)
(* tasks of two clicks interleave and their answers may overtake.          *)
(***************************************************************************)
EXTENDS Naturals, Sequences, FiniteSets

CONSTANTS
    ReviewTasks,    \* handlers of the page that may be under way at a time
    MaxOriginals    \* bound on the originals ever staged

ASSUME ReviewAssumption == /\ IsFiniteSet(ReviewTasks)
                           /\ Cardinality(ReviewTasks) >= 2
                           /\ MaxOriginals \in Nat

VARIABLES
    original,   \* the originals table: status and film under each id
    staged,     \* films staged so far; a film is the number it was staged as
    records,    \* the rows shown, as the server listed them
    loading,    \* no list has arrived yet
    selected,   \* the rows with a tick, as they were when ticked; the page
                \* itself keeps their ids only
    confirming, \* "Yes, delete" is on the screen (confirmBulk)
    badge,      \* originalsCount
    task,       \* per task: what it is about and how far it is
    answered,   \* tasks whose answer is under way, in the order of the reads
    overtaken,  \* history: those that a later read has overtaken
    late,       \* history: kinds of read whose last shown answer was overtaken
    moved       \* history: kinds of read that miss a change made elsewhere,
                \* or have never been shown

reviewTable == <<original, staged>>
reviewPage  == <<records, loading, selected, confirming, badge>>
reviewTasks == <<task, answered, overtaken, late>>
reviewVars  == <<reviewTable, reviewPage, reviewTasks, moved>>

OriginalIds == 1..MaxOriginals
ReadKinds   == {"list", "count"}
RowIds(rows) == {r.id : r \in rows}
NoTask == [op |-> "none", todo |-> {}, at |-> "idle", saw |-> {}]

\* Mutant of NextOriginal: the id of a cleared row is used again.
NextOriginalReused(table) ==
    CHOOSE i \in OriginalIds :
        /\ table[i].status = "none"
        /\ \A k \in 1..(i - 1) : table[k].status # "none"

\* AUTOINCREMENT: an id is never used again.
NextOriginal(table) == staged + 1

Held(table) == {i \in OriginalIds : table[i].status = "held"}

\* Mutant of ListOriginals: only a page of them, the one staged last.
ListOriginalsPaged(table) ==
    {[id |-> i, film |-> table[i].film] :
        i \in {k \in Held(table) : \A j \in Held(table) : j <= k}}

\* ActiveOriginals, whether they have expired or not.
ListOriginals(table) ==
    {[id |-> i, film |-> table[i].film] : i \in Held(table)}

ReviewInit ==
    /\ \E n \in 0..MaxOriginals :
          /\ staged = n
          /\ original = [i \in OriginalIds |->
                            IF i <= n THEN [status |-> "held", film |-> i]
                                      ELSE [status |-> "none", film |-> 0]]
    /\ records = {} /\ loading = TRUE /\ selected = {}
    /\ confirming = FALSE
    /\ badge = 0
    /\ task = [t \in ReviewTasks |-> NoTask]
    /\ answered = <<>> /\ overtaken = {} /\ late = {} /\ moved = ReadKinds

-----------------------------------------------------------------------------
(* The tasks: what the server does with a request, and what the page does  *)
(* with the answer.                                                        *)

Continue(t, at, saw) == [task EXCEPT ![t].at = at, ![t].saw = saw]

Outcomes == {"ok", "refused", "lost"}

\* What a request does to the row it names: GetOriginal finds held rows only.
Resolve(r, outcome) ==
    IF outcome = "refused" THEN UNCHANGED original
    ELSE /\ original[r.id].status = "held"
         /\ original' = [original EXCEPT ![r.id].status = "gone"]

\* handleDelete up to its await of load(); handleRestore is the same.
ActOne(t) ==
    /\ task[t].at = "act" /\ task[t].op \in {"delete", "restore"}
    /\ \E r \in task[t].todo, outcome \in Outcomes :
          /\ Resolve(r, outcome)
          /\ IF outcome = "ok"
             THEN task' = Continue(t, "list", {}) /\ UNCHANGED moved
             ELSE /\ task' = [task EXCEPT ![t] = NoTask]
                  /\ moved' = ReadKinds
    /\ UNCHANGED <<staged, records, loading, selected, confirming, badge,
                   answered, overtaken, late>>

\* handleBulkDelete: one id after the other, whatever comes of each ...
ActBulk(t) ==
    /\ task[t].at = "act" /\ task[t].op = "bulk"
    /\ \E r \in task[t].todo, outcome \in Outcomes :
          /\ Resolve(r, outcome)
          /\ task' = [task EXCEPT ![t].todo = @ \ {r}]
    /\ UNCHANGED <<staged, reviewPage, answered, overtaken, late, moved>>

\* ... then the selection is cleared and the list is asked for.
EndBulk(t) ==
    /\ task[t].at = "act" /\ task[t].op = "bulk" /\ task[t].todo = {}
    /\ selected' = {}
    /\ task' = Continue(t, "list", {})
    /\ UNCHANGED <<reviewTable, records, loading, confirming, badge,
                   answered, overtaken, late, moved>>

\* GET /originals at the server, for the list or for its length.
AnswerRead(t) ==
    /\ task[t].at \in ReadKinds
    /\ task' = Continue(t, IF task[t].at = "list" THEN "listed" ELSE "counted",
                        ListOriginals(original))
    /\ answered' = Append(answered, t)
    /\ moved' = moved \ {task[t].at}
    /\ UNCHANGED <<reviewTable, reviewPage, overtaken, late>>

\* The answer of t arrives: reads that were answered before it are overtaken.
Deliver(t, kind) ==
    LET pos == CHOOSE k \in DOMAIN answered : answered[k] = t
        before == {answered[k] : k \in 1..(pos - 1)}
    IN  /\ answered' = SubSeq(answered, 1, pos - 1) \o
                       SubSeq(answered, pos + 1, Len(answered))
        /\ overtaken' = (overtaken \ {t}) \cup
                        {u \in before : task[u].at = task[t].at}
        /\ late' = IF t \in overtaken THEN late \cup {kind} ELSE late \ {kind}

\* Mutant of AfterList: a restore leaves the number in the header alone.
AfterListNoCount(op) == IF op = "delete" THEN "count" ELSE "idle"

\* What follows the list: the page's own load ends, a handler goes on to
\* refreshOriginals.
AfterList(op) == IF op = "open" THEN "idle" ELSE "count"

\* The rest of the handler once its list has arrived, or failed to.
ShowRecords(t, shown) ==
    LET at == AfterList(task[t].op)
    IN  /\ records' = shown
        /\ loading' = FALSE
        /\ selected' = IF task[t].op \in {"delete", "restore"}
                       THEN {s \in selected : s.id \notin RowIds(task[t].todo)}
                       ELSE selected
        /\ task' = [task EXCEPT ![t] =
                        IF at = "idle" THEN NoTask
                        ELSE [NoTask EXCEPT !.op = task[t].op, !.at = at]]
        /\ UNCHANGED <<reviewTable, confirming, badge>>

ShowList(t) ==
    /\ task[t].at = "listed"
    /\ ShowRecords(t, task[t].saw)
    /\ Deliver(t, "list")
    /\ UNCHANGED moved

\* The read fails: load shows no rows at all and goes on.
LoseList(t) ==
    /\ task[t].at = "list"
    /\ ShowRecords(t, {})
    /\ moved' = moved \cup {"list"}
    /\ UNCHANGED <<answered, overtaken, late>>

\* refreshOriginals: the number of the listed originals, or nothing.
ShowCount(t) ==
    /\ task[t].at = "counted"
    /\ badge' = Cardinality(task[t].saw)
    /\ task' = [task EXCEPT ![t] = NoTask]
    /\ Deliver(t, "count")
    /\ UNCHANGED <<reviewTable, records, loading, selected, confirming, moved>>

LoseCount(t) ==
    /\ task[t].at = "count"
    /\ task' = [task EXCEPT ![t] = NoTask]
    /\ moved' = moved \cup {"count"}
    /\ UNCHANGED <<reviewTable, reviewPage, answered, overtaken, late>>

-----------------------------------------------------------------------------
(* The user: every control needs rows on the screen.                       *)

Controls == ~loading /\ records # {}
Idle(t)  == task[t].at = "idle"

\* The buttons of a row: delete, restore, restore and exclude.
ClickRow(t) ==
    /\ Controls /\ Idle(t)
    /\ \E r \in records, op \in {"delete", "restore"} :
          task' = [task EXCEPT ![t] =
                      [op |-> op, todo |-> {r}, at |-> "act", saw |-> {}]]
    /\ UNCHANGED <<reviewTable, reviewPage, answered, overtaken, late, moved>>

Select(rows) ==
    /\ selected' = rows
    /\ UNCHANGED <<reviewTable, records, loading, confirming, badge,
                   reviewTasks, moved>>

\* The box in front of a row.
ToggleSelect ==
    /\ Controls
    /\ \E r \in records :
          Select(IF r.id \in RowIds(selected)
                 THEN {s \in selected : s.id # r.id}
                 ELSE selected \cup {r})

SelectAll ==
    /\ Controls
    /\ Select(IF Cardinality(selected) = Cardinality(records) THEN {}
              ELSE records)

\* "Delete n originals" asks, "Cancel" takes the question back.
AskBulk ==
    /\ Controls /\ selected # {}
    /\ confirming' = ~confirming
    /\ UNCHANGED <<reviewTable, records, loading, selected, badge,
                   reviewTasks, moved>>

\* "Yes, delete": what is ticked at that moment.
ConfirmBulk(t) ==
    /\ Controls /\ confirming /\ selected # {} /\ Idle(t)
    /\ confirming' = FALSE
    /\ task' = [task EXCEPT ![t] =
                   [op |-> "bulk", todo |-> selected, at |-> "act", saw |-> {}]]
    /\ UNCHANGED <<reviewTable, records, loading, selected, badge,
                   answered, overtaken, late, moved>>

\* The client is loaded: LayoutProvider asks for the number, before the page
\* asks for anything.
OpenLayout(t) ==
    /\ loading /\ \A u \in ReviewTasks : Idle(u)
    /\ task' = [task EXCEPT ![t] = [NoTask EXCEPT !.op = "open",
                                                 !.at = "count"]]
    /\ UNCHANGED <<reviewTable, reviewPage, answered, overtaken, late, moved>>

\* The page is opened, or left and opened again. Handlers of a page that has
\* been left are not followed: it is left when they have ended.
OpenReview(t) ==
    /\ \A u \in ReviewTasks : Idle(u) \/ task[u].op = "open"
    /\ \A u \in ReviewTasks : task[u].at \notin {"list", "listed"}
    /\ Idle(t)
    /\ records' = {} /\ loading' = TRUE /\ selected' = {}
    /\ confirming' = FALSE
    /\ task' = [task EXCEPT ![t] = [NoTask EXCEPT !.op = "open", !.at = "list"]]
    /\ UNCHANGED <<reviewTable, badge, answered, overtaken, late, moved>>

-----------------------------------------------------------------------------
(* The others: the worker stages a film, the sweep or another client is    *)
(* done with an original, a client clears the history.                     *)

Elsewhere == moved' = ReadKinds /\ UNCHANGED <<reviewPage, reviewTasks>>

Stage ==
    /\ staged < MaxOriginals
    /\ staged' = staged + 1
    /\ original' = [original EXCEPT ![NextOriginal(original)] =
                       [status |-> "held", film |-> staged + 1]]
    /\ Elsewhere

Finish ==
    /\ \E i \in Held(original) :
          original' = [original EXCEPT ![i].status = "gone"]
    /\ Elsewhere /\ UNCHANGED staged

\* ClearHistory drops the rows of every job that is staged or further.
Clear ==
    /\ \E i \in OriginalIds : original[i].status # "none"
    /\ original' = [i \in OriginalIds |-> [status |-> "none", film |-> 0]]
    /\ Elsewhere /\ UNCHANGED staged

ReviewTask(t) == \/ ActOne(t) \/ ActBulk(t) \/ EndBulk(t) \/ AnswerRead(t)
                 \/ ShowList(t) \/ LoseList(t) \/ ShowCount(t) \/ LoseCount(t)
                 \/ ClickRow(t) \/ ConfirmBulk(t) \/ OpenLayout(t)
                 \/ OpenReview(t)

ReviewNext ==
    \/ \E t \in ReviewTasks : ReviewTask(t)
    \/ ToggleSelect \/ SelectAll \/ AskBulk
    \/ Stage \/ Finish \/ Clear

-----------------------------------------------------------------------------
(* Properties.                                                             *)

SeenRows == [id : OriginalIds, film : OriginalIds]

\* Types.
ReviewTypeOK ==
    /\ original \in [OriginalIds -> [status : {"none", "held", "gone"},
                                     film : 0..MaxOriginals]]
    /\ staged \in 0..MaxOriginals
    /\ records \subseteq SeenRows /\ selected \subseteq SeenRows
    /\ loading \in BOOLEAN /\ confirming \in BOOLEAN
    /\ badge \in 0..MaxOriginals
    /\ task \in [ReviewTasks ->
                    [op : {"none", "open", "delete", "restore", "bulk"},
                     todo : SUBSET SeenRows,
                     at : {"idle", "act", "list", "listed", "count", "counted"},
                     saw : SUBSET SeenRows]]
    /\ answered \in Seq(ReviewTasks) /\ overtaken \subseteq ReviewTasks
    /\ late \subseteq ReadKinds /\ moved \subseteq ReadKinds

\* Whatever is deleted or restored is the film the user saw in that row:
\* an id on the screen, ticked or under way names that film or nothing any
\* more, although lists are stale and clearing removes rows from the table
\* (AUTOINCREMENT of originals, GetOriginal).
RequestsNameWhatWasSeen ==
    \A r \in records \cup selected
             \cup UNION {task[t].todo : t \in ReviewTasks} :
        original[r.id].status = "held" => original[r.id].film = r.film

\* "Delete n originals" destroys nothing that is out of sight: a ticked row
\* that has left the list is no longer held, so its request is refused. The
\* page never drops ticks with their rows (load); an answer that was
\* overtaken by a later one is the exception.
HiddenTicksAreSpent ==
    Controls /\ "list" \notin late =>
        \A s \in selected \ records : original[s.id].status # "held"

\* Once every handler has ended the list and the number in the header are
\* those of the table, unless the table was changed elsewhere, a request
\* failed, or the answer shown was overtaken (load and refreshOriginals in
\* handleDelete, handleRestore and handleBulkDelete).
QuietReviewIsTrue ==
    (\A t \in ReviewTasks : Idle(t)) =>
        /\ "list" \notin moved \cup late => records = ListOriginals(original)
        /\ "count" \notin moved \cup late => badge = Cardinality(Held(original))

ReviewSpec == ReviewInit /\ [][ReviewNext]_reviewVars
=============================================================================
