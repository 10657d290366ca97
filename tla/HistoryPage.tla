---------------------------- MODULE HistoryPage ----------------------------
(***************************************************************************)
(* The History page of the web client (pages/History.tsx): the jobs table  *)
(* page by page, newest first, under a filter. load() is a closure of the  *)
(* render it was made in: it reads under the filter and from the offset of *)
(* that render, and what it reads arrives later, under whatever filter and *)
(* after whatever rows are shown by then.                                  *)
(***************************************************************************)
EXTENDS Naturals, Sequences, FiniteSets

CONSTANTS
    HistoryTasks,   \* loads and handlers that may be under way at a time
    PageSize,       \* PAGE_SIZE
    MaxJobs,        \* bound on the jobs ever enqueued
    JobTables,      \* the jobs there may be when the page is opened
    MaxChanges      \* bound on the retries that succeed and the changes
                    \* made elsewhere

VARIABLES
    job,        \* the jobs table: the status under each id
    changes,    \* retries and changes elsewhere so far
    jobs,       \* the rows shown, as they were read
    offset,     \* where the next page starts
    hasMore,    \* "Load more" is offered
    filter,     \* the status in the address of the page
    clearing,   \* "Clear History" is under way
    call,       \* per task: what it is about and how far it is
    outdated,   \* history: what is shown misses a change made elsewhere, or
                \* nothing has been shown yet
    crossed     \* history: what is shown was read for other rows or another
                \* filter than it arrived under

historyTable == <<job, changes>>
historyPage  == <<jobs, offset, hasMore, filter, clearing>>
historyVars  == <<historyTable, historyPage, call, outdated, crossed>>

JobIds    == 1..MaxJobs
Filters   == {"all", "failed"}
Ended     == {"done", "failed"}     \* one that cannot be retried, one that can
Statuses  == {"active"} \cup Ended  \* active: pending or running, no filter's

ASSUME HistoryAssumption == /\ IsFiniteSet(HistoryTasks) /\ HistoryTasks # {}
                            /\ PageSize \in Nat \ {0}
                            /\ MaxJobs \in Nat \ {0} /\ MaxChanges \in Nat

ASSUME JobTablesAssumption ==
    \A table \in JobTables :
        /\ table \in [JobIds -> {"none"} \cup Statuses]
        /\ \A i \in JobIds : table[i] = "none" =>
                               \A k \in i..MaxJobs : table[k] = "none"

NoCall == [op |-> "none", at |-> "idle", id |-> 0, reset |-> FALSE,
           filter |-> "all", off |-> 0, rows |-> <<>>, old |-> FALSE]

\* ListJobs without LIMIT: ORDER BY created_at DESC.
Matching(f) ==
    LET ids == {i \in JobIds : job[i] # "none" /\ (f = "all" \/ job[i] = f)}
        nth[k \in 1..Cardinality(ids)] ==
            CHOOSE i \in ids : Cardinality({j \in ids : j > i}) = k - 1
    IN  [k \in 1..Cardinality(ids) |-> [id |-> nth[k], status |-> job[nth[k]]]]

LimitOffset(rows, off) ==
    SubSeq(rows, off + 1, IF off + PageSize < Len(rows) THEN off + PageSize
                                                        ELSE Len(rows))

HistoryInit ==
    /\ job \in JobTables
    /\ changes = 0
    /\ jobs = <<>> /\ offset = 0 /\ hasMore = TRUE /\ filter = "all"
    /\ clearing = FALSE
    /\ call = [t \in HistoryTasks |-> NoCall]
    /\ outdated = TRUE /\ crossed = FALSE

-----------------------------------------------------------------------------
(* Reads. A snapshot that is under way when the table changes is old.      *)

Free(t) == call[t].at = "idle"

AgeAll(calls) == [u \in HistoryTasks |->
                     IF calls[u].at = "answered"
                     THEN [calls[u] EXCEPT !.old = TRUE] ELSE calls[u]]

\* The request load(reset) sends, in the render that shows f and off.
Load(reset, f, off) ==
    [NoCall EXCEPT !.op = "load", !.at = "ask", !.reset = reset, !.filter = f,
                   !.off = IF reset THEN 0 ELSE off]

AnswerLoad(t) ==
    /\ call[t].at = "ask"
    /\ call' = [call EXCEPT ![t].at = "answered",
                   ![t].rows = LimitOffset(Matching(call[t].filter),
                                           call[t].off)]
    /\ UNCHANGED <<historyTable, historyPage, outdated, crossed>>

\* load after its await.
ShowPage(t) ==
    LET c == call[t]
        misfit == c.filter # filter \/ (~c.reset /\ c.off # offset)
    IN  /\ c.at = "answered"
        /\ jobs' = IF c.reset THEN c.rows ELSE jobs \o c.rows
        /\ offset' = IF c.reset THEN Len(c.rows) ELSE offset + Len(c.rows)
        /\ hasMore' = (Len(c.rows) = PageSize)
        /\ call' = [call EXCEPT ![t] = NoCall]
        /\ outdated' = (c.old \/ (~c.reset /\ outdated))
        /\ crossed' = (misfit \/ (~c.reset /\ crossed))
        /\ UNCHANGED <<historyTable, filter, clearing>>

\* The read fails: load swallows the error and leaves what is shown.
LoseLoad(t) ==
    /\ call[t].at = "ask"
    /\ call' = [call EXCEPT ![t] = NoCall]
    /\ outdated' = (outdated \/ call[t].reset)
    /\ UNCHANGED <<historyTable, historyPage, crossed>>

-----------------------------------------------------------------------------
(* The user.                                                               *)

\* The page is opened, or left and opened again when nothing is under way.
OpenHistory(t) ==
    /\ \A u \in HistoryTasks : Free(u)
    /\ jobs' = <<>> /\ offset' = 0 /\ hasMore' = TRUE
    /\ filter' = "all" /\ clearing' = FALSE
    /\ call' = [call EXCEPT ![t] = Load(TRUE, "all", 0)]
    /\ outdated' = TRUE /\ crossed' = FALSE
    /\ UNCHANGED historyTable

\* A filter pill; the effect on activeFilter reloads.
PickFilter(t) ==
    /\ Free(t)
    /\ \E f \in Filters \ {filter} :
          /\ filter' = f
          /\ call' = [call EXCEPT ![t] = Load(TRUE, f, offset)]
    /\ UNCHANGED <<historyTable, jobs, offset, hasMore, clearing, outdated,
                   crossed>>

LoadMore(t) ==
    /\ Free(t) /\ jobs # <<>> /\ hasMore
    /\ call' = [call EXCEPT ![t] = Load(FALSE, filter, offset)]
    /\ UNCHANGED <<historyTable, historyPage, outdated, crossed>>

\* The button of a row that is shown as failed.
ClickRetry(t) ==
    /\ Free(t)
    /\ \E k \in DOMAIN jobs :
          /\ jobs[k].status = "failed"
          /\ call' = [call EXCEPT ![t] =
                [NoCall EXCEPT !.op = "retry", !.at = "act", !.id = jobs[k].id,
                               !.filter = filter]]
    /\ UNCHANGED <<historyTable, historyPage, outdated, crossed>>

\* "Clear History", confirmed.
ClickClear(t) ==
    /\ Free(t) /\ jobs # <<>> /\ ~clearing
    /\ clearing' = TRUE
    /\ call' = [call EXCEPT ![t] = [NoCall EXCEPT !.op = "clear", !.at = "act",
                                                  !.filter = filter]]
    /\ UNCHANGED <<historyTable, jobs, offset, hasMore, filter, outdated,
                   crossed>>

\* Mutant of AfterAct: the list is left as it is.
AfterActNothing(t, ok) == NoCall

\* What follows a retry or a clear that went well: load(true) of the render
\* of the click. One that failed, or whose answer was lost, is passed over.
AfterAct(t, ok) ==
    IF ok THEN Load(TRUE, call[t].filter, 0) ELSE NoCall

ActRetry(t) ==
    /\ call[t].at = "act" /\ call[t].op = "retry"
    /\ \/ /\ job[call[t].id] = "failed" /\ changes < MaxChanges
          /\ job' = [job EXCEPT ![call[t].id] = "active"]
          /\ changes' = changes + 1
          /\ \E ok \in BOOLEAN :
                /\ call' = [AgeAll(call) EXCEPT ![t] = AfterAct(t, ok)]
                /\ outdated' = (outdated \/ ~ok)
       \/ /\ call' = [call EXCEPT ![t] = NoCall]
          /\ UNCHANGED <<job, changes, outdated>>
    /\ UNCHANGED <<historyPage, crossed>>

Cleared == [i \in JobIds |-> IF job[i] \in Ended THEN "none" ELSE job[i]]

ActClear(t) ==
    /\ call[t].at = "act" /\ call[t].op = "clear"
    /\ clearing' = FALSE
    /\ \/ /\ job' = Cleared
          /\ \E ok \in BOOLEAN :
                /\ call' = [AgeAll(call) EXCEPT ![t] = AfterAct(t, ok)]
                /\ outdated' = (outdated \/ ~ok)
       \/ /\ call' = [call EXCEPT ![t] = NoCall]
          /\ UNCHANGED <<job, outdated>>
    /\ UNCHANGED <<changes, jobs, offset, hasMore, filter, crossed>>

-----------------------------------------------------------------------------
(* The others: jobs are enqueued and end.                                  *)

JobsElsewhere ==
    /\ changes < MaxChanges /\ changes' = changes + 1
    /\ \E i \in JobIds, s \in Statuses :
          /\ IF s = "active" THEN \A k \in i..MaxJobs : job[k] = "none"
                             ELSE job[i] = "active"
          /\ job' = [job EXCEPT ![i] = s]
    /\ call' = AgeAll(call) /\ outdated' = TRUE
    /\ UNCHANGED <<historyPage, crossed>>

HistoryNext ==
    \/ \E t \in HistoryTasks :
          \/ OpenHistory(t) \/ AnswerLoad(t) \/ ShowPage(t) \/ LoseLoad(t)
          \/ PickFilter(t) \/ LoadMore(t) \/ ClickRetry(t) \/ ClickClear(t)
          \/ ActRetry(t) \/ ActClear(t)
    \/ JobsElsewhere

HistorySpec == HistoryInit /\ [][HistoryNext]_historyVars

-----------------------------------------------------------------------------
(* Properties.                                                             *)

JobRows == [id : JobIds, status : Statuses]

\* Types.
HistoryTypeOK ==
    /\ job \in [JobIds -> {"none"} \cup Statuses]
    /\ changes \in 0..MaxChanges
    /\ jobs \in Seq(JobRows) /\ offset \in Nat /\ hasMore \in BOOLEAN
    /\ filter \in Filters /\ clearing \in BOOLEAN
    /\ call \in [HistoryTasks ->
                    [op : {"none", "load", "retry", "clear"},
                     at : {"idle", "act", "ask", "answered"}, id : 0..MaxJobs,
                     reset : BOOLEAN, filter : Filters, off : Nat,
                     rows : Seq(JobRows), old : BOOLEAN]]
    /\ outdated \in BOOLEAN /\ crossed \in BOOLEAN

\* Once nothing is under way the page shows the first rows of the table under
\* its filter, each once and without a gap, and says rightly whether there
\* may be more; the exceptions are a change made elsewhere, a lost answer,
\* and an answer that arrived under another filter or after other rows than
\* it was read for (load, and the handlers that end in load(true)).
QuietHistoryIsTrue ==
    (\A t \in HistoryTasks : Free(t)) /\ ~outdated /\ ~crossed =>
        /\ offset = Len(jobs)
        /\ Len(jobs) <= Len(Matching(filter))
        /\ jobs = SubSeq(Matching(filter), 1, offset)
        /\ ~hasMore => offset = Len(Matching(filter))
=============================================================================
