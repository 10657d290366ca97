---------------------------- MODULE PagesProofs ----------------------------
(***************************************************************************)
(* Theorems about the pages of the web client that keep a list: what the   *)
(* Directories and the History page show once nothing is under way, what a *)
(* picker shows and what is ticked in it, and what the Queue page and the  *)
(* Dashboard show of the running jobs. Each part has an inductive          *)
(* invariant, one lemma per action or kind of action that keeps it, and    *)
(* the theorems that follow. At the end they are said of the whole client, *)
(* with those about the review page, the settings and the login.           *)
(***************************************************************************)
EXTENDS ClientPages, ReviewProofs, SettingsProofs, SessionProofs, Integers,
        FiniteSetTheorems, SequenceTheorems, TLAPS

-----------------------------------------------------------------------------
(* Directories: types. *)

DirAges   == Ages \cup {DefaultAge}
DirTables == [DirIds -> DirRows \cup {NoRow}]
OpenCards == [id : DirIds, base : DirRows, path : DirPaths, age : DirAges,
              saving : BOOLEAN]
DirForms  == [open : BOOLEAN, paths : SUBSET DirPaths, age : DirAges,
              saving : BOOLEAN]
DirOps    == {"none", "open", "save", "add", "addFailed", "remove"}
DirJobs   == [op : DirOps, at : {"idle", "act", "list", "listed"},
              id : DirIds \cup {NoDir}, base : DirRows \cup {NoRow},
              paths : SUBSET DirPaths, age : DirAges \cup {0},
              rows : DirTables \cup {<<>>}, old : BOOLEAN]

\* Types, and what a request for a card carries.
DirTyped ==
    /\ directory \in DirTables /\ dirs \in DirTables
    /\ lastDir \in 0..MaxDirs /\ dirSteps \in 0..MaxDirSteps
    /\ editing \in DirIds \cup {NoDir}
    /\ card = NoCard \/ (card \in OpenCards /\ card.id = editing)
    /\ dirForm \in DirForms /\ dirOld \in BOOLEAN
    /\ dirTask \in [DirTasks -> DirJobs]
    /\ \A t \in DirTasks :
          /\ dirTask[t].op = "save" => dirTask[t].id \in DirIds
                                       /\ dirTask[t].age \in DirAges
          /\ dirTask[t].at = "listed" => dirTask[t].rows \in DirTables

\* What is not under way.
LEMMA NothingUnderWay ==
    /\ NoJob \in DirJobs /\ NoJob.op = "none" /\ NoJob.at = "idle"
    /\ NoForm \in DirForms /\ NoRow \notin DirRows /\ NoDir \notin DirIds
<1>1. NoRow \notin DirRows BY DirectoriesAssumption DEF NoRow, DirRows
<1>2. NoDir \notin DirIds
  <2>1. MaxDirs \in Nat BY DirectoriesAssumption, Zenon
  <2> QED BY <2>1 DEF NoDir, DirIds
<1> QED BY <1>1, <1>2 DEF NoJob, DirJobs, DirOps, NoForm, DirForms, DirAges

\* The rows that are listed.
LEMMA ListedRows ==
    ASSUME NEW table \in DirTables, NEW i \in Listed(table)
    PROVE  i \in DirIds /\ table[i] \in DirRows
           /\ table[i].path \in DirPaths /\ table[i].age \in DirAges
<1>1. i \in DirIds /\ table[i] \in DirRows BY DEF Listed, DirTables
<1> QED BY <1>1 DEF DirRows, DirAges

\* Lists that are under way get old, and nothing else changes.
LEMMA Aged ==
    ASSUME DirTyped
    PROVE  /\ AgeDirs(dirTask) \in [DirTasks -> DirJobs]
           /\ \A u \in DirTasks :
                 LET c == AgeDirs(dirTask)[u]
                 IN  /\ c.at = dirTask[u].at /\ c.op = dirTask[u].op
                     /\ c.id = dirTask[u].id /\ c.age = dirTask[u].age
                     /\ c.rows = dirTask[u].rows
                     /\ c.at = "listed" => c.old
<1> SUFFICES ASSUME NEW u \in DirTasks
             PROVE  LET c == IF dirTask[u].at = "listed"
                             THEN [dirTask[u] EXCEPT !.old = TRUE]
                             ELSE dirTask[u]
                    IN  /\ c \in DirJobs
                        /\ c.at = dirTask[u].at /\ c.op = dirTask[u].op
                        /\ c.id = dirTask[u].id /\ c.age = dirTask[u].age
                        /\ c.rows = dirTask[u].rows
                        /\ c.at = "listed" => c.old
    BY DEF AgeDirs
<1>1. dirTask[u] \in DirJobs BY DEF DirTyped
<1>2. PICK c : c = [dirTask[u] EXCEPT !.old = TRUE] OBVIOUS
<1>3. /\ c \in DirJobs /\ c.at = dirTask[u].at /\ c.op = dirTask[u].op
      /\ c.id = dirTask[u].id /\ c.age = dirTask[u].age /\ c.old = TRUE
      /\ c.rows = dirTask[u].rows
      BY <1>1, <1>2 DEF DirJobs
<1> QED BY <1>1, <1>2, <1>3

\* The card of a row.
LEMMA CardTyped ==
    ASSUME DirTyped, NEW shown \in DirTables, NEW id \in DirIds \cup {NoDir}
    PROVE  CardFor(id, shown) = NoCard
           \/ (CardFor(id, shown) \in OpenCards /\ CardFor(id, shown).id = id)
<1>1. CASE id = NoDir \/ id \notin Listed(shown) BY <1>1 DEF CardFor
<1>2. CASE id \in Listed(shown) /\ id # NoDir
  <2>1. /\ id \in DirIds /\ shown[id] \in DirRows
        /\ shown[id].path \in DirPaths /\ shown[id].age \in DirAges
        BY <1>2, ListedRows
  <2>2. CASE card.id = id
    <3>1. NoCard.id = NoDir BY DEF NoCard
    <3> QED BY <1>2, <2>2, <3>1 DEF CardFor, DirTyped
  <2>3. CASE card.id # id
    <3>1. PICK c : c = [NoCard EXCEPT !.id = id, !.base = shown[id],
                            !.path = shown[id].path, !.age = shown[id].age]
          OBVIOUS
    <3>2. NoCard \in [id : DirIds \cup {NoDir}, base : DirRows \cup {NoRow},
                      path : DirPaths \cup {""}, age : DirAges \cup {0},
                      saving : BOOLEAN]
          /\ NoCard.saving = FALSE
          BY DEF NoCard
    <3>3. c \in OpenCards /\ c.id = id BY <2>1, <3>1, <3>2 DEF OpenCards
    <3>4. CardFor(id, shown) = c BY <1>2, <2>3, <3>1 DEF CardFor
    <3> QED BY <3>3, <3>4
  <2> QED BY <2>2, <2>3
<1> QED BY <1>1, <1>2

-----------------------------------------------------------------------------
(* Directories: the quiet page. *)

\* A list under way that is not old is the table.
Snapshots ==
    \A t \in DirTasks : dirTask[t].at = "listed" /\ ~dirTask[t].old =>
                            dirTask[t].rows = directory

Reading(t) == dirTask[t].at \in {"list", "listed"}

\* What is shown is the table, or a list is still to come.
DirsAreFresh ==
    ~dirOld => dirs = directory \/ \E t \in DirTasks : Reading(t)

DirInv == DirTyped /\ Snapshots /\ DirsAreFresh

\* A task and the table change; the lists under way get old with it.
LEMMA TaskMoves ==
    ASSUME DirInv, NEW t \in DirTasks, NEW x \in DirJobs, x.at # "listed",
           \/ dirTask' = [dirTask EXCEPT ![t] = x] /\ directory' = directory
           \/ dirTask' = [AgeDirs(dirTask) EXCEPT ![t] = x],
           x.op = "save" => x.id \in DirIds /\ x.age \in DirAges
    PROVE  /\ dirTask' \in [DirTasks -> DirJobs] /\ dirTask'[t] = x
           /\ \A u \in DirTasks \ {t} : dirTask'[u].at = dirTask[u].at
           /\ \A u \in DirTasks :
                 /\ dirTask'[u].op = "save" => dirTask'[u].id \in DirIds
                                               /\ dirTask'[u].age \in DirAges
                 /\ dirTask'[u].at = "listed" => dirTask'[u].rows \in DirTables
           /\ Snapshots'
<1>1. dirTask \in [DirTasks -> DirJobs] BY DEF DirInv, DirTyped
<1>2. CASE dirTask' = [dirTask EXCEPT ![t] = x] /\ directory' = directory
      BY <1>1, <1>2 DEF DirInv, DirTyped, Snapshots
<1>3. CASE dirTask' = [AgeDirs(dirTask) EXCEPT ![t] = x]
  <2> DEFINE A == AgeDirs(dirTask)
  <2>1. A \in [DirTasks -> DirJobs] BY Aged DEF DirInv
  <2>2. \A u \in DirTasks :
            /\ A[u].at = dirTask[u].at /\ A[u].op = dirTask[u].op
            /\ A[u].id = dirTask[u].id /\ A[u].age = dirTask[u].age
            /\ A[u].rows = dirTask[u].rows
            /\ A[u].at = "listed" => A[u].old
        BY Aged DEF DirInv
  <2>3. dirTask' = [A EXCEPT ![t] = x] BY <1>3
  <2> HIDE DEF A
  <2>4. dirTask'[t] = x /\ \A u \in DirTasks \ {t} : dirTask'[u] = A[u]
        BY <2>1, <2>3
  <2> QED BY <2>1, <2>2, <2>3, <2>4 DEF DirInv, DirTyped, Snapshots
<1> QED BY <1>2, <1>3

\* A step of one task, with the table or without.
MovesTask(t, x) ==
    /\ x \in DirJobs /\ x.at # "listed"
    /\ \/ dirTask' = [dirTask EXCEPT ![t] = x] /\ directory' = directory
       \/ dirTask' = [AgeDirs(dirTask) EXCEPT ![t] = x]
    /\ x.op = "save" => x.id \in DirIds /\ x.age \in DirAges

\* A step that leaves list and lists under way alone, but starts a reading, or
\* says that it misses one.
LEMMA MovesKeep ==
    ASSUME DirInv, NEW t \in DirTasks, NEW x, MovesTask(t, x),
           directory' \in DirTables, dirs' \in DirTables,
           lastDir' \in 0..MaxDirs, dirSteps' \in 0..MaxDirSteps,
           editing' \in DirIds \cup {NoDir},
           card' = NoCard \/ (card' \in OpenCards /\ card'.id = editing'),
           dirForm' \in DirForms, dirOld' \in BOOLEAN,
           \/ dirOld' \/ x.at = "list"
           \/ /\ ~Reading(t) /\ dirOld' = dirOld /\ dirs' = dirs
              /\ directory' = directory
    PROVE  DirInv'
<1>1. /\ dirTask' \in [DirTasks -> DirJobs] /\ dirTask'[t] = x
      /\ \A u \in DirTasks \ {t} : dirTask'[u].at = dirTask[u].at
      /\ \A u \in DirTasks :
            /\ dirTask'[u].op = "save" => dirTask'[u].id \in DirIds
                                          /\ dirTask'[u].age \in DirAges
            /\ dirTask'[u].at = "listed" => dirTask'[u].rows \in DirTables
      /\ Snapshots'
      BY TaskMoves DEF MovesTask
<1>2. DirTyped' BY <1>1 DEF DirTyped
<1>3. DirsAreFresh'
  <2>1. CASE dirOld' BY <2>1 DEF DirsAreFresh
  <2>2. CASE x.at = "list" BY <1>1, <2>2 DEF DirsAreFresh, Reading
  <2>3. CASE /\ ~Reading(t) /\ dirOld' = dirOld /\ dirs' = dirs
             /\ directory' = directory
    <3>1. \A u \in DirTasks : Reading(u) => Reading(u)'
          BY <1>1, <2>3 DEF Reading
    <3> QED BY <2>3, <3>1 DEF DirsAreFresh, DirInv
  <2> QED BY <2>1, <2>2, <2>3
<1> QED BY <1>1, <1>2, <1>3 DEF DirInv

\* What is written and typed on the page.
LEMMA PageMoves ==
    ASSUME DirInv, UNCHANGED <<directory, lastDir, dirSteps, dirs, dirTask,
                               dirOld>>,
           editing' \in DirIds \cup {NoDir},
           card' = NoCard \/ (card' \in OpenCards /\ card'.id = editing'),
           dirForm' \in DirForms
    PROVE  DirInv'
BY DEF DirInv, DirTyped, Snapshots, DirsAreFresh, Reading

\* The page is opened.
LEMMA OpenDirsInv ==
    ASSUME DirInv, NEW t \in DirTasks, OpenDirectories(t) PROVE DirInv'
<1>1. PICK x : x = [NoJob EXCEPT !.op = "open", !.at = "list"] OBVIOUS
<1>2. x \in DirJobs /\ x.at = "list" /\ x.op = "open"
      BY <1>1, NothingUnderWay DEF DirJobs, DirOps
<1>3. MovesTask(t, x)
      BY <1>1, <1>2 DEF OpenDirectories, MovesTask, dirTable
<1>4. /\ directory' = directory /\ lastDir' = lastDir /\ dirSteps' = dirSteps
      /\ dirs' \in DirTables /\ editing' = NoDir /\ card' = NoCard
      /\ dirForm' = NoForm /\ dirOld' = TRUE
      BY DEF OpenDirectories, dirTable, DirTables
<1> QED BY <1>3, <1>4, NothingUnderWay, MovesKeep DEF DirInv, DirTyped

\* The server lists the table.
LEMMA AnswerDirsInv ==
    ASSUME DirInv, NEW t \in DirTasks, AnswerDirs(t) PROVE DirInv'
<1>1. dirTask \in [DirTasks -> DirJobs] /\ dirTask[t] \in DirJobs
      /\ directory \in DirTables
      BY DEF DirInv, DirTyped
<1>2. PICK x : x = [dirTask[t] EXCEPT !.at = "listed", !.rows = directory]
      OBVIOUS
<1>3. /\ x \in DirJobs /\ x.at = "listed" /\ x.op = dirTask[t].op
      /\ x.id = dirTask[t].id /\ x.age = dirTask[t].age /\ x.rows = directory
      BY <1>1, <1>2 DEF DirJobs
<1>4. dirTask' = [dirTask EXCEPT ![t] = x]
      BY <1>1, <1>2 DEF AnswerDirs
<1>5. /\ dirTask' \in [DirTasks -> DirJobs] /\ dirTask'[t] = x
      /\ \A u \in DirTasks \ {t} : dirTask'[u] = dirTask[u]
      BY <1>1, <1>3, <1>4
<1>6. UNCHANGED <<directory, lastDir, dirSteps, dirs, editing, card, dirForm,
                  dirOld>>
      BY DEF AnswerDirs, dirTable, dirPage
<1>7. DirTyped' BY <1>1, <1>3, <1>5, <1>6 DEF DirInv, DirTyped
<1>8. Snapshots' BY <1>3, <1>5, <1>6 DEF DirInv, Snapshots
<1>9. DirsAreFresh' BY <1>3, <1>5, <1>6 DEF DirInv, DirsAreFresh, Reading
<1> QED BY <1>7, <1>8, <1>9 DEF DirInv

\* A list is shown, or has not arrived.
LEMMA ShowDirsInv ==
    ASSUME DirInv, NEW t \in DirTasks, ShowDirs(t) \/ LoseDirs(t)
    PROVE  DirInv'
<1>1. PICK shown \in DirTables :
          /\ FinishDirs(t, shown)
          /\ ShowDirs(t) => shown = dirTask[t].rows
      BY DEF ShowDirs, LoseDirs, DirInv, DirTyped
<1>2. /\ UNCHANGED <<directory, lastDir, dirSteps>> /\ dirOld' \in BOOLEAN
      /\ dirOld' \/ (ShowDirs(t) /\ ~dirTask[t].old)
      BY DEF ShowDirs, LoseDirs, dirTable, DirInv, DirTyped, DirJobs
<1>3. PICK i \in DirIds \cup {NoDir} :
          editing' = i /\ card' = CardFor(i, shown)
      BY <1>1 DEF FinishDirs, DirInv, DirTyped
<1>4. card' = NoCard \/ (card' \in OpenCards /\ card'.id = editing')
      BY <1>3, CardTyped DEF DirInv
<1>5. dirForm' \in DirForms
      BY <1>1, NothingUnderWay DEF FinishDirs, DirInv, DirTyped, DirForms
<1>6. dirs' = shown /\ dirTask' = [dirTask EXCEPT ![t] = NoJob]
      BY <1>1 DEF FinishDirs
<1>7. CASE dirOld'
  <2>1. MovesTask(t, NoJob) BY <1>2, <1>6, NothingUnderWay DEF MovesTask
  <2> QED BY <1>2, <1>3, <1>4, <1>5, <1>6, <1>7, <2>1, MovesKeep
          DEF DirInv, DirTyped
<1>8. CASE ShowDirs(t) /\ ~dirTask[t].old
  <2>1. dirs' = directory'
        BY <1>1, <1>2, <1>6, <1>8 DEF ShowDirs, DirInv, Snapshots
  <2>2. /\ dirTask' \in [DirTasks -> DirJobs] /\ dirTask'[t] = NoJob
        /\ \A u \in DirTasks \ {t} : dirTask'[u] = dirTask[u]
        BY <1>6, NothingUnderWay DEF DirInv, DirTyped
  <2>3. DirTyped'
        BY <1>2, <1>3, <1>4, <1>5, <1>6, <2>2, NothingUnderWay
           DEF DirInv, DirTyped
  <2>4. Snapshots' BY <1>2, <2>2, NothingUnderWay DEF DirInv, Snapshots
  <2> QED BY <2>1, <2>3, <2>4 DEF DirInv, DirsAreFresh
<1> QED BY <1>2, <1>7, <1>8

\* What the user opens, types and cancels.
LEMMA EditorsInv ==
    ASSUME DirInv,
           \/ \E id \in DirIds : EditDir(id)
           \/ \E from \in DirIds \cup {NoDir} : StartAdd(from)
           \/ TypeCard \/ CancelCard \/ TypeForm \/ TypeSettings \/ CancelForm
    PROVE  DirInv'
<1>1. /\ dirs \in DirTables /\ editing \in DirIds \cup {NoDir}
      /\ card = NoCard \/ (card \in OpenCards /\ card.id = editing)
      /\ dirForm \in DirForms /\ NoCard.id = NoDir
      BY DEF DirInv, DirTyped, NoCard
<1>2. Closed(dirForm) \in DirForms
      BY <1>1 DEF Closed, NoForm, DirForms, DirAges
<1>3. UNCHANGED <<directory, lastDir, dirSteps, dirs, dirTask, dirOld>>
      BY DEF EditDir, StartAdd, TypeCard, CancelCard, TypeForm, TypeSettings,
             CancelForm, dirTable
<1>4. CASE \E id \in DirIds : EditDir(id)
  <2>1. PICK id \in DirIds : EditDir(id) BY <1>4
  <2>2. /\ editing' = id /\ card' = CardFor(id, dirs)
        /\ dirForm' = Closed(dirForm)
        BY <2>1 DEF EditDir
  <2>3. card' = NoCard \/ (card' \in OpenCards /\ card'.id = editing')
        BY <1>1, <2>2, CardTyped DEF DirInv
  <2> QED BY <1>2, <1>3, <2>2, <2>3, PageMoves
<1>5. CASE \E from \in DirIds \cup {NoDir} : StartAdd(from)
  <2>1. PICK from \in DirIds \cup {NoDir} : StartAdd(from) BY <1>5
  <2>2. PICK a : a = IF from = NoDir THEN DefaultAge ELSE dirs[from].age
        OBVIOUS
  <2>3. a \in DirAges
        BY <1>1, <2>1, <2>2, ListedRows DEF StartAdd, DirAges
  <2>4. PICK f : f = [dirForm EXCEPT !.open = TRUE, !.paths = {}, !.age = a]
        OBVIOUS
  <2>5. f \in DirForms BY <1>1, <2>3, <2>4 DEF DirForms
  <2>6. dirForm' = f BY <2>1, <2>2, <2>4 DEF StartAdd
  <2>7. editing' = NoDir /\ card' = NoCard BY <2>1 DEF StartAdd
  <2> QED BY <1>3, <2>5, <2>6, <2>7, PageMoves
<1>6. CASE TypeCard
  <2>1. PICK p \in DirPaths, a \in Ages :
            card' = [card EXCEPT !.path = p, !.age = a]
        BY <1>6 DEF TypeCard
  <2>2. card \in OpenCards /\ card.id = editing
        BY <1>1, <1>6 DEF TypeCard
  <2>3. PICK c : c = [card EXCEPT !.path = p, !.age = a] OBVIOUS
  <2>4. c \in OpenCards /\ c.id = card.id
        BY <2>2, <2>3 DEF OpenCards, DirAges
  <2>5. editing' = editing /\ dirForm' = dirForm BY <1>6 DEF TypeCard
  <2> QED BY <1>1, <1>3, <2>1, <2>2, <2>3, <2>4, <2>5, PageMoves
<1>7. CASE CancelCard BY <1>1, <1>3, <1>7, PageMoves DEF CancelCard
<1>8. CASE TypeForm
  <2>1. PICK ps \in SUBSET DirPaths : dirForm' = [dirForm EXCEPT !.paths = ps]
        BY <1>8 DEF TypeForm
  <2>2. dirForm' \in DirForms BY <1>1, <2>1 DEF DirForms
  <2>3. editing' = editing /\ card' = card BY <1>8 DEF TypeForm
  <2> QED BY <1>1, <1>3, <2>2, <2>3, PageMoves
<1>9. CASE TypeSettings
  <2>1. PICK a \in Ages : dirForm' = [dirForm EXCEPT !.age = a]
        BY <1>9 DEF TypeSettings
  <2>2. dirForm' \in DirForms BY <1>1, <2>1 DEF DirForms, DirAges
  <2>3. editing' = editing /\ card' = card BY <1>9 DEF TypeSettings
  <2> QED BY <1>1, <1>3, <2>2, <2>3, PageMoves
<1>10. CASE CancelForm
       BY <1>1, <1>2, <1>3, <1>10, PageMoves DEF CancelForm
<1> QED BY <1>4, <1>5, <1>6, <1>7, <1>8, <1>9, <1>10

\* The count of steps stays in its bound.
LEMMA Counted ==
    ASSUME DirInv, CountStep PROVE dirSteps' \in 0..MaxDirSteps
<1>1. dirSteps \in 0..MaxDirSteps /\ MaxDirSteps \in Nat
      BY DirectoriesAssumption DEF DirInv, DirTyped
<1>2. dirSteps < MaxDirSteps /\ dirSteps' = dirSteps + 1 BY DEF CountStep
<1> QED BY <1>1, <1>2

\* "Save" of the card sends what is on it.
LEMMA SaveCardInv ==
    ASSUME DirInv, NEW t \in DirTasks, SaveCard(t) PROVE DirInv'
<1>0. NoCard.id = NoDir BY DEF NoCard
<1>1. card \in OpenCards /\ card.id = editing
      BY <1>0 DEF SaveCard, DirInv, DirTyped
<1>2. PICK x : x = [NoJob EXCEPT !.op = "save", !.at = "act", !.id = card.id,
                        !.base = card.base, !.paths = {card.path},
                        !.age = card.age]
      OBVIOUS
<1>3. /\ card.id \in DirIds /\ card.base \in DirRows /\ card.path \in DirPaths
      /\ card.age \in DirAges
      BY <1>1 DEF OpenCards
<1>4. /\ x \in DirJobs /\ x.op = "save" /\ x.at = "act" /\ x.id = card.id
      /\ x.age = card.age
      BY <1>2, <1>3, NothingUnderWay DEF DirJobs, DirOps
<1>5. MovesTask(t, x) BY <1>2, <1>3, <1>4 DEF SaveCard, MovesTask
<1>6. PICK c : c = [card EXCEPT !.saving = TRUE] OBVIOUS
<1>7. c \in OpenCards /\ c.id = card.id BY <1>1, <1>6 DEF OpenCards
<1>8. card' = c /\ UNCHANGED <<directory, lastDir, dirs, editing, dirForm,
                               dirOld>>
      BY <1>6 DEF SaveCard
<1>9. dirSteps' \in 0..MaxDirSteps BY Counted DEF SaveCard
<1>10. ~Reading(t) BY DEF SaveCard, IdleDir, Reading
<1> QED BY <1>1, <1>5, <1>7, <1>8, <1>9, <1>10, MovesKeep DEF DirInv, DirTyped

\* "Save" of the form.
LEMMA SaveFormInv ==
    ASSUME DirInv, NEW t \in DirTasks, SaveForm(t) PROVE DirInv'
<1>1. dirForm \in DirForms BY DEF DirInv, DirTyped
<1>2. PICK x : x = [NoJob EXCEPT !.op = "add", !.at = "act",
                        !.paths = dirForm.paths, !.age = dirForm.age]
      OBVIOUS
<1>3. dirForm.paths \in SUBSET DirPaths /\ dirForm.age \in DirAges
      BY <1>1 DEF DirForms
<1>4. x \in DirJobs /\ x.op = "add" /\ x.at = "act"
      BY <1>2, <1>3, NothingUnderWay DEF DirJobs, DirOps
<1>5. MovesTask(t, x) BY <1>2, <1>4 DEF SaveForm, MovesTask
<1>6. dirForm' \in DirForms BY <1>1 DEF SaveForm, DirForms
<1>7. UNCHANGED <<directory, lastDir, dirs, editing, card, dirOld>>
      BY DEF SaveForm
<1>8. dirSteps' \in 0..MaxDirSteps BY Counted DEF SaveForm
<1>9. ~Reading(t) BY DEF SaveForm, IdleDir, Reading
<1> QED BY <1>5, <1>4, <1>6, <1>7, <1>8, <1>9, MovesKeep DEF DirInv, DirTyped

\* The bin of a row.
LEMMA RemoveDirInv ==
    ASSUME DirInv, NEW t \in DirTasks, RemoveDir(t) PROVE DirInv'
<1>1. PICK i \in Listed(dirs) :
          dirTask' = [dirTask EXCEPT ![t] =
                         [NoJob EXCEPT !.op = "remove", !.at = "act",
                                       !.id = i]]
      BY DEF RemoveDir
<1>2. PICK x : x = [NoJob EXCEPT !.op = "remove", !.at = "act", !.id = i]
      OBVIOUS
<1>3. i \in DirIds BY DEF Listed
<1>4. x \in DirJobs /\ x.op = "remove" /\ x.at = "act"
      BY <1>2, <1>3, NothingUnderWay DEF DirJobs, DirOps
<1>5. MovesTask(t, x) BY <1>1, <1>2, <1>4 DEF RemoveDir, MovesTask
<1>6. UNCHANGED <<directory, lastDir, dirs, editing, card, dirForm, dirOld>>
      BY DEF RemoveDir, dirPage
<1>7. dirSteps' \in 0..MaxDirSteps BY Counted DEF RemoveDir
<1>8. ~Reading(t) BY DEF RemoveDir, IdleDir, Reading
<1> QED BY <1>4, <1>5, <1>6, <1>7, <1>8, MovesKeep DEF DirInv, DirTyped

\* What becomes of the task of a request: it ends, or reads.
LEMMA AnswerMoves ==
    ASSUME DirInv, NEW t \in DirTasks, dirTask[t].at = "act",
           Refused(t) \/ \E ok \in BOOLEAN : Answered(t, ok)
    PROVE  \E x : /\ MovesTask(t, x) /\ x.at # "act" /\ dirOld' \in BOOLEAN
                  /\ \/ dirOld' \/ x.at = "list"
                     \/ dirOld' = dirOld /\ directory' = directory
<1>1. dirTask[t] \in DirJobs /\ dirOld \in BOOLEAN BY DEF DirInv, DirTyped
<1>2. CASE Refused(t)
      BY <1>1, <1>2, NothingUnderWay DEF Refused, MovesTask
<1>3. CASE Answered(t, FALSE)
  <2>1. dirTask' = [AgeDirs(dirTask) EXCEPT ![t] = NoJob] /\ dirOld' = TRUE
        BY <1>1, <1>3 DEF Answered
  <2> QED BY <2>1, NothingUnderWay DEF MovesTask
<1>4. CASE Answered(t, TRUE)
  <2>1. PICK x : x = [dirTask[t] EXCEPT !.at = "list"] OBVIOUS
  <2>2. dirTask' = [AgeDirs(dirTask) EXCEPT ![t] = x] /\ dirOld' = dirOld
        BY <1>1, <1>4, <2>1 DEF Answered
  <2>3. /\ x \in DirJobs /\ x.at = "list" /\ x.op = dirTask[t].op
        /\ x.id = dirTask[t].id /\ x.age = dirTask[t].age
        BY <1>1, <2>1 DEF DirJobs
  <2>4. x.op = "save" => x.id \in DirIds /\ x.age \in DirAges
        BY <2>3 DEF DirInv, DirTyped
  <2> QED BY <1>1, <2>2, <2>3, <2>4 DEF MovesTask
<1> QED BY <1>2, <1>3, <1>4

\* The update of a row.
LEMMA PutInv ==
    ASSUME DirInv, NEW t \in DirTasks, PutDirectory(t)
    PROVE  /\ DirInv' /\ \E x : MovesTask(t, x)
           /\ directory' # directory =>
                  \E p \in dirTask[t].paths :
                     /\ directory'[dirTask[t].id] = Row(p, dirTask[t].age)
                     /\ \A i \in DirIds \ {dirTask[t].id} :
                           directory'[i] = directory[i]
<1> DEFINE c == dirTask[t]
<1>1. /\ c \in DirJobs /\ c.at = "act" /\ c.op = "save" /\ c.id \in DirIds
      /\ c.age \in DirAges /\ directory \in DirTables
      BY DEF PutDirectory, DirInv, DirTyped
<1>2. \/ directory' = directory
      \/ \E p \in c.paths : directory' = [directory EXCEPT ![c.id] =
                                             Row(p, c.age)]
      BY DEF PutDirectory, Refused, UpdatedDirectory
<1>3. \A p \in c.paths : Row(p, c.age) \in DirRows
      BY <1>1 DEF DirJobs, Row, DirRows, DirAges
<1>4. /\ directory' \in DirTables
      /\ directory' # directory =>
             \E p \in c.paths : /\ directory'[c.id] = Row(p, c.age)
                                /\ \A i \in DirIds \ {c.id} :
                                      directory'[i] = directory[i]
      BY <1>1, <1>2, <1>3 DEF DirTables
<1>5. PICK x : /\ MovesTask(t, x) /\ dirOld' \in BOOLEAN
               /\ \/ dirOld' \/ x.at = "list"
                  \/ dirOld' = dirOld /\ directory' = directory
      BY <1>1, AnswerMoves DEF PutDirectory
<1>6. card' = NoCard \/ (card' \in OpenCards /\ card'.id = editing)
  <2>1. CASE card.id = c.id
    <3>0. NoCard.id = NoDir BY DEF NoCard
    <3>1. card \in OpenCards /\ card.id = editing
          BY <1>1, <2>1, <3>0, NothingUnderWay DEF DirInv, DirTyped
    <3>2. PICK d : d = [card EXCEPT !.saving = FALSE] OBVIOUS
    <3>3. d \in OpenCards /\ d.id = card.id BY <3>1, <3>2 DEF OpenCards
    <3> QED BY <2>1, <3>1, <3>2, <3>3 DEF PutDirectory
  <2>2. CASE card.id # c.id BY <2>2 DEF PutDirectory, DirInv, DirTyped
  <2> QED BY <2>1, <2>2
<1>7. UNCHANGED <<lastDir, dirSteps, dirs, editing, dirForm>>
      BY DEF PutDirectory
<1>8. ~Reading(t) BY <1>1 DEF Reading
<1>9. DirInv'
      BY <1>4, <1>5, <1>6, <1>7, <1>8, MovesKeep DEF DirInv, DirTyped
<1> HIDE DEF c
<1> QED BY <1>4, <1>5, <1>9 DEF c

\* A batch is added.
LEMMA PostInv ==
    ASSUME DirInv, NEW t \in DirTasks, PostDirectories(t)
    PROVE  /\ DirInv' /\ \E x : MovesTask(t, x)
<1> DEFINE c == dirTask[t]
<1>1. c \in DirJobs /\ c.at = "act" /\ directory \in DirTables
      BY DEF PostDirectories, DirInv, DirTyped
<1>2. UNCHANGED <<dirSteps, dirs, editing, card, dirForm, dirOld>>
      BY DEF PostDirectories, dirPage
<1>3. CASE dirTask' = [dirTask EXCEPT ![t].op = "addFailed", ![t].at = "list"]
           /\ UNCHANGED <<directory, lastDir>>
  <2>1. PICK x : x = [c EXCEPT !.op = "addFailed", !.at = "list"] OBVIOUS
  <2>2. x \in DirJobs /\ x.at = "list" /\ x.op = "addFailed"
        BY <1>1, <2>1 DEF DirJobs, DirOps
  <2>3. dirTask' = [dirTask EXCEPT ![t] = x]
        BY <1>3, <2>1 DEF DirInv, DirTyped
  <2>4. MovesTask(t, x) BY <1>3, <2>2, <2>3 DEF MovesTask
  <2> QED BY <1>2, <1>3, <2>2, <2>4, MovesKeep DEF DirInv, DirTyped
<1>4. CASE ~(dirTask' = [dirTask EXCEPT ![t].op = "addFailed",
                                        ![t].at = "list"]
             /\ UNCHANGED <<directory, lastDir>>)
  <2> DEFINE n == Cardinality(c.paths)
             A == AgeDirs(dirTask)
  <2>1. /\ lastDir + n <= MaxDirs /\ lastDir' = lastDir + n
        /\ \E nth \in [(lastDir + 1)..lastDir' -> c.paths] :
              directory' = [i \in DirIds |->
                  IF i \in DOMAIN nth THEN Row(nth[i], BatchAge(c.age))
                                      ELSE directory[i]]
        /\ \E o \in {"add", "addFailed"} :
              dirTask' = [A EXCEPT ![t].op = o, ![t].at = "list"]
        BY <1>4 DEF PostDirectories
  <2>2. lastDir' \in 0..MaxDirs
    <3>1. c.paths \in SUBSET DirPaths BY <1>1 DEF DirJobs
    <3>2. n \in Nat
          BY <3>1, DirectoriesAssumption, FS_Subset, FS_CardinalityType
    <3>3. lastDir \in 0..MaxDirs /\ MaxDirs \in Nat
          BY DirectoriesAssumption DEF DirInv, DirTyped
    <3> HIDE DEF n
    <3> QED BY <2>1, <3>2, <3>3
  <2>3. directory' \in DirTables
    <3>1. PICK nth \in [(lastDir + 1)..lastDir' -> c.paths] :
              directory' = [i \in DirIds |->
                  IF i \in DOMAIN nth THEN Row(nth[i], BatchAge(c.age))
                                      ELSE directory[i]]
          BY <2>1
    <3>2. BatchAge(c.age) \in DirAges
          BY <1>1 DEF BatchAge, DirJobs, DirAges
    <3>3. \A i \in DOMAIN nth : Row(nth[i], BatchAge(c.age)) \in DirRows
      <4>1. \A i \in DOMAIN nth : nth[i] \in DirPaths BY <1>1 DEF DirJobs
      <4> QED BY <3>2, <4>1 DEF Row, DirRows, DirAges
    <3> QED BY <1>1, <3>1, <3>3 DEF DirTables
  <2>4. A[t] \in DirJobs /\ A \in [DirTasks -> DirJobs] BY Aged DEF DirInv
  <2>5. PICK o \in {"add", "addFailed"} :
            dirTask' = [A EXCEPT ![t].op = o, ![t].at = "list"]
        BY <2>1
  <2> HIDE DEF A
  <2>6. PICK x : x = [A[t] EXCEPT !.op = o, !.at = "list"] OBVIOUS
  <2>7. x \in DirJobs /\ x.at = "list" /\ x.op = o
        BY <2>4, <2>6 DEF DirJobs, DirOps
  <2>8. dirTask' = [A EXCEPT ![t] = x] BY <2>4, <2>5, <2>6
  <2>9. MovesTask(t, x) BY <2>7, <2>8 DEF MovesTask, A
  <2> QED BY <1>2, <2>2, <2>3, <2>7, <2>9, MovesKeep DEF DirInv, DirTyped
<1> QED BY <1>3, <1>4

\* A row is removed.
LEMMA DeleteInv ==
    ASSUME DirInv, NEW t \in DirTasks, DeleteDirectory(t)
    PROVE  /\ DirInv' /\ \E x : MovesTask(t, x)
<1>1. PICK x : /\ MovesTask(t, x) /\ dirOld' \in BOOLEAN
               /\ \/ dirOld' \/ x.at = "list"
                  \/ dirOld' = dirOld /\ directory' = directory
      BY AnswerMoves DEF DeleteDirectory
<1>2. UNCHANGED <<lastDir, dirSteps, dirs, editing, card, dirForm>>
      BY DEF DeleteDirectory, dirPage
<1>3. directory' \in DirTables
      BY DEF DeleteDirectory, Refused, DirInv, DirTyped, DirTables
<1>4. ~Reading(t) BY DEF DeleteDirectory, Reading
<1> QED BY <1>1, <1>2, <1>3, <1>4, MovesKeep DEF DirInv, DirTyped

\* Others change the table.
LEMMA ElsewhereInv ==
    ASSUME DirInv, DirsElsewhere
    PROVE  DirInv' /\ \A u \in DirTasks : dirTask'[u].at = dirTask[u].at
<1>1. /\ dirTask' = AgeDirs(dirTask) /\ dirOld' = TRUE
      /\ UNCHANGED <<dirs, editing, card, dirForm>>
      BY DEF DirsElsewhere, dirPage
<1>2. directory' \in DirTables /\ lastDir' \in 0..MaxDirs
  <2>1. directory \in DirTables /\ lastDir \in 0..MaxDirs /\ MaxDirs \in Nat
        BY DirectoriesAssumption DEF DirInv, DirTyped
  <2>2. \/ lastDir' = lastDir
        \/ lastDir < MaxDirs /\ lastDir' = lastDir + 1
        BY DEF DirsElsewhere
  <2>3. PICK i, r : r \in DirRows \cup {NoRow}
                    /\ directory' = [directory EXCEPT ![i] = r]
        BY DEF DirsElsewhere
  <2>4. directory' \in DirTables BY <2>1, <2>3 DEF DirTables
  <2>5. lastDir' \in 0..MaxDirs BY <2>1, <2>2
  <2> QED BY <2>4, <2>5
<1>3. dirSteps' \in 0..MaxDirSteps BY Counted DEF DirsElsewhere
<1>4. /\ dirTask' \in [DirTasks -> DirJobs]
      /\ \A u \in DirTasks :
            /\ dirTask'[u].at = dirTask[u].at /\ dirTask'[u].op = dirTask[u].op
            /\ dirTask'[u].id = dirTask[u].id
            /\ dirTask'[u].age = dirTask[u].age
            /\ dirTask'[u].rows = dirTask[u].rows
            /\ dirTask'[u].at = "listed" => dirTask'[u].old
      BY <1>1, Aged DEF DirInv
<1>5. DirTyped' BY <1>1, <1>2, <1>3, <1>4 DEF DirInv, DirTyped
<1>6. Snapshots' BY <1>4 DEF Snapshots
<1>7. DirsAreFresh' BY <1>1 DEF DirsAreFresh
<1> QED BY <1>4, <1>5, <1>6, <1>7 DEF DirInv

\* The page starts so.
LEMMA DirStart == DirInit => DirInv
<1> SUFFICES ASSUME DirInit PROVE DirInv OBVIOUS
<1>1. directory \in DirTables
      BY DirectoriesAssumption DEF DirInit, DirTables
<1>2. lastDir \in 0..MaxDirs
  <2>1. Listed(directory) \in SUBSET DirIds BY DEF Listed
  <2>a. MaxDirs \in Nat BY DirectoriesAssumption, Zenon
  <2>2. MaxDirs \in Nat /\ 1 \in Int /\ MaxDirs \in Int BY <2>a
  <2>3. IsFiniteSet(DirIds) /\ Cardinality(DirIds) = MaxDirs
        BY <2>2, FS_Interval DEF DirIds
  <2>4. /\ Cardinality(Listed(directory)) \in Nat
        /\ Cardinality(Listed(directory)) <= MaxDirs
        BY <2>1, <2>3, FS_Subset, FS_CardinalityType
  <2> QED BY <2>2, <2>4 DEF DirInit
<1>3. dirSteps \in 0..MaxDirSteps
  <2>1. MaxDirSteps \in Nat BY DirectoriesAssumption, Zenon
  <2> QED BY <2>1 DEF DirInit
<1>4. dirs \in DirTables BY DEF DirInit, DirTables
<1>5. dirTask \in [DirTasks -> DirJobs] BY NothingUnderWay DEF DirInit
<1>6. DirTyped
      BY <1>1, <1>2, <1>3, <1>4, <1>5, NothingUnderWay DEF DirInit, DirTyped
<1>7. Snapshots /\ DirsAreFresh
      BY NothingUnderWay DEF DirInit, Snapshots, DirsAreFresh
<1> QED BY <1>6, <1>7 DEF DirInv

\* Every step keeps it.
LEMMA DirStep == DirInv /\ [DirNext]_dirVars => DirInv'
<1> SUFFICES ASSUME DirInv, [DirNext]_dirVars PROVE DirInv' OBVIOUS
<1>1. CASE UNCHANGED dirVars
      BY <1>1 DEF dirVars, dirTable, dirPage, DirInv, DirTyped, Snapshots,
                  DirsAreFresh, Reading
<1> QED BY <1>1, OpenDirsInv, AnswerDirsInv, ShowDirsInv, EditorsInv,
           SaveCardInv, SaveFormInv, RemoveDirInv, PutInv, PostInv, DeleteInv,
           ElsewhereInv
        DEF DirNext

\* Once nothing is under way the rows on the screen are those of the table.
THEOREM QuietDirectories == DirSpec => []QuietDirectoriesAreTrue
<1>1. DirInv => QuietDirectoriesAreTrue
      BY DEF DirInv, DirsAreFresh, QuietDirectoriesAreTrue, IdleDir, Reading
<1> QED BY <1>1, DirStart, DirStep, PTL DEF DirSpec

\* The page's state has its types.
THEOREM DirectoriesTypes == DirSpec => []DirTypeOK
<1>1. DirInv => DirTypeOK
  <2> SUFFICES ASSUME DirInv PROVE DirTypeOK OBVIOUS
  <2>0. NoCard.id = NoDir BY DEF NoCard
  <2>1. card.id \in {NoDir, editing} BY <2>0 DEF DirInv, DirTyped
  <2>2. dirForm.paths \subseteq DirPaths /\ dirForm.open \in BOOLEAN
        BY DEF DirInv, DirTyped, DirForms
  <2>3. \A t \in DirTasks : dirTask[t].op \in DirOps
        BY DEF DirInv, DirTyped, DirJobs
  <2> QED BY <2>1, <2>2, <2>3 DEF DirInv, DirTyped, DirTypeOK, DirTables, DirOps
<1> QED BY <1>1, DirStart, DirStep, PTL DEF DirSpec

\* An update leaves alone what its user left alone.
THEOREM EditsKeepTheRest == DirSpec => EditKeepsTheRest
<1> DEFINE Kept(t) ==
        LET c == dirTask[t] IN
        /\ c.op = "save" /\ c.at = "act" /\ directory' # directory
        /\ dirTask'[t].at # "act" /\ directory[c.id] = c.base
        =>
        /\ c.age = c.base.age => directory'[c.id].age = c.base.age
        /\ c.paths = {c.base.path} => directory'[c.id].path = c.base.path
        /\ \A i \in DirIds \ {c.id} : directory'[i] = directory[i]
<1>1. DirInv /\ [DirNext]_dirVars => [\A t \in DirTasks : Kept(t)]_dirVars
  <2> SUFFICES ASSUME DirInv, DirNext, NEW t \in DirTasks,
                      dirTask[t].op = "save", dirTask[t].at = "act",
                      directory' # directory, dirTask'[t].at # "act"
               PROVE  Kept(t)
      OBVIOUS
  <2>1. ASSUME NEW u \in DirTasks, NEW x, MovesTask(u, x), u # t
        PROVE  FALSE
        BY <2>1, TaskMoves DEF MovesTask
  <2>2. PutDirectory(t)
    <3>1. ~DirsElsewhere BY ElsewhereInv
    <3>2. PICK u \in DirTasks : PutDirectory(u) \/ PostDirectories(u)
                                \/ DeleteDirectory(u)
          BY <3>1 DEF DirNext, OpenDirectories, AnswerDirs, ShowDirs, LoseDirs,
                      SaveCard, SaveForm, RemoveDir, EditDir, StartAdd,
                      TypeCard, CancelCard, TypeForm, TypeSettings, CancelForm,
                      dirTable
    <3>3. u = t BY <2>1, <3>2, PutInv, PostInv, DeleteInv
    <3> QED BY <3>2, <3>3 DEF PostDirectories, DeleteDirectory
  <2>3. PICK p \in dirTask[t].paths :
            /\ directory'[dirTask[t].id] = Row(p, dirTask[t].age)
            /\ \A i \in DirIds \ {dirTask[t].id} : directory'[i] = directory[i]
        BY <2>2, PutInv
  <2>4. /\ directory'[dirTask[t].id].age = dirTask[t].age
        /\ directory'[dirTask[t].id].path = p
        BY <2>3 DEF Row
  <2> QED BY <2>3, <2>4
<1> QED BY <1>1, DirStart, DirStep, PTL DEF DirSpec, EditKeepsTheRest

-----------------------------------------------------------------------------
(* The picker: paths.                                                      *)

Names == UNION {ToSet(f) : f \in Folders}

\* Folders are sequences of names.
LEMMA FoldersAreSequences ==
    /\ \A f \in Folders : f \in Seq(Names)
    /\ \A f \in Folders : f # <<>> => Front(f) \in Folders
    /\ NoFolder \notin Folders
    /\ \A list \in RootLists : list \in Seq(Folders)
<1>1. ASSUME NEW f \in Folders PROVE f \in Seq(Names)
  <2>1. f \in Seq(ToSet(f)) BY PickerAssumption
  <2>2. ToSet(f) \subseteq Names BY DEF Names
  <2> QED BY <2>1, <2>2, SeqMonotonic
<1> QED BY <1>1, PickerAssumption

\* The front of a path.
LEMMA FrontOf ==
    ASSUME NEW S, NEW f \in Seq(S), f # <<>>
    PROVE  /\ Front(f) \in Seq(S) /\ Len(Front(f)) = Len(f) - 1
           /\ Len(f) \in Nat \ {0}
           /\ \A i \in 1 .. Len(f) - 1 : Front(f)[i] = f[i]
<1>1. Len(f) \in Nat \ {0} BY EmptySeq
<1>2. \A i \in 1 .. Len(f) - 1 : f[i] \in S BY <1>1, ElementOfSeq
<1>3. PICK g, n : g = SubSeq(f, 1, n) /\ n = Len(f) - 1 OBVIOUS
<1>4. n \in Nat /\ 1 \in Int /\ n \in Int BY <1>1, <1>3
<1>5. \A i \in 1 .. n : f[i] \in S BY <1>2, <1>3
<1>6. /\ g \in Seq(S) /\ Len(g) = IF 1 <= n THEN n - 1 + 1 ELSE 0
      /\ \A i \in 1 .. n - 1 + 1 : g[i] = f[1 + i - 1]
      BY <1>3, <1>4, <1>5, SubSeqProperties
<1>7. Len(g) = n /\ \A i \in 1 .. n : g[i] = f[i] BY <1>4, <1>6
<1>8. g = Front(f) BY <1>3 DEF Front
<1> QED BY <1>1, <1>3, <1>6, <1>7, <1>8

\* A prefix, name by name.
LEMMA PrefixOf ==
    ASSUME NEW S, NEW r \in Seq(S), NEW p \in Seq(S)
    PROVE  IsPrefix(r, p) <=> /\ Len(r) <= Len(p)
                              /\ \A i \in 1 .. Len(r) : r[i] = p[i]
<1>1. Len(r) \in Nat /\ Len(p) \in Nat BY LenProperties
<1>2. SubSeq(r, 1, Len(r)) = r BY SubSeqFull
<1>3. ASSUME Len(r) <= Len(p)
      PROVE  /\ SubSeq(p, 1, Len(r)) \in Seq(S)
             /\ Len(SubSeq(p, 1, Len(r))) = Len(r)
             /\ \A i \in 1 .. Len(r) : SubSeq(p, 1, Len(r))[i] = p[i]
  <2>1. \A i \in 1 .. Len(r) : p[i] \in S BY <1>1, <1>3, ElementOfSeq
  <2>2. /\ SubSeq(p, 1, Len(r)) \in Seq(S)
        /\ Len(SubSeq(p, 1, Len(r))) = IF 1 <= Len(r) THEN Len(r) - 1 + 1
                                                      ELSE 0
        /\ \A i \in 1 .. Len(r) - 1 + 1 :
              SubSeq(p, 1, Len(r))[i] = p[1 + i - 1]
        BY <1>1, <2>1, SubSeqProperties
  <2> QED BY <1>1, <2>2
<1>4. ASSUME IsPrefix(r, p)
      PROVE  Len(r) <= Len(p) /\ \A i \in 1 .. Len(r) : r[i] = p[i]
      BY <1>2, <1>3, <1>4 DEF IsPrefix
<1>5. ASSUME Len(r) <= Len(p), \A i \in 1 .. Len(r) : r[i] = p[i]
      PROVE  IsPrefix(r, p)
  <2>1. r = SubSeq(p, 1, Len(r)) BY <1>3, <1>5, SeqEqual
  <2> QED BY <1>2, <1>5, <2>1 DEF IsPrefix
<1> QED BY <1>4, <1>5

\* What is under a root has its folder under it too, unless it is the root.
LEMMA PrefixOfFront ==
    ASSUME NEW S, NEW r \in Seq(S), NEW p \in Seq(S), p # <<>>
    PROVE  /\ IsPrefix(r, Front(p)) => IsPrefix(r, p)
           /\ IsPrefix(r, p) /\ r # p => IsPrefix(r, Front(p))
           /\ IsPrefix(p, p) /\ Front(p) # p
<1>1. /\ Front(p) \in Seq(S) /\ Len(Front(p)) = Len(p) - 1
      /\ Len(p) \in Nat \ {0}
      /\ \A i \in 1 .. Len(p) - 1 : Front(p)[i] = p[i]
      BY FrontOf
<1>2. Len(r) \in Nat BY LenProperties
<1>3. /\ IsPrefix(r, Front(p)) <=>
            /\ Len(r) <= Len(p) - 1
            /\ \A i \in 1 .. Len(r) : r[i] = Front(p)[i]
      /\ IsPrefix(r, p) <=> /\ Len(r) <= Len(p)
                            /\ \A i \in 1 .. Len(r) : r[i] = p[i]
      /\ IsPrefix(p, p)
      BY <1>1, PrefixOf
<1>4. ASSUME IsPrefix(r, Front(p)) PROVE IsPrefix(r, p)
      BY <1>1, <1>2, <1>3, <1>4
<1>5. ASSUME IsPrefix(r, p), r # p PROVE IsPrefix(r, Front(p))
  <2>1. Len(r) # Len(p) BY <1>3, <1>5, SeqEqual
  <2> QED BY <1>1, <1>2, <1>3, <1>5, <2>1
<1>6. Front(p) # p BY <1>1
<1> QED BY <1>3, <1>4, <1>5, <1>6

-----------------------------------------------------------------------------
(* The picker: types and what a request reads.                             *)

InCeiling(f) == Ceiling = <<>> \/ UnderAnyRoot(f, Ceiling)

\* The folder read for a request is there, and inside the ceiling.
LEMMA ReadFolder ==
    ASSUME PickerTypeOK, NEW f \in Folders \cup {NoFolder}
    PROVE  LET g == FolderRead(f) IN
           /\ g \in Folders /\ InCeiling(g)
           /\ ParentOf(g) \in Folders \cup {NoFolder} /\ ParentOf(g) # g
<1>1. Ceiling \in Seq(Folders) BY FoldersAreSequences, EmptySeq
                                DEF Ceiling, PickerTypeOK
<1>5. FolderRead(f) \in Folders /\ InCeiling(FolderRead(f))
  <2>1. CASE f # NoFolder /\ InCeiling(f)
        BY <2>1 DEF FolderRead, InCeiling
  <2>2. CASE Ceiling = <<>> /\ ~(f # NoFolder /\ InCeiling(f))
        BY <2>2, PickerAssumption DEF FolderRead, InCeiling
  <2>3. CASE Ceiling # <<>> /\ ~(f # NoFolder /\ InCeiling(f))
    <3>1. Len(Ceiling) \in Nat \ {0} /\ DOMAIN Ceiling = 1 .. Len(Ceiling)
          BY <1>1, <2>3, EmptySeq, LenProperties
    <3>2. 1 \in 1 .. Len(Ceiling) BY <3>1
    <3>3. Ceiling[1] \in Folders BY <1>1, <3>2, ElementOfSeq
    <3>4. Ceiling[1] \in ToSet(Ceiling) BY <3>1, <3>2 DEF ToSet
    <3>5. FolderRead(f) = Ceiling[1] BY <2>3 DEF FolderRead, InCeiling
    <3> QED BY <3>3, <3>4, <3>5 DEF InCeiling, UnderAnyRoot
  <2> QED BY <2>1, <2>2, <2>3
<1>6. ASSUME NEW g \in Folders
      PROVE  ParentOf(g) \in Folders \cup {NoFolder} /\ ParentOf(g) # g
  <2>1. g # <<>> => Front(g) \in Folders /\ Front(g) # g
        BY FoldersAreSequences, PrefixOfFront
  <2> QED BY <2>1, FoldersAreSequences DEF ParentOf
<1> QED BY <1>5, <1>6

Links == FileLinks \cup DirectoryLinks \cup RootLinks

\* A link leads to a folder, and there is none of a closed picker.
LEMMA LinksOf ==
    ASSUME PickerTypeOK, NEW f \in Links
    PROVE  /\ f \in Folders /\ picker # "closed" /\ browse # NoBrowse
           /\ f = browse.parent \/ (f # <<>> /\ Front(f) = browse.path)
           /\ picker = "files" => ~pickLoading
    BY DEF Links, FileLinks, DirectoryLinks, RootLinks, DirsIn, Readable,
           PickerTypeOK

\* Without "/" among the roots a link leads to a folder that is read.
LEMMA LinksAreRead ==
    ASSUME PickerTypeOK, \A list \in RootLists : <<>> \notin ToSet(list),
           InCeiling(browse.path), browse.parent = ParentOf(browse.path),
           browse.path \in Folders, NEW f \in Links
    PROVE  FolderRead(f) = f
<1>1. /\ f \in Folders /\ f # NoFolder
      /\ f = browse.parent \/ (f # <<>> /\ Front(f) = browse.path)
      BY LinksOf, FoldersAreSequences
<1>2. Ceiling \in Seq(Folders) /\ <<>> \notin ToSet(Ceiling)
  <2>1. ToSet(<<>>) = {} BY DEF ToSet
  <2> QED BY <2>1, FoldersAreSequences, EmptySeq DEF Ceiling, PickerTypeOK
<1>3. ASSUME Ceiling # <<>> PROVE UnderAnyRoot(f, Ceiling)
  <2>1. PICK r \in ToSet(Ceiling) :
            browse.path = r \/ (r # <<>> /\ IsPrefix(r, browse.path))
        BY <1>3 DEF InCeiling, UnderAnyRoot
  <2>2. r \in Folders /\ r # <<>>
    <3>1. DOMAIN Ceiling = 1 .. Len(Ceiling) BY <1>2, LenProperties
    <3> QED BY <1>2, <2>1, <3>1, ElementOfSeq DEF ToSet
  <2>3. /\ r \in Seq(Names) /\ browse.path \in Seq(Names) /\ f \in Seq(Names)
        BY <1>1, <2>2, FoldersAreSequences
  <2>4. IsPrefix(r, browse.path) BY <2>1, <2>2, <2>3, PrefixOfFront
  <2>5. CASE f = browse.parent
    <3>1. /\ browse.path # <<>> /\ browse.path \notin ToSet(Ceiling)
          /\ f = Front(browse.path)
          BY <1>1, <2>5 DEF ParentOf
    <3>2. IsPrefix(r, f) BY <2>1, <2>3, <2>4, <3>1, PrefixOfFront
    <3> QED BY <2>1, <2>2, <3>2 DEF UnderAnyRoot
  <2>6. CASE f # <<>> /\ Front(f) = browse.path
    <3>1. IsPrefix(r, f) BY <2>3, <2>4, <2>6, PrefixOfFront
    <3> QED BY <2>1, <2>2, <3>1 DEF UnderAnyRoot
  <2> QED BY <1>1, <2>5, <2>6
<1> QED BY <1>1, <1>3 DEF FolderRead

Visits == [at : {"idle", "asked", "listed", "refused"}, late : BOOLEAN,
           path : Folders \cup {NoFolder}, parent : Folders \cup {NoFolder}]

Away(t) == visit[t].at # "idle"

\* A folder that is listed or shown is one, and has another parent or none.
AnswersTyped ==
    /\ browse # NoBrowse => browse.path \in Folders
    /\ \A t \in PickTasks : visit[t].at = "listed" =>
           visit[t].path \in Folders /\ visit[t].parent # visit[t].path

\* While the page says that it is loading, something is under way.
LoadingVisit == pickLoading => \E t \in PickTasks : Away(t)

\* Of the Queue page's picker one request is under way, and while it is the
\* page says so and nothing is ticked that could be on another list.
OneVisit ==
    picker = "files" =>
        /\ \A t, u \in PickTasks : Away(t) /\ Away(u) => t = u
        /\ \A t \in PickTasks : Away(t) => pickLoading
        /\ ~blind => /\ ticked \subseteq {browse.path}
                     /\ \A t \in PickTasks : Away(t) => ticked = {}

PickerInv == PickerTypeOK /\ AnswersTyped /\ LoadingVisit /\ OneVisit

\* What is under way once a folder has been asked for.
LEMMA AskedFor ==
    ASSUME visit \in [PickTasks -> Visits], NEW t \in PickTasks,
           NEW f \in Folders \cup {NoFolder}
    PROVE  LET v == AskFolder(t, f) IN
           /\ v \in [PickTasks -> Visits]
           /\ v[t].at = "asked" /\ v[t].path = f /\ ~v[t].late
           /\ \A u \in PickTasks \ {t} :
                 /\ v[u].at = visit[u].at /\ v[u].path = visit[u].path
                 /\ v[u].parent = visit[u].parent
                 /\ v[u].at = "idle" \/ v[u].late
<1>1. PICK x : x = [NoVisit EXCEPT !.at = "asked", !.path = f] OBVIOUS
<1>2. x \in Visits /\ x.at = "asked" /\ x.path = f /\ ~x.late
      BY <1>1 DEF NoVisit, Visits
<1>3. ASSUME NEW u \in PickTasks
      PROVE  LET c == [visit[u] EXCEPT !.late = TRUE] IN
             /\ c \in Visits /\ c.at = visit[u].at /\ c.path = visit[u].path
             /\ c.parent = visit[u].parent /\ c.late
      BY DEF Visits
<1> QED BY <1>1, <1>2, <1>3 DEF AskFolder

\* A picker is opened.
LEMMA MountInv ==
    ASSUME PickerInv, NEW t \in PickTasks, NEW p \in Pickers,
           NEW f \in Folders \cup {NoFolder}, Mount(p, t, f)
    PROVE  /\ PickerInv' /\ visit'[t].at = "asked" /\ visit'[t].path = f
           /\ ~visit'[t].late
           /\ \A u \in PickTasks \ {t} : visit'[u].at = "idle"
<1>1. PICK x : x = [NoVisit EXCEPT !.at = "asked", !.path = f] OBVIOUS
<1>2. /\ x \in Visits /\ x.at = "asked" /\ x.path = f /\ ~x.late
      /\ NoVisit \in Visits /\ NoVisit.at = "idle"
      BY <1>1 DEF NoVisit, Visits
<1>3. visit' = [u \in PickTasks |-> IF u = t THEN x ELSE NoVisit]
      BY <1>1 DEF Mount
<1>4. /\ visit' \in [PickTasks -> Visits] /\ visit'[t] = x
      /\ \A u \in PickTasks \ {t} : visit'[u] = NoVisit
      BY <1>2, <1>3
<1>5. /\ picker' = p /\ roots' = roots /\ browse' = NoBrowse
      /\ askedFolder' = f /\ picks' = 1 /\ pickLoading' = TRUE
      /\ pickError' = FALSE /\ ticked' = {} /\ lateVisit' = FALSE
      /\ rootsMoved' = FALSE /\ blind' = FALSE
      BY DEF Mount
<1>6. picks' \in 0 .. MaxPicks
  <2>1. MaxPicks \in Nat \ {0} BY PickerAssumption
  <2> QED BY <1>5, <2>1
<1>7. PickerTypeOK'
      BY <1>4, <1>5, <1>6 DEF PickerInv, PickerTypeOK, Visits, NoBrowse
<1>8. AnswersTyped' BY <1>2, <1>4, <1>5 DEF AnswersTyped
<1>9. LoadingVisit' BY <1>2, <1>4 DEF LoadingVisit, Away
<1>10. OneVisit' BY <1>2, <1>4, <1>5 DEF OneVisit, Away
<1> QED BY <1>2, <1>4, <1>7, <1>8, <1>9, <1>10 DEF PickerInv

\* A link is followed.
LEMMA NavigateInv ==
    ASSUME PickerInv, NEW t \in PickTasks, NEW f \in Links, Navigate(t, f)
    PROVE  PickerInv'
<1>1. f \in Folders /\ (picker = "files" => ~pickLoading)
      BY LinksOf DEF PickerInv
<1>2. visit \in [PickTasks -> Visits] BY DEF PickerInv, PickerTypeOK, Visits
<1>3. /\ visit' \in [PickTasks -> Visits] /\ visit'[t].at = "asked"
      /\ \A u \in PickTasks \ {t} : /\ visit'[u].at = visit[u].at
                                    /\ visit'[u].path = visit[u].path
                                    /\ visit'[u].parent = visit[u].parent
      BY <1>1, <1>2, AskedFor DEF Navigate
<1>4. /\ askedFolder' = f /\ picks' = picks + 1 /\ pickLoading' = TRUE
      /\ pickError' = FALSE /\ ticked' = {} /\ lateVisit' = FALSE
      /\ blind' = FALSE /\ picks < MaxPicks
      /\ UNCHANGED <<roots, picker, browse, rootsMoved>>
      BY DEF Navigate, TicksKept
<1>5. picks' \in 0 .. MaxPicks
  <2>1. MaxPicks \in Nat \ {0} /\ picks \in 0 .. MaxPicks
        BY PickerAssumption DEF PickerInv, PickerTypeOK
  <2> QED BY <1>4, <2>1
<1>6. PickerTypeOK'
      BY <1>1, <1>3, <1>4, <1>5 DEF PickerInv, PickerTypeOK, Visits
<1>7. AnswersTyped' BY <1>3, <1>4 DEF PickerInv, AnswersTyped
<1>8. LoadingVisit' BY <1>3 DEF LoadingVisit, Away
<1>9. OneVisit' BY <1>1, <1>3, <1>4 DEF PickerInv, OneVisit, Away
<1> QED BY <1>6, <1>7, <1>8, <1>9 DEF PickerInv

\* A folder is listed.
LEMMA BrowseInv ==
    ASSUME PickerInv, NEW t \in PickTasks, BrowseFS(t)
    PROVE  /\ PickerInv' /\ visit[t].at = "asked"
           /\ \A u \in PickTasks \ {t} : visit'[u] = visit[u]
           /\ visit'[t].late = visit[t].late
           /\ \/ visit'[t].at = "refused"
              \/ /\ visit'[t].at = "listed"
                 /\ visit'[t].path = FolderRead(visit[t].path)
                 /\ visit'[t].parent = ParentOf(FolderRead(visit[t].path))
<1>1. visit \in [PickTasks -> Visits] BY DEF PickerInv, PickerTypeOK, Visits
<1>2. PICK g : g = FolderRead(visit[t].path) OBVIOUS
<1>3. /\ g \in Folders /\ ParentOf(g) \in Folders \cup {NoFolder}
      /\ ParentOf(g) # g
  <2>1. visit[t].path \in Folders \cup {NoFolder} BY <1>1 DEF Visits
  <2> QED BY <1>2, <2>1, ReadFolder DEF PickerInv
<1>4. PICK x : /\ x \in Visits /\ x.late = visit[t].late
               /\ visit' = [visit EXCEPT ![t] = x]
               /\ \/ x.at = "refused"
                  \/ x.at = "listed" /\ x.path = g /\ x.parent = ParentOf(g)
  <2>1. \/ visit' = [visit EXCEPT ![t] = [visit[t] EXCEPT !.at = "listed",
                                       !.path = g, !.parent = ParentOf(g)]]
        \/ visit' = [visit EXCEPT ![t] = [visit[t] EXCEPT !.at = "refused"]]
        BY <1>1, <1>2 DEF BrowseFS
  <2>2. PICK y, z : /\ y = [visit[t] EXCEPT !.at = "listed", !.path = g,
                                            !.parent = ParentOf(g)]
                    /\ z = [visit[t] EXCEPT !.at = "refused"]
        OBVIOUS
  <2>3. /\ y \in Visits /\ y.late = visit[t].late /\ y.at = "listed"
        /\ y.path = g /\ y.parent = ParentOf(g)
        /\ z \in Visits /\ z.late = visit[t].late /\ z.at = "refused"
        BY <1>1, <1>3, <2>2 DEF Visits
  <2> QED BY <2>1, <2>2, <2>3
<1>5. /\ visit' \in [PickTasks -> Visits] /\ visit'[t] = x
      /\ \A u \in PickTasks \ {t} : visit'[u] = visit[u]
      /\ visit[t].at = "asked"
      BY <1>1, <1>4 DEF BrowseFS
<1>6. UNCHANGED <<roots, picker, browse, pickLoading, pickError, ticked,
                  askedFolder, picks, lateVisit, rootsMoved, blind>>
      BY DEF BrowseFS, pickShown, pickHist
<1>7. PickerTypeOK' BY <1>5, <1>6 DEF PickerInv, PickerTypeOK, Visits
<1>8. AnswersTyped' BY <1>3, <1>4, <1>5, <1>6 DEF PickerInv, AnswersTyped
<1>9. \A u \in PickTasks : Away(u)' <=> Away(u) BY <1>4, <1>5 DEF Away
<1>10. LoadingVisit' BY <1>6, <1>9 DEF PickerInv, LoadingVisit
<1>11. OneVisit' BY <1>6, <1>9 DEF PickerInv, OneVisit
<1> QED BY <1>2, <1>4, <1>5, <1>7, <1>8, <1>10, <1>11 DEF PickerInv

\* An answer is shown.
LEMMA ShowVisitInv ==
    ASSUME PickerInv, NEW t \in PickTasks, ShowVisit(t)
    PROVE  /\ PickerInv' /\ visit'[t].at = "idle"
           /\ \A u \in PickTasks \ {t} : visit'[u] = visit[u]
<1>1. visit \in [PickTasks -> Visits] BY DEF PickerInv, PickerTypeOK, Visits
<1>2. /\ visit' \in [PickTasks -> Visits] /\ visit'[t].at = "idle"
      /\ \A u \in PickTasks \ {t} : visit'[u] = visit[u]
      /\ Away(t) /\ visit[t] \in Visits
  <2>1. NoVisit \in Visits /\ NoVisit.at = "idle" BY DEF NoVisit, Visits
  <2>2. visit' = [visit EXCEPT ![t] = NoVisit] BY DEF ShowVisit
  <2> QED BY <1>1, <2>1, <2>2 DEF ShowVisit, Away
<1>3. /\ lateVisit' = visit[t].late /\ pickLoading' = FALSE
      /\ pickError' = (pickError \/ visit[t].at # "listed")
      /\ UNCHANGED <<roots, picker, ticked, askedFolder, picks, rootsMoved,
                     blind>>
      BY <1>2 DEF ShowVisit, LoadingAfter
<1>4. /\ browse' # NoBrowse => browse'.path \in Folders
      /\ browse' \in [path : Folders \cup {NoFolder},
                      parent : Folders \cup {NoFolder}]
      /\ browse' # NoBrowse => browse'.parent # browse'.path
  <2>1. CASE visit[t].at = "listed"
    <3>1. browse' = [path |-> visit[t].path, parent |-> visit[t].parent]
          BY <2>1 DEF ShowVisit
    <3>2. visit[t].path # visit[t].parent /\ visit[t].path \in Folders
          BY <2>1 DEF PickerInv, AnswersTyped
    <3> QED BY <1>2, <3>1, <3>2 DEF Visits
  <2>2. CASE visit[t].at # "listed"
        BY <2>2 DEF ShowVisit, PickerInv, PickerTypeOK, AnswersTyped
  <2> QED BY <2>1, <2>2
<1>5. PickerTypeOK'
  <2>1. lateVisit' \in BOOLEAN BY <1>2, <1>3 DEF Visits
  <2> QED BY <1>2, <1>3, <1>4, <2>1 DEF PickerInv, PickerTypeOK, Visits
<1>6. AnswersTyped' BY <1>2, <1>4 DEF PickerInv, AnswersTyped
<1>7. LoadingVisit' BY <1>3 DEF LoadingVisit
<1>8. OneVisit'
  <2>1. picker = "files" => /\ \A u \in PickTasks : Away(u) => u = t
                            /\ ~blind => ticked = {}
        BY <1>2 DEF PickerInv, OneVisit
  <2>2. \A u \in PickTasks : Away(u)' => Away(u) /\ u # t BY <1>2 DEF Away
  <2> QED BY <1>3, <2>1, <2>2 DEF OneVisit
<1> QED BY <1>2, <1>5, <1>6, <1>7, <1>8 DEF PickerInv

\* The other operations keep what is under way, or end all of it.
LEMMA OtherPicksInv ==
    ASSUME PickerInv, \/ ToggleFile \/ ToggleAll \/ ClosePicker \/ ChangeRoots
                      \/ UNCHANGED pickVars
    PROVE  PickerInv'
<1>1. /\ visit \in [PickTasks -> Visits]
      /\ NoVisit \in Visits /\ NoVisit.at = "idle"
      BY DEF PickerInv, PickerTypeOK, NoVisit, Visits
<1>2. CASE ToggleFile \/ ToggleAll
  <2>1. /\ UNCHANGED <<roots, picker, browse, pickLoading, pickError, visit,
                       askedFolder, picks, lateVisit, rootsMoved>>
        /\ picker = "files" /\ browse.path \in Folders
        /\ \/ ticked' \in {ticked \ {browse.path}, ticked \cup {browse.path}}
              /\ blind' = blind /\ ~pickLoading
           \/ ticked' \in {{}, {browse.path}}
              /\ blind' = (blind \/ \E u \in PickTasks : Away(u))
        BY <1>2 DEF ToggleFile, ToggleAll, Readable, pickCalls, pickHist,
                    PickerInv, AnswersTyped, Away
  <2>2. PickerTypeOK' BY <2>1 DEF PickerInv, PickerTypeOK
  <2>3. AnswersTyped' /\ LoadingVisit'
        BY <2>1 DEF PickerInv, AnswersTyped, LoadingVisit, Away
  <2>4. \A u \in PickTasks : Away(u)' <=> Away(u) BY <2>1 DEF Away
  <2>5. ~blind' => /\ ~blind /\ ticked' \subseteq {browse.path}
                   /\ \A u \in PickTasks : ~Away(u)
    <3>1. CASE blind' = blind /\ ~pickLoading
          BY <2>1, <3>1 DEF PickerInv, OneVisit
    <3>2. CASE blind' = (blind \/ \E u \in PickTasks : Away(u))
          BY <2>1, <3>2 DEF PickerInv, OneVisit
    <3> QED BY <2>1, <3>1, <3>2
  <2>6. OneVisit' BY <2>1, <2>4, <2>5 DEF PickerInv, OneVisit
  <2> QED BY <2>2, <2>3, <2>6 DEF PickerInv
<1>3. CASE ClosePicker
  <2>1. /\ visit' = [t \in PickTasks |-> NoVisit] /\ picker' = "closed"
        /\ browse' = NoBrowse /\ pickLoading' = FALSE /\ pickError' = FALSE
        /\ ticked' = {} /\ askedFolder' = NoFolder /\ picks' = 0
        /\ lateVisit' = FALSE /\ rootsMoved' = FALSE /\ blind' = FALSE
        /\ roots' = roots
        BY <1>3 DEF ClosePicker, Unmount
  <2>2. /\ visit' \in [PickTasks -> Visits]
        /\ \A t \in PickTasks : visit'[t].at = "idle"
        BY <1>1, <2>1
  <2>3. picks' \in 0 .. MaxPicks BY <2>1, PickerAssumption
  <2>4. PickerTypeOK'
        BY <2>1, <2>2, <2>3 DEF PickerInv, PickerTypeOK, Visits, NoBrowse
  <2>5. AnswersTyped' /\ LoadingVisit' /\ OneVisit'
        BY <2>1, <2>2 DEF AnswersTyped, LoadingVisit, OneVisit
  <2> QED BY <2>4, <2>5 DEF PickerInv
<1>4. CASE ChangeRoots \/ UNCHANGED pickVars
  <2>1. /\ UNCHANGED <<picker, browse, pickLoading, pickError, ticked, visit,
                       askedFolder, picks, lateVisit, blind>>
        /\ roots' \in RootLists /\ rootsMoved' \in BOOLEAN
        BY <1>4 DEF ChangeRoots, pickVars, pickShown, pickCalls, pickHist,
                    PickerInv, PickerTypeOK
  <2>2. PickerTypeOK' BY <2>1 DEF PickerInv, PickerTypeOK
  <2>3. AnswersTyped' /\ LoadingVisit' /\ OneVisit'
        BY <2>1 DEF PickerInv, AnswersTyped, LoadingVisit, OneVisit, Away
  <2> QED BY <2>2, <2>3 DEF PickerInv
<1> QED BY <1>2, <1>3, <1>4

\* The picker starts so.
LEMMA PickerStart == PickerInit => PickerInv
<1> SUFFICES ASSUME PickerInit PROVE PickerInv OBVIOUS
<1>1. NoVisit \in Visits /\ NoVisit.at = "idle" BY DEF NoVisit, Visits
<1>2. /\ visit \in [PickTasks -> Visits]
      /\ \A t \in PickTasks : visit[t].at = "idle"
      BY <1>1 DEF PickerInit
<1>3. picks \in 0 .. MaxPicks BY PickerAssumption DEF PickerInit
<1>4. PickerTypeOK
      BY <1>2, <1>3 DEF PickerInit, PickerTypeOK, Visits, NoBrowse
<1> QED BY <1>2, <1>4
        DEF PickerInit, PickerInv, AnswersTyped, LoadingVisit, OneVisit

\* Every step keeps it.
LEMMA PickerStep == PickerInv /\ [PickerNext]_pickVars => PickerInv'
<1> SUFFICES ASSUME PickerInv, [PickerNext]_pickVars PROVE PickerInv' OBVIOUS
<1>1. ASSUME NEW t \in PickTasks,
             OpenFiles(t) \/ OpenDirectory(t) \/ OpenRoot(t)
      PROVE  PickerInv'
  <2>1. \E p \in Pickers, f \in Folders \cup {NoFolder} : Mount(p, t, f)
        BY <1>1 DEF OpenFiles, OpenDirectory, OpenRoot, Pickers
  <2> QED BY <2>1, MountInv
<1>2. ASSUME NEW t \in PickTasks, FollowLink(t) PROVE PickerInv'
  <2>1. \E f \in Links : Navigate(t, f) BY <1>2 DEF FollowLink, Links
  <2> QED BY <2>1, NavigateInv
<1> QED BY <1>1, <1>2, BrowseInv, ShowVisitInv, OtherPicksInv DEF PickerNext

\* "Loading..." ends with the last answer.
THEOREM LoadingIsLoading == PickerSpec => []LoadingEnds
<1>1. PickerInv => LoadingEnds
      BY DEF PickerInv, LoadingVisit, LoadingEnds, Quiet, Away
<1> QED BY <1>1, PickerStart, PickerStep, PTL DEF PickerSpec

\* What "Queue" sends is ticked on the screen.
THEOREM TicksAreOfTheList == PickerSpec => []TicksAreShown
<1>1. PickerInv => TicksAreShown BY DEF PickerInv, OneVisit, TicksAreShown
<1> QED BY <1>1, PickerStart, PickerStep, PTL DEF PickerSpec

\* The picker's state has its types, and a parent link leads elsewhere.
THEOREM PickerTypes == PickerSpec => []PickerTypeOK
<1>1. PickerInv => PickerTypeOK BY DEF PickerInv
<1> QED BY <1>1, PickerStart, PickerStep, PTL DEF PickerSpec

-----------------------------------------------------------------------------
(* The picker: where links lead.                                           *)

SlashFree == \A list \in RootLists : <<>> \notin ToSet(list)

\* A folder that was read, with the parent it was given.
WasRead(p, q) == p \in Folders /\ InCeiling(p) /\ q = ParentOf(p)

\* What is asked for, listed and shown, while the roots stay as they are.
Followed ==
    /\ browse = NoBrowse \/ WasRead(browse.path, browse.parent)
    /\ \A t \in PickTasks : visit[t].at = "listed" =>
           WasRead(visit[t].path, visit[t].parent)
    /\ \A t \in PickTasks : Away(t) /\ ~visit[t].late =>
           /\ visit[t].at = "asked" => visit[t].path = askedFolder
           /\ visit[t].at = "listed" => visit[t].path = FolderRead(askedFolder)
    /\ picks > 1 => FolderRead(askedFolder) = askedFolder
    /\ picks > 0 => \/ \E t \in PickTasks : Away(t) /\ ~visit[t].late
                    \/ pickError \/ lateVisit
                    \/ browse.path = FolderRead(askedFolder)

LinkInv ==
    /\ picker = "closed" => /\ picks = 0 /\ browse = NoBrowse
                            /\ \A t \in PickTasks : ~Away(t)
    /\ ~rootsMoved => Followed

\* With the roots and the picker as they are the same folder is read.
LEMMA CeilingStays ==
    ASSUME roots' = roots, picker' = picker
    PROVE  /\ \A f : FolderRead(f)' = FolderRead(f)
           /\ \A p, q : WasRead(p, q)' <=> WasRead(p, q)
    BY DEF FolderRead, WasRead, InCeiling, ParentOf, UnderAnyRoot, Ceiling

\* Steps that leave alone what is shown.
LEMMA OpenedFollows ==
    ASSUME PickerInv, LinkInv, NEW t \in PickTasks, NEW p \in Pickers,
           NEW f \in Folders \cup {NoFolder}, Mount(p, t, f)
    PROVE  LinkInv'
<1>1. /\ visit'[t].at = "asked" /\ visit'[t].path = f /\ ~visit'[t].late
      /\ \A u \in PickTasks \ {t} : visit'[u].at = "idle"
      BY MountInv
<1>2. /\ picker' = p /\ p # "closed" /\ browse' = NoBrowse
      /\ askedFolder' = f /\ picks' = 1
      BY DEF Mount, Pickers
<1>3. Followed' BY <1>1, <1>2 DEF Followed, Away
<1> QED BY <1>2, <1>3 DEF LinkInv

\* A link is followed.
LEMMA NavigateFollows ==
    ASSUME PickerInv, LinkInv, SlashFree,
           NEW t \in PickTasks, NEW f \in Links, Navigate(t, f)
    PROVE  LinkInv'
<1>1. /\ f \in Folders /\ picker # "closed" /\ browse # NoBrowse
      BY LinksOf DEF PickerInv
<1>2. visit \in [PickTasks -> Visits] BY DEF PickerInv, PickerTypeOK, Visits
<1>3. /\ visit'[t].at = "asked" /\ visit'[t].path = f /\ ~visit'[t].late
      /\ \A u \in PickTasks \ {t} : /\ visit'[u].at = visit[u].at
                                    /\ visit'[u].path = visit[u].path
                                    /\ visit'[u].parent = visit[u].parent
                                    /\ visit'[u].at = "idle" \/ visit'[u].late
      BY <1>1, <1>2, AskedFor DEF Navigate
<1>4. /\ askedFolder' = f
      /\ UNCHANGED <<roots, picker, browse, rootsMoved>>
      BY DEF Navigate
<1>5. ASSUME ~rootsMoved PROVE Followed'
  <2>1. Followed /\ WasRead(browse.path, browse.parent)
        BY <1>1, <1>5 DEF LinkInv, Followed
  <2>2. FolderRead(f) = f
        BY <2>1, LinksAreRead DEF PickerInv, SlashFree, WasRead
  <2>3. /\ FolderRead(f)' = FolderRead(f)
        /\ \A p, q : WasRead(p, q)' <=> WasRead(p, q)
        BY <1>4, CeilingStays
  <2>4. (browse = NoBrowse \/ WasRead(browse.path, browse.parent))'
        BY <1>4, <2>1, <2>3
  <2>5. ASSUME NEW u \in PickTasks, visit'[u].at = "listed"
        PROVE  WasRead(visit[u].path, visit[u].parent)'
    <3>1. u # t /\ visit[u].at = "listed" BY <1>3, <2>5
    <3>2. WasRead(visit[u].path, visit[u].parent) BY <2>1, <3>1 DEF Followed
    <3> QED BY <1>3, <2>3, <3>1, <3>2
  <2>6. \A u \in PickTasks : visit'[u].at # "idle" /\ ~visit'[u].late =>
            visit'[u].at = "asked" /\ visit'[u].path = f
        BY <1>3
  <2>7. FolderRead(askedFolder)' = askedFolder' BY <1>4, <2>2, <2>3
  <2> QED BY <1>3, <1>4, <2>4, <2>5, <2>6, <2>7 DEF Followed, Away
<1> QED BY <1>1, <1>4, <1>5 DEF LinkInv

\* A folder is listed.
LEMMA BrowseFollows ==
    ASSUME PickerInv, LinkInv, NEW t \in PickTasks, BrowseFS(t)
    PROVE  LinkInv'
<1>1. /\ visit[t].at = "asked"
      /\ \A u \in PickTasks \ {t} : visit'[u] = visit[u]
      /\ visit'[t].late = visit[t].late
      /\ \/ visit'[t].at = "refused"
         \/ /\ visit'[t].at = "listed"
            /\ visit'[t].path = FolderRead(visit[t].path)
            /\ visit'[t].parent = ParentOf(FolderRead(visit[t].path))
      BY BrowseInv
<1>2. UNCHANGED <<roots, picker, browse, pickError, askedFolder, picks,
                  lateVisit, rootsMoved>>
      BY DEF BrowseFS, pickShown, pickHist
<1>3. \A u \in PickTasks : Away(u)' <=> Away(u) BY <1>1 DEF Away
<1>4. ASSUME ~rootsMoved PROVE Followed'
  <2>1. Followed BY <1>4 DEF LinkInv
  <2>2. /\ FolderRead(askedFolder)' = FolderRead(askedFolder)
        /\ \A p, q : WasRead(p, q)' <=> WasRead(p, q)
        BY <1>2, CeilingStays
  <2>3. (browse = NoBrowse \/ WasRead(browse.path, browse.parent))'
        BY <1>2, <2>1, <2>2 DEF Followed
  <2>4. LET g == FolderRead(visit[t].path) IN WasRead(g, ParentOf(g))
    <3>1. visit[t].path \in Folders \cup {NoFolder}
          BY DEF PickerInv, PickerTypeOK
    <3> QED BY <3>1, ReadFolder DEF PickerInv, WasRead
  <2>5. ASSUME NEW u \in PickTasks, visit'[u].at = "listed"
        PROVE  WasRead(visit[u].path, visit[u].parent)'
    <3>1. CASE u = t BY <1>1, <2>2, <2>4, <2>5, <3>1
    <3>2. CASE u # t
      <4>1. visit'[u] = visit[u] BY <1>1, <3>2
      <4> QED BY <2>1, <2>2, <2>5, <4>1 DEF Followed
    <3> QED BY <3>1, <3>2
  <2>6. ASSUME NEW u \in PickTasks, Away(u)', ~visit'[u].late
        PROVE  /\ visit'[u].at = "asked" => visit'[u].path = askedFolder
               /\ visit'[u].at = "listed" =>
                     visit'[u].path = FolderRead(askedFolder)
    <3>1. CASE u = t
      <4>1. visit[t].path = askedFolder
            BY <1>1, <2>1, <2>6, <3>1 DEF Followed, Away
      <4> QED BY <1>1, <3>1, <4>1
    <3>2. CASE u # t
      <4>1. visit'[u] = visit[u] BY <1>1, <3>2
      <4> QED BY <2>1, <2>6, <4>1 DEF Followed, Away
    <3> QED BY <3>1, <3>2
  <2>7. (\E u \in PickTasks : Away(u) /\ ~visit[u].late) =>
            \E u \in PickTasks : Away(u)' /\ ~visit'[u].late
        BY <1>1, <1>3
  <2> QED BY <1>2, <2>1, <2>2, <2>3, <2>5, <2>6, <2>7 DEF Followed
<1> QED BY <1>2, <1>3, <1>4 DEF LinkInv

\* An answer is shown.
LEMMA ShownFollows ==
    ASSUME PickerInv, LinkInv, NEW t \in PickTasks, ShowVisit(t)
    PROVE  LinkInv'
<1>1. /\ visit'[t].at = "idle"
      /\ \A u \in PickTasks \ {t} : visit'[u] = visit[u]
      BY ShowVisitInv
<1>2. /\ lateVisit' = visit[t].late
      /\ pickError' = (pickError \/ visit[t].at # "listed")
      /\ IF visit[t].at = "listed"
         THEN browse' = [path |-> visit[t].path, parent |-> visit[t].parent]
         ELSE browse' = browse
      /\ Away(t) /\ visit[t].at \in {"listed", "refused"}
      /\ UNCHANGED <<roots, picker, askedFolder, picks, rootsMoved>>
      BY DEF ShowVisit, Away
<1>3. picker # "closed" BY <1>2 DEF LinkInv
<1>4. ASSUME ~rootsMoved PROVE Followed'
  <2>1. Followed BY <1>4 DEF LinkInv
  <2>2. /\ FolderRead(askedFolder)' = FolderRead(askedFolder)
        /\ \A p, q : WasRead(p, q)' <=> WasRead(p, q)
        BY <1>2, CeilingStays
  <2>3. (browse = NoBrowse \/ WasRead(browse.path, browse.parent))'
    <3>1. CASE visit[t].at = "listed"
      <4>1. WasRead(visit[t].path, visit[t].parent) BY <2>1, <3>1 DEF Followed
      <4>2. browse'.path = visit[t].path /\ browse'.parent = visit[t].parent
            BY <1>2, <3>1
      <4> QED BY <2>2, <4>1, <4>2
    <3>2. CASE visit[t].at # "listed" BY <1>2, <2>1, <2>2, <3>2 DEF Followed
    <3> QED BY <3>1, <3>2
  <2>4. ASSUME NEW u \in PickTasks, visit'[u].at # "idle"
        PROVE  visit'[u] = visit[u] /\ visit[u].at # "idle" /\ u # t
        BY <1>1, <2>4
  <2>5. ASSUME NEW u \in PickTasks, visit'[u].at = "listed"
        PROVE  WasRead(visit[u].path, visit[u].parent)'
        BY <2>1, <2>2, <2>4, <2>5 DEF Followed
  <2>6. ASSUME NEW u \in PickTasks, Away(u)', ~visit'[u].late
        PROVE  /\ visit'[u].at = "asked" => visit'[u].path = askedFolder
               /\ visit'[u].at = "listed" =>
                     visit'[u].path = FolderRead(askedFolder)
        BY <2>1, <2>4, <2>6 DEF Followed, Away
  <2>7. pickError' \/ lateVisit' \/ browse'.path = FolderRead(askedFolder)
    <3>1. CASE visit[t].late \/ visit[t].at # "listed" BY <1>2, <3>1
    <3>2. CASE ~visit[t].late /\ visit[t].at = "listed"
      <4>1. visit[t].path = FolderRead(askedFolder)
            BY <1>2, <2>1, <3>2 DEF Followed
      <4>2. browse'.path = visit[t].path BY <1>2, <3>2
      <4> QED BY <4>1, <4>2
    <3> QED BY <3>1, <3>2
  <2> QED BY <1>2, <2>1, <2>2, <2>3, <2>5, <2>6, <2>7 DEF Followed
<1> QED BY <1>2, <1>3, <1>4 DEF LinkInv

\* The other operations.
LEMMA OthersFollow ==
    ASSUME PickerInv, LinkInv,
           \/ ToggleFile \/ ToggleAll \/ ClosePicker \/ ChangeRoots
           \/ UNCHANGED pickVars
    PROVE  LinkInv'
<1>1. CASE ToggleFile \/ ToggleAll \/ UNCHANGED pickVars
  <2>1. UNCHANGED <<roots, picker, browse, pickError, visit, askedFolder,
                    picks, lateVisit, rootsMoved>>
        BY <1>1 DEF ToggleFile, ToggleAll, pickVars, pickShown, pickCalls,
                    pickHist
  <2>2. /\ FolderRead(askedFolder)' = FolderRead(askedFolder)
        /\ \A p, q : WasRead(p, q)' <=> WasRead(p, q)
        BY <2>1, CeilingStays
  <2> QED BY <2>1, <2>2 DEF LinkInv, Followed, Away
<1>2. CASE ClosePicker
  <2>1. \A u \in PickTasks : visit'[u].at = "idle"
        BY <1>2 DEF ClosePicker, Unmount, NoVisit
  <2>2. browse' = NoBrowse /\ picks' = 0
        BY <1>2 DEF ClosePicker, Unmount
  <2> QED BY <2>1, <2>2 DEF LinkInv, Followed, Away
<1>3. CASE ChangeRoots
  <2>1. /\ UNCHANGED <<picker, browse, pickError, visit, askedFolder, picks,
                       lateVisit>>
        /\ rootsMoved' = (picker # "closed")
        BY <1>3 DEF ChangeRoots, pickShown, pickCalls
  <2>2. ASSUME ~rootsMoved' PROVE Followed'
    <3>1. picker = "closed" BY <2>1, <2>2
    <3>2. /\ picks' = 0 /\ browse' = NoBrowse
          /\ \A t \in PickTasks : visit'[t].at = "idle"
          BY <2>1, <3>1 DEF LinkInv, Away
    <3> QED BY <3>2 DEF Followed, Away
  <2> QED BY <2>1, <2>2 DEF LinkInv, Away
<1> QED BY <1>1, <1>2, <1>3

\* Every step keeps it.
LEMMA LinkStep ==
    ASSUME SlashFree, PickerInv, LinkInv, [PickerNext]_pickVars
    PROVE  LinkInv'
<1>1. ASSUME NEW t \in PickTasks,
             OpenFiles(t) \/ OpenDirectory(t) \/ OpenRoot(t)
      PROVE  LinkInv'
  <2>1. \E p \in Pickers, f \in Folders \cup {NoFolder} : Mount(p, t, f)
        BY <1>1 DEF OpenFiles, OpenDirectory, OpenRoot, Pickers
  <2> QED BY <2>1, OpenedFollows
<1>2. ASSUME NEW t \in PickTasks, FollowLink(t) PROVE LinkInv'
  <2>1. \E f \in Links : Navigate(t, f) BY <1>2 DEF FollowLink, Links
  <2> QED BY <2>1, NavigateFollows
<1> QED BY <1>1, <1>2, BrowseFollows, ShownFollows, OthersFollow DEF PickerNext

\* Without "/" among the roots every link leads to the folder it names.
THEOREM LinksLeadToFolders ==
    ASSUME \A list \in RootLists : <<>> \notin ToSet(list)
    PROVE  PickerSpec => []LinksLeadThere
<1>0. SlashFree BY DEF SlashFree
<1>1. PickerInit => LinkInv
      BY DEF PickerInit, LinkInv, Followed, Away, NoVisit
<1>2. PickerInv /\ LinkInv => LinksLeadThere
  <2> SUFFICES ASSUME PickerInv, LinkInv, Quiet, picks > 1, ~pickError,
                      ~lateVisit, ~rootsMoved
               PROVE  browse.path = askedFolder
      BY DEF LinksLeadThere
  <2>1. Followed /\ \A t \in PickTasks : ~Away(t) BY DEF LinkInv, Quiet, Away
  <2>2. picks > 0
    <3>1. picks \in 0 .. MaxPicks /\ MaxPicks \in Nat
          BY PickerAssumption DEF PickerInv, PickerTypeOK
    <3> QED BY <3>1
  <2> QED BY <2>1, <2>2 DEF Followed
<1>3. PickerInv /\ LinkInv /\ [PickerNext]_pickVars => LinkInv'
      BY <1>0, LinkStep
<1> QED BY <1>1, <1>2, <1>3, PickerStart, PickerStep, PTL DEF PickerSpec

-----------------------------------------------------------------------------
(* The live pages: types.                                                  *)

JobStates  == {"none", "pending", "running", "ended"}
LoadStates == [at : {"idle", "asked"}, run : SUBSET Jobs, pend : SUBSET Jobs,
               paused : BOOLEAN, has : SUBSET {"run", "rest"}, old : BOOLEAN]
Doings     == [op : {"none", "files", "dir", "cancel", "pause", "resume"},
               todo : SUBSET Jobs, sent : SUBSET Jobs, failed : BOOLEAN]

Counts == clicks \in 0 .. MaxClicks /\ faults \in 0 .. MaxFaults

\* What the handler under way is about.
DoingTyped == doing \in Doings

\* What a load has read of the running jobs is so, or old.
LoadsAreTrue ==
    \A l \in Loads :
        /\ load[l].at = "idle" => load[l].run = {} /\ load[l].has = {}
        /\ "run" \notin load[l].has => load[l].run = {}
        /\ ~load[l].old => \A j \in load[l].run : jobStatus[j] = "running"

\* What is shown as running is so, or a load is under way or due.
ShownIsTrue ==
    view # "left" /\ ~missed /\ ~staleRunning =>
        \/ \A j \in running : jobStatus[j] = "running"
        \/ stream # <<>>
        \/ \E l \in Loads : load[l].at = "asked"

\* What has been sent and has not failed has a row, and so has what is said.
SentIsQueued ==
    /\ \A j \in said : jobStatus[j] # "none"
    /\ doing.op \in {"files", "dir"} /\ ~doing.failed =>
           \A j \in doing.sent \ doing.todo : jobStatus[j] # "none"
    /\ doing.op = "dir" /\ doing.todo # {} => doing.todo = doing.sent

LiveInv == /\ LiveTypeOK /\ DoingTyped /\ LoadsAreTrue /\ ShownIsTrue
           /\ SentIsQueued /\ StreamEndsWithPage

\* What no load is under way looks like, and one that has been asked for.
LEMMA NoLoads ==
    /\ NoLoad \in LoadStates /\ NoLoad.at = "idle"
    /\ NoLoad.run = {} /\ NoLoad.has = {} /\ NoDoing \in Doings
    /\ NoDoing.op = "none" /\ NoDoing.todo = {}
    BY DEF NoLoad, LoadStates, NoDoing, Doings

\* A load that is asked for keeps the others.
LEMMA AskKeeps ==
    ASSUME LiveInv, NEW l \in Loads, Ask(l),
           \A j \in Jobs : jobStatus[j] = "running" => jobStatus'[j] = "running"
    PROVE  /\ load' \in [Loads -> LoadStates] /\ load'[l].at = "asked"
           /\ LoadsAreTrue'
<1>1. PICK x : x = [NoLoad EXCEPT !.at = "asked"] OBVIOUS
<1>2. /\ x \in LoadStates /\ x.at = "asked" /\ x.run = {} /\ x.has = {}
      /\ load \in [Loads -> LoadStates]
      BY <1>1, NoLoads DEF LoadStates, LiveInv, LiveTypeOK
<1>3. /\ load' \in [Loads -> LoadStates] /\ load'[l] = x
      /\ \A k \in Loads \ {l} : load'[k] = load[k]
      BY <1>1, <1>2 DEF Ask
<1>4. LoadsAreTrue'
  <2> SUFFICES ASSUME NEW k \in Loads
               PROVE  /\ load'[k].at = "idle" =>
                             load'[k].run = {} /\ load'[k].has = {}
                      /\ "run" \notin load'[k].has => load'[k].run = {}
                      /\ ~load'[k].old =>
                            \A j \in load'[k].run : jobStatus'[j] = "running"
      BY DEF LoadsAreTrue
  <2>1. CASE k = l BY <1>2, <1>3, <2>1
  <2>2. CASE k # l
    <3>1. load'[k] = load[k] /\ load[k].run \subseteq Jobs
          BY <1>2, <1>3, <2>2 DEF LoadStates
    <3> QED BY <3>1 DEF LiveInv, LoadsAreTrue
  <2> QED BY <2>1, <2>2
<1> QED BY <1>2, <1>3, <1>4

\* Steps that leave alone the loads, and every job that runs.
LEMMA LoadsKept ==
    ASSUME LiveInv, load' = load,
           \A j \in Jobs : jobStatus[j] = "running" => jobStatus'[j] = "running"
    PROVE  load' \in [Loads -> LoadStates] /\ LoadsAreTrue'
<1>1. load \in [Loads -> LoadStates] BY DEF LiveInv, LiveTypeOK, LoadStates
<1>2. \A l \in Loads : load[l].run \subseteq Jobs BY <1>1 DEF LoadStates
<1> QED BY <1>1, <1>2 DEF LiveInv, LoadsAreTrue

\* Steps that leave alone what is shown as running as well.
LEMMA ShownKept ==
    ASSUME LiveInv, UNCHANGED <<view, stream, running, staleRunning>>,
           \A l \in Loads : load[l].at = "asked" => load'[l].at = "asked",
           missed' = missed,
           \A j \in Jobs : jobStatus[j] = "running" => jobStatus'[j] = "running"
    PROVE  ShownIsTrue'
<1>1. running \subseteq Jobs BY DEF LiveInv, LiveTypeOK
<1> QED BY <1>1 DEF LiveInv, ShownIsTrue

\* Steps that leave alone the handler and what it says; rows stay.
LEMMA SentKept ==
    ASSUME LiveInv, doing' = doing, said' \subseteq said,
           \A j \in Jobs : jobStatus[j] # "none" => jobStatus'[j] # "none"
    PROVE  DoingTyped' /\ SentIsQueued'
<1>1. said \subseteq Jobs /\ doing.sent \subseteq Jobs
      BY DEF LiveInv, LiveTypeOK, DoingTyped, Doings
<1> QED BY <1>1 DEF LiveInv, DoingTyped, SentIsQueued

-----------------------------------------------------------------------------
(* The live pages: the event stream.                                       *)

\* Break and Connect.
LEMMA LinkMoves ==
    ASSUME LiveInv, Counts', Break \/ Connect PROVE LiveInv'
<1>1. /\ UNCHANGED <<jobStatus, paused, view, load, running, pending, status,
                     said, doing, poll, asked, logOf, staleRunning>>
      /\ \/ link' = "waiting" /\ link = "open" /\ stream' = <<>>
            /\ missed' = (missed \/ stream # <<>>)
         \/ /\ link' = IF view = "left" THEN "closed" ELSE "open"
            /\ UNCHANGED <<stream, missed>>
      BY DEF Break, Connect, Connected, liveServer, livePage, liveLog, liveHist
<1>2. LoadsAreTrue' BY <1>1, LoadsKept
<1>3. DoingTyped' /\ SentIsQueued' BY <1>1, SentKept
<1>4. ShownIsTrue' BY <1>1 DEF LiveInv, ShownIsTrue
<1>5. StreamEndsWithPage' BY <1>1 DEF LiveInv, StreamEndsWithPage
<1>6. stream' \in Seq(EndEvents) /\ link' \in {"open", "waiting", "closed"}
      /\ missed' \in BOOLEAN
      BY <1>1, EmptySeq DEF LiveInv, LiveTypeOK
<1>7. LiveTypeOK' BY <1>1, <1>6 DEF LiveInv, LiveTypeOK, Counts
<1> QED BY <1>2, <1>3, <1>4, <1>5, <1>7 DEF LiveInv

\* The page is opened.
LEMMA OpenViewInv ==
    ASSUME LiveInv, Counts', NEW l \in Loads, OpenView(l) PROVE LiveInv'
<1>1. /\ UNCHANGED <<jobStatus, paused, stream, running, pending, status, said,
                     doing, poll, asked, logOf, staleRunning, missed>>
      /\ Ask(l) /\ link' = "waiting" /\ view' \in FirstViews
      BY DEF OpenView, liveServer, livePage, liveLog, liveHist
<1>2. /\ load' \in [Loads -> LoadStates] /\ load'[l].at = "asked"
      /\ LoadsAreTrue'
      BY <1>1, AskKeeps
<1>3. DoingTyped' /\ SentIsQueued' BY <1>1, SentKept
<1>4. ShownIsTrue' BY <1>2 DEF ShownIsTrue
<1>5. StreamEndsWithPage' BY <1>1 DEF StreamEndsWithPage
<1>6. LiveTypeOK' BY <1>1, <1>2 DEF LiveInv, LiveTypeOK, Counts, LoadStates
<1> QED BY <1>2, <1>3, <1>4, <1>5, <1>6 DEF LiveInv

\* The page is left.
LEMMA LeaveInv ==
    ASSUME LiveInv, Counts', Leave PROVE LiveInv'
<1>1. /\ UNCHANGED <<jobStatus, paused, missed, staleRunning>>
      /\ view' = "left" /\ stream' = <<>> /\ doing' = NoDoing
      /\ link' = IF link = "open" THEN "closed" ELSE link
      /\ load' = [l \in Loads |-> NoLoad]
      /\ running' = {} /\ pending' = {} /\ status' = "unknown" /\ said' = {}
      /\ poll' = "idle" /\ asked' = {} /\ logOf' = NoLog
      BY DEF Leave, liveServer, liveHist
<1>2. /\ load' \in [Loads -> LoadStates]
      /\ \A l \in Loads : load'[l] = NoLoad
      BY <1>1, NoLoads
<1>3. LoadsAreTrue' BY <1>2, NoLoads DEF LoadsAreTrue
<1>4. DoingTyped' /\ SentIsQueued'
      BY <1>1, NoLoads DEF DoingTyped, SentIsQueued
<1>5. ShownIsTrue' BY <1>1 DEF ShownIsTrue
<1>6. StreamEndsWithPage' BY <1>1 DEF StreamEndsWithPage
<1>7. stream' \in Seq(EndEvents) /\ link' \in {"open", "waiting", "closed"}
      BY <1>1, EmptySeq DEF LiveInv, LiveTypeOK
<1>8. NoDoing.failed \in BOOLEAN /\ NoDoing.todo \subseteq Jobs
      BY NoLoads DEF Doings
<1>9. LiveTypeOK'
      BY <1>1, <1>2, <1>7, <1>8 DEF LiveInv, LiveTypeOK, Counts, LoadStates
<1> QED BY <1>3, <1>4, <1>5, <1>6, <1>9 DEF LiveInv

\* The end of a job is told.
LEMMA ReceiveInv ==
    ASSUME LiveInv, Counts', NEW l \in Loads, Receive(l) PROVE LiveInv'
<1>1. /\ UNCHANGED <<jobStatus, paused, view, link, running, pending, status,
                     said, doing, poll, asked, logOf, staleRunning, missed>>
      /\ stream' = Tail(stream) /\ stream # <<>>
      /\ Head(stream) \in LoadingEvents => Ask(l)
      BY DEF Receive, liveServer, livePage, liveLog, liveHist
<1>2. /\ stream \in Seq(EndEvents) /\ stream' \in Seq(EndEvents)
      /\ Head(stream) \in EndEvents
      BY <1>1, HeadTailProperties DEF LiveInv, LiveTypeOK
<1>3. Ask(l) BY <1>1, <1>2 DEF LoadingEvents, EndEvents
<1>4. /\ load' \in [Loads -> LoadStates] /\ load'[l].at = "asked"
      /\ LoadsAreTrue'
      BY <1>1, <1>3, AskKeeps
<1>5. DoingTyped' /\ SentIsQueued' BY <1>1, SentKept
<1>6. ShownIsTrue' BY <1>4 DEF ShownIsTrue
<1>7. StreamEndsWithPage' BY <1>1 DEF LiveInv, StreamEndsWithPage
<1>8. LiveTypeOK'
      BY <1>1, <1>2, <1>4 DEF LiveInv, LiveTypeOK, Counts, LoadStates
<1> QED BY <1>4, <1>5, <1>6, <1>7, <1>8 DEF LiveInv

-----------------------------------------------------------------------------
(* The live pages: loads.                                                  *)

\* A load goes on.
LEMMA LoadMoves ==
    ASSUME LiveInv, NEW l \in Loads, NEW x \in LoadStates,
           load' = [load EXCEPT ![l] = x], jobStatus' = jobStatus,
           x.at = "idle" => x.run = {} /\ x.has = {},
           "run" \notin x.has => x.run = {},
           ~x.old => \A j \in x.run : jobStatus[j] = "running"
    PROVE  /\ load' \in [Loads -> LoadStates] /\ LoadsAreTrue'
           /\ load'[l] = x
           /\ \A k \in Loads \ {l} : load'[k] = load[k]
<1>1. /\ load' \in [Loads -> LoadStates] /\ load'[l] = x
      /\ \A k \in Loads \ {l} : load'[k] = load[k]
      BY DEF LiveInv, LiveTypeOK, LoadStates
<1>2. LoadsAreTrue'
  <2> SUFFICES ASSUME NEW k \in Loads
               PROVE  /\ load'[k].at = "idle" =>
                             load'[k].run = {} /\ load'[k].has = {}
                      /\ "run" \notin load'[k].has => load'[k].run = {}
                      /\ ~load'[k].old =>
                            \A j \in load'[k].run : jobStatus'[j] = "running"
      BY DEF LoadsAreTrue
  <2>1. CASE k = l BY <1>1, <2>1
  <2>2. CASE k # l
    <3>1. load'[k] = load[k] BY <1>1, <2>2
    <3> QED BY <3>1 DEF LiveInv, LoadsAreTrue
  <2> QED BY <2>1, <2>2
<1> QED BY <1>1, <1>2

\* One of the two requests is answered.
LEMMA AnswersInv ==
    ASSUME LiveInv, Counts', NEW l \in Loads, AnswerRunning(l) \/ AnswerRest(l)
    PROVE  LiveInv'
<1>1. /\ UNCHANGED <<jobStatus, paused, view, link, stream, running, pending,
                     status, said, doing, poll, asked, logOf, staleRunning>>
      /\ load[l].at = "asked"
      BY DEF AnswerRunning, AnswerRest, liveServer, liveLink, livePage,
             liveLog, liveHist
<1>2. load[l] \in LoadStates BY DEF LiveInv, LiveTypeOK, LoadStates
<1>3. /\ \A j \in ListRunning : j \in Jobs /\ jobStatus[j] = "running"
      /\ Is("pending") \subseteq Jobs
      BY DEF ListRunning, Is
<1>4. PICK x : /\ x \in LoadStates /\ load' = [load EXCEPT ![l] = x]
               /\ x.at = "asked"
               /\ \/ x.run = ListRunning /\ "run" \in x.has
                     /\ missed' = FALSE
                  \/ x.run = load[l].run /\ x.old = load[l].old
                     /\ ("run" \in x.has <=> "run" \in load[l].has)
                     /\ missed' = missed
  <2>1. CASE AnswerRunning(l)
    <3>1. PICK x : x = [load[l] EXCEPT !.run = ListRunning,
                            !.has = load[l].has \cup {"run"}]
          OBVIOUS
    <3>2. /\ x \in LoadStates /\ x.at = "asked" /\ x.run = ListRunning
          /\ "run" \in x.has
          BY <1>1, <1>2, <1>3, <3>1 DEF LoadStates
    <3>3. load' = [load EXCEPT ![l] = x] /\ missed' = FALSE
          BY <2>1, <3>1 DEF AnswerRunning, LiveInv, LiveTypeOK
    <3> QED BY <3>2, <3>3
  <2>2. CASE AnswerRest(l)
    <3>1. PICK p, b : /\ p = IF view = "queue" THEN Is("pending") ELSE {}
                      /\ b = (view = "dashboard" /\ paused)
          OBVIOUS
    <3>2. PICK x : x = [load[l] EXCEPT !.pend = p, !.paused = b,
                            !.has = load[l].has \cup {"rest"}]
          OBVIOUS
    <3>3. p \subseteq Jobs BY <1>3, <3>1
    <3>4. b \in BOOLEAN BY <3>1
    <3>5. /\ x \in LoadStates /\ x.at = "asked" /\ x.run = load[l].run
          /\ x.old = load[l].old /\ x.has = load[l].has \cup {"rest"}
          BY <1>1, <1>2, <3>2, <3>3, <3>4 DEF LoadStates
    <3>6. load' = [load EXCEPT ![l] = x] /\ missed' = missed
          BY <2>2, <3>1, <3>2 DEF AnswerRest, LiveInv, LiveTypeOK, liveHist
    <3> QED BY <3>5, <3>6
  <2> QED BY <2>1, <2>2
<1>5. /\ "run" \notin x.has => x.run = {}
      /\ ~x.old => \A j \in x.run : jobStatus[j] = "running"
      BY <1>3, <1>4 DEF LiveInv, LoadsAreTrue
<1>6. /\ load' \in [Loads -> LoadStates] /\ LoadsAreTrue'
      /\ load'[l].at = "asked"
      BY <1>1, <1>4, <1>5, LoadMoves
<1>7. DoingTyped' /\ SentIsQueued' BY <1>1, SentKept
<1>8. ShownIsTrue' BY <1>6 DEF ShownIsTrue
<1>9. StreamEndsWithPage' BY <1>1 DEF LiveInv, StreamEndsWithPage
<1>10. missed' \in BOOLEAN BY <1>4 DEF LiveInv, LiveTypeOK
<1>11. LiveTypeOK'
       BY <1>1, <1>6, <1>10 DEF LiveInv, LiveTypeOK, Counts, LoadStates
<1> QED BY <1>6, <1>7, <1>8, <1>9, <1>11 DEF LiveInv

\* A load is shown.
LEMMA ShowLoadInv ==
    ASSUME LiveInv, Counts', NEW l \in Loads, ShowLoad(l) PROVE LiveInv'
<1>1. /\ UNCHANGED <<jobStatus, paused, view, link, stream, said, doing, poll,
                     missed>>
      /\ load' = [load EXCEPT ![l] = NoLoad]
      /\ staleRunning' = load[l].old /\ running' = load[l].run
      /\ pending' \in {pending, load[l].pend}
      /\ status' \in {status, Shown(load[l].paused)}
      /\ \/ UNCHANGED <<asked, logOf>>
         \/ /\ asked' = asked \cup (load[l].run \ running)
            /\ logOf' \in {NoLog, logOf}
      BY DEF ShowLoad, PollNewLog, liveServer, liveLink, liveLog
<1>2. load[l] \in LoadStates BY DEF LiveInv, LiveTypeOK, LoadStates
<1>3. /\ load' \in [Loads -> LoadStates] /\ LoadsAreTrue'
      BY <1>1, NoLoads, LoadMoves
<1>4. DoingTyped' /\ SentIsQueued' BY <1>1, SentKept
<1>5. ShownIsTrue'
  <2>1. ~load[l].old => \A j \in load[l].run : jobStatus[j] = "running"
        BY DEF LiveInv, LoadsAreTrue
  <2> QED BY <1>1, <2>1 DEF ShownIsTrue
<1>6. StreamEndsWithPage' BY <1>1 DEF LiveInv, StreamEndsWithPage
<1>7. /\ staleRunning' \in BOOLEAN /\ running' \subseteq Jobs
      /\ pending' \subseteq Jobs /\ asked' \subseteq Jobs
      /\ status' \in {"unknown", "paused", "active"}
      /\ logOf' \in Jobs \cup {NoLog}
      BY <1>1, <1>2 DEF LoadStates, LiveInv, LiveTypeOK, Shown
<1>8. LiveTypeOK'
      BY <1>1, <1>3, <1>7 DEF LiveInv, LiveTypeOK, Counts, LoadStates
<1> QED BY <1>3, <1>4, <1>5, <1>6, <1>8 DEF LiveInv

\* A load fails.
LEMMA LoseViewInv ==
    ASSUME LiveInv, Counts', NEW l \in Loads, LoseView(l) PROVE LiveInv'
<1>1. /\ UNCHANGED <<jobStatus, paused, view, link, stream, running, pending,
                     status, said, doing, poll, asked, logOf, staleRunning>>
      /\ load' = [load EXCEPT ![l] = NoLoad] /\ missed' = TRUE
      BY DEF LoseView, liveServer, liveLink, livePage, liveLog
<1>2. load' \in [Loads -> LoadStates] /\ LoadsAreTrue'
      BY <1>1, NoLoads, LoadMoves
<1>3. DoingTyped' /\ SentIsQueued' BY <1>1, SentKept
<1>4. ShownIsTrue' BY <1>1 DEF ShownIsTrue
<1>5. StreamEndsWithPage' BY <1>1 DEF LiveInv, StreamEndsWithPage
<1>6. LiveTypeOK' BY <1>1, <1>2 DEF LiveInv, LiveTypeOK, Counts, LoadStates
<1> QED BY <1>2, <1>3, <1>4, <1>5, <1>6 DEF LiveInv

-----------------------------------------------------------------------------
(* The live pages: handlers.                                               *)

\* A handler is started.
LEMMA StartsInv ==
    ASSUME LiveInv, Counts',
           \/ \E js \in SUBSET Jobs : \/ js # {} /\ StartSubmit("files", js)
                                      \/ js # {} /\ StartSubmit("dir", js)
           \/ \E j \in pending : StartSubmit("cancel", {j})
           \/ TogglePause \/ CancelRunning
    PROVE  LiveInv'
<1>1. /\ UNCHANGED <<jobStatus, paused, view, link, stream, load, running,
                     pending, status, poll, asked, logOf, missed, staleRunning>>
      /\ said' \in {said, {}}
      BY DEF StartSubmit, TogglePause, CancelRunning, liveServer, liveLink,
             livePage, liveLog, liveHist
<1>2. pending \subseteq Jobs /\ running \subseteq Jobs
      BY DEF LiveInv, LiveTypeOK
<1>3. /\ doing' \in Doings
      /\ doing'.op \in {"files", "dir"} => doing'.sent = doing'.todo
  <2>1. ASSUME NEW op \in {"files", "dir", "cancel"}, NEW js \in SUBSET Jobs,
               StartSubmit(op, js)
        PROVE  /\ doing' \in Doings
               /\ doing'.op \in {"files", "dir"} => doing'.sent = doing'.todo
        BY <2>1 DEF StartSubmit, Doings
  <2>2. CASE TogglePause
    <3>1. PICK op \in {"pause", "resume"} : doing' = [NoDoing EXCEPT !.op = op]
          BY <2>2 DEF TogglePause
    <3> QED BY <3>1 DEF NoDoing, Doings
  <2>3. CASE CancelRunning
    <3>1. doing' = [NoDoing EXCEPT !.op = "cancel", !.todo = running]
          BY <2>3 DEF CancelRunning
    <3> QED BY <1>2, <3>1 DEF NoDoing, Doings
  <2> QED BY <1>2, <2>1, <2>2, <2>3
<1>4. load' \in [Loads -> LoadStates] /\ LoadsAreTrue' BY <1>1, LoadsKept
<1>5. DoingTyped' /\ SentIsQueued'
      BY <1>1, <1>3 DEF LiveInv, DoingTyped, SentIsQueued
<1>6. ShownIsTrue' BY <1>1, ShownKept
<1>7. StreamEndsWithPage' BY <1>1 DEF LiveInv, StreamEndsWithPage
<1>8. /\ doing'.todo \subseteq Jobs /\ doing'.failed \in BOOLEAN
      /\ said' \subseteq Jobs
      BY <1>1, <1>3 DEF LiveInv, LiveTypeOK, Doings
<1>9. LiveTypeOK'
      BY <1>1, <1>4, <1>8 DEF LiveInv, LiveTypeOK, Counts, LoadStates
<1> QED BY <1>4, <1>5, <1>6, <1>7, <1>9 DEF LiveInv

\* What a job that is written was before, and what the others are then.
LEMMA Written ==
    ASSUME LiveInv, NEW j \in Jobs, NEW s \in JobStates, SetJob(j, s)
    PROVE  /\ jobStatus' \in [Jobs -> JobStates] /\ jobStatus'[j] = s
           /\ \A k \in Jobs \ {j} : jobStatus'[k] = jobStatus[k]
    BY DEF SetJob, LiveInv, LiveTypeOK, JobStates

\* createJob and enqueueDir.
LEMMA SubmitsInv ==
    ASSUME LiveInv, Counts', CreateJob \/ EnqueueDir PROVE LiveInv'
<1>1. /\ UNCHANGED <<paused, view, link, stream, load, running, pending, said,
                     status, poll, asked, logOf, missed, staleRunning>>
      BY DEF CreateJob, EnqueueDir, liveLink, livePage, liveLog, liveHist
<1>2. /\ jobStatus \in [Jobs -> JobStates] /\ doing \in Doings
      /\ doing.todo \subseteq Jobs /\ doing.sent \subseteq Jobs
      BY DEF LiveInv, LiveTypeOK, DoingTyped, Doings, JobStates
<1>3. /\ jobStatus' \in [Jobs -> JobStates] /\ doing' \in Doings
      /\ \A k \in Jobs : jobStatus'[k] = jobStatus[k]
                         \/ (jobStatus[k] = "none" /\ jobStatus'[k] = "pending")
      /\ doing'.sent = doing.sent /\ doing'.op = doing.op
      /\ doing.op \in {"files", "dir"}
      /\ doing.op = "dir" => doing'.todo = {}
      /\ ~doing'.failed => \A k \in doing'.sent \ doing'.todo :
                               jobStatus'[k] # "none"
  <2>1. CASE CreateJob
    <3>1. PICK j \in doing.todo, ok \in BOOLEAN :
              /\ \/ jobStatus[j] = "none" /\ SetJob(j, "pending")
                 \/ jobStatus' = jobStatus
              /\ ok => jobStatus' # jobStatus
              /\ doing' = [doing EXCEPT !.todo = doing.todo \ {j},
                                        !.failed = doing.failed \/ ~ok]
          BY <2>1 DEF CreateJob, FileFailed
    <3>2. j \in Jobs /\ "pending" \in JobStates BY <1>2, <3>1 DEF JobStates
    <3>3. /\ jobStatus' \in [Jobs -> JobStates]
          /\ \A k \in Jobs : jobStatus'[k] = jobStatus[k]
                         \/ (jobStatus[k] = "none" /\ jobStatus'[k] = "pending")
          /\ ok => jobStatus'[j] # "none"
          BY <1>2, <3>1, <3>2, Written
    <3>4. PICK b \in BOOLEAN : b <=> (doing.failed \/ ~ok) OBVIOUS
    <3>5. doing' = [doing EXCEPT !.todo = doing.todo \ {j}, !.failed = b]
      <4>1. b = (doing.failed \/ ~ok) BY <3>4
      <4> QED BY <3>1, <4>1
    <3>6. /\ doing' \in Doings /\ doing'.sent = doing.sent
          /\ doing'.op = doing.op /\ doing'.todo = doing.todo \ {j}
          /\ doing'.failed = b /\ doing.op = "files"
          BY <1>2, <2>1, <3>5 DEF Doings, CreateJob
    <3>7. ~b => \A k \in doing.sent \ (doing.todo \ {j}) :
                    jobStatus'[k] # "none"
      <4>1. ~b => ok /\ ~doing.failed BY <3>4
      <4>2. ~b => \A k \in doing.sent \ doing.todo : jobStatus[k] # "none"
            BY <3>6, <4>1 DEF LiveInv, SentIsQueued
      <4> QED BY <1>2, <3>3, <4>1, <4>2
    <3> QED BY <3>3, <3>6, <3>7
  <2>2. CASE EnqueueDir
    <3>1. PICK ok \in BOOLEAN :
              /\ ok => jobStatus' # jobStatus
              /\ doing' = [doing EXCEPT !.todo = {}, !.failed = ~ok]
          BY <2>2 DEF EnqueueDir
    <3>2. \/ jobStatus' = jobStatus
          \/ jobStatus' = [j \in Jobs |-> IF j \in doing.todo \cap Is("none")
                                          THEN "pending" ELSE jobStatus[j]]
          BY <2>2 DEF EnqueueDir
    <3>3. /\ jobStatus' \in [Jobs -> JobStates]
          /\ \A k \in Jobs : jobStatus'[k] = jobStatus[k]
                         \/ (jobStatus[k] = "none" /\ jobStatus'[k] = "pending")
          /\ ok => \A k \in doing.todo : jobStatus'[k] # "none"
          BY <1>2, <3>1, <3>2 DEF Is, JobStates
    <3>4. PICK b \in BOOLEAN : b = ~ok OBVIOUS
    <3>5. doing' = [doing EXCEPT !.todo = {}, !.failed = b] BY <3>1, <3>4
    <3>6. /\ doing' \in Doings /\ doing'.sent = doing.sent
          /\ doing'.op = doing.op /\ doing'.todo = {} /\ doing'.failed = b
          /\ doing.op = "dir"
          BY <1>2, <2>2, <3>5 DEF Doings, EnqueueDir
    <3>7. doing.todo = doing.sent
          BY <2>2 DEF EnqueueDir, LiveInv, SentIsQueued
    <3> QED BY <3>3, <3>4, <3>6, <3>7
  <2> QED BY <2>1, <2>2
<1>4. \A k \in Jobs : /\ jobStatus[k] = "running" => jobStatus'[k] = "running"
                      /\ jobStatus[k] # "none" => jobStatus'[k] # "none"
      BY <1>3
<1>5. load' \in [Loads -> LoadStates] /\ LoadsAreTrue' BY <1>1, <1>4, LoadsKept
<1>6. DoingTyped' /\ SentIsQueued'
  <2>1. said \subseteq Jobs BY DEF LiveInv, LiveTypeOK
  <2>2. \A j \in said : jobStatus'[j] # "none"
        BY <1>4, <2>1 DEF LiveInv, SentIsQueued
  <2> QED BY <1>1, <1>3, <2>2 DEF DoingTyped, SentIsQueued
<1>7. ShownIsTrue' BY <1>1, <1>4, ShownKept
<1>8. StreamEndsWithPage' BY <1>1 DEF LiveInv, StreamEndsWithPage
<1>9. doing'.todo \subseteq Jobs /\ doing'.failed \in BOOLEAN
      BY <1>3 DEF Doings
<1>10. LiveTypeOK'
       BY <1>1, <1>3, <1>5, <1>9
          DEF LiveInv, LiveTypeOK, Counts, LoadStates, JobStates
<1> QED BY <1>5, <1>6, <1>7, <1>8, <1>10 DEF LiveInv


\* The message of a handler, and its load.
LEMMA EndSubmitInv ==
    ASSUME LiveInv, Counts', NEW l \in Loads, EndSubmit(l) PROVE LiveInv'
<1>1. /\ UNCHANGED <<jobStatus, paused, view, link, stream, running, pending,
                     status, poll, asked, logOf, missed, staleRunning>>
      /\ doing.op \in {"files", "dir"} /\ doing.todo = {}
      /\ said' = IF doing.failed THEN said ELSE doing.sent
      /\ doing' = NoDoing /\ Ask(l)
      BY DEF EndSubmit, liveServer, liveLink, liveLog, liveHist
<1>2. /\ load' \in [Loads -> LoadStates] /\ load'[l].at = "asked"
      /\ LoadsAreTrue'
      BY <1>1, AskKeeps
<1>3. DoingTyped' /\ SentIsQueued'
      BY <1>1, NoLoads DEF LiveInv, DoingTyped, SentIsQueued
<1>4. ShownIsTrue' BY <1>2 DEF ShownIsTrue
<1>5. StreamEndsWithPage' BY <1>1 DEF LiveInv, StreamEndsWithPage
<1>6. /\ said' \subseteq Jobs /\ doing'.todo \subseteq Jobs
      /\ doing'.failed \in BOOLEAN
      BY <1>1, NoLoads DEF LiveInv, LiveTypeOK, DoingTyped, Doings
<1>7. LiveTypeOK'
      BY <1>1, <1>2, <1>6 DEF LiveInv, LiveTypeOK, Counts, LoadStates
<1> QED BY <1>2, <1>3, <1>4, <1>5, <1>7 DEF LiveInv

\* A job is cancelled, the queue paused, or a scan started.
LEMMA ActsInv ==
    ASSUME LiveInv, Counts', NEW l \in Loads,
           CancelJob(l) \/ ActPause(l) \/ ScanNow(l)
    PROVE  LiveInv'
<1>1. /\ UNCHANGED <<view, link, stream, running, pending, said, status, poll,
                     asked, logOf, missed, staleRunning>>
      /\ doing' \in {NoDoing, doing} /\ (load' = load \/ Ask(l))
      BY DEF CancelJob, ActPause, ScanNow, liveServer, liveLink, livePage,
             liveLog, liveHist
<1>2. /\ jobStatus' \in [Jobs -> JobStates] /\ paused' \in BOOLEAN
      /\ \A k \in Jobs :
            /\ jobStatus[k] = "running" => jobStatus'[k] = "running"
            /\ jobStatus[k] # "none" => jobStatus'[k] # "none"
  <2>0. jobStatus \in [Jobs -> JobStates] /\ paused \in BOOLEAN
        BY DEF LiveInv, LiveTypeOK, JobStates
  <2>1. CASE CancelJob(l)
    <3>1. PICK j \in doing.todo :
              jobStatus' = jobStatus
              \/ (jobStatus[j] = "pending" /\ SetJob(j, "ended"))
          BY <2>1 DEF CancelJob
    <3>2. j \in Jobs /\ "ended" \in JobStates
          BY DEF LiveInv, LiveTypeOK, JobStates
    <3>3. paused' = paused BY <2>1 DEF CancelJob
    <3> QED BY <2>0, <3>1, <3>2, <3>3, Written
  <2>2. CASE ActPause(l) BY <2>0, <2>2 DEF ActPause
  <2>3. CASE ScanNow(l) BY <2>0, <2>3 DEF ScanNow, liveServer
  <2> QED BY <2>1, <2>2, <2>3
<1>3. /\ load' \in [Loads -> LoadStates] /\ LoadsAreTrue'
      /\ load' = load \/ load'[l].at = "asked"
      BY <1>1, <1>2, AskKeeps, LoadsKept
<1>4. DoingTyped' /\ SentIsQueued'
  <2>1. CASE doing' = doing BY <1>1, <1>2, <2>1, SentKept
  <2>2. CASE doing' = NoDoing
    <3>1. said \subseteq Jobs BY DEF LiveInv, LiveTypeOK
    <3> QED BY <1>1, <1>2, <2>2, <3>1, NoLoads
            DEF LiveInv, DoingTyped, SentIsQueued
  <2> QED BY <1>1, <2>1, <2>2
<1>5. ShownIsTrue'
  <2>1. CASE load' = load BY <1>1, <1>2, <2>1, ShownKept
  <2>2. CASE load'[l].at = "asked" BY <2>2 DEF ShownIsTrue
  <2> QED BY <1>3, <2>1, <2>2
<1>6. StreamEndsWithPage' BY <1>1 DEF LiveInv, StreamEndsWithPage
<1>7. doing'.todo \subseteq Jobs /\ doing'.failed \in BOOLEAN
      BY <1>4 DEF DoingTyped, Doings
<1>8. LiveTypeOK'
      BY <1>1, <1>2, <1>3, <1>7
         DEF LiveInv, LiveTypeOK, Counts, LoadStates, JobStates
<1> QED BY <1>3, <1>4, <1>5, <1>6, <1>8 DEF LiveInv

\* The polls of the Dashboard, and the message that goes away.
LEMMA PollsInv ==
    ASSUME LiveInv, Counts',
           \/ Forget \/ AskStatus \/ ShowStatus \/ AskLog
           \/ \E j \in Jobs : ShowLog(j)
    PROVE  LiveInv'
<1>1. /\ UNCHANGED <<jobStatus, paused, view, link, stream, load, running,
                     pending, doing, missed, staleRunning>>
      /\ said' \subseteq said
      BY DEF Forget, AskStatus, ShowStatus, AskLog, ShowLog, liveServer,
             liveLink, livePage, liveLog, liveHist
<1>2. /\ poll' \in {"idle", "paused", "active"} /\ asked' \subseteq Jobs
      /\ status' \in {"unknown", "paused", "active"}
      /\ logOf' \in Jobs \cup {NoLog}
  <2>1. LiveTypeOK BY DEF LiveInv
  <2> QED BY <2>1 DEF Forget, AskStatus, ShowStatus, AskLog, ShowLog, Shown,
                      PollStatus, LogToPoll, livePage, liveLog, LiveTypeOK
<1>3. load' \in [Loads -> LoadStates] /\ LoadsAreTrue' BY <1>1, LoadsKept
<1>4. DoingTyped' /\ SentIsQueued' BY <1>1, SentKept
<1>5. ShownIsTrue' BY <1>1, ShownKept
<1>6. StreamEndsWithPage' BY <1>1 DEF LiveInv, StreamEndsWithPage
<1>7. LiveTypeOK'
      BY <1>1, <1>2, <1>3 DEF LiveInv, LiveTypeOK, Counts, LoadStates
<1> QED BY <1>3, <1>4, <1>5, <1>6, <1>7 DEF LiveInv

-----------------------------------------------------------------------------
(* The live pages: the worker and the others.                              *)

\* Loads of jobs that run no more get old.
LEMMA AgedLoads ==
    ASSUME LiveInv, NEW gone, AgeLoads(gone),
           \A j \in Jobs \ gone : jobStatus[j] = "running" =>
                                      jobStatus'[j] = "running"
    PROVE  /\ load' \in [Loads -> LoadStates] /\ LoadsAreTrue'
           /\ \A l \in Loads : load'[l].at = load[l].at
<1> SUFFICES ASSUME NEW l \in Loads
             PROVE  /\ load'[l] \in LoadStates
                    /\ load'[l].at = "idle" =>
                          load'[l].run = {} /\ load'[l].has = {}
                    /\ "run" \notin load'[l].has => load'[l].run = {}
                    /\ ~load'[l].old =>
                          \A j \in load'[l].run : jobStatus'[j] = "running"
                    /\ load'[l].at = load[l].at
    BY DEF AgeLoads, LoadsAreTrue
<1>1. load[l] \in LoadStates BY DEF LiveInv, LiveTypeOK, LoadStates
<1>2. PICK x : x = [load[l] EXCEPT !.old = TRUE] OBVIOUS
<1>3. /\ x \in LoadStates /\ x.at = load[l].at /\ x.run = load[l].run
      /\ x.has = load[l].has /\ x.old
      BY <1>1, <1>2 DEF LoadStates
<1>4. CASE load[l].run \cap gone # {}
  <2>1. load'[l] = x BY <1>2, <1>4 DEF AgeLoads
  <2> QED BY <1>3, <2>1 DEF LiveInv, LoadsAreTrue
<1>5. CASE load[l].run \cap gone = {}
  <2>1. load'[l] = load[l] BY <1>5 DEF AgeLoads
  <2>2. \A j \in load[l].run : j \in Jobs \ gone
        BY <1>1, <1>5 DEF LoadStates
  <2> QED BY <1>1, <2>1, <2>2 DEF LiveInv, LoadsAreTrue
<1> QED BY <1>4, <1>5

\* Jobs are enqueued, claimed and skipped; the queue is paused.
LEMMA OthersInv ==
    ASSUME LiveInv, Counts', Enqueue \/ Claim \/ Skip \/ PauseElsewhere
    PROVE  LiveInv'
<1>1. /\ UNCHANGED <<view, link, stream, load, running, pending, said, status,
                     doing, poll, asked, logOf, missed, staleRunning>>
      BY DEF Enqueue, Claim, Skip, PauseElsewhere, Unseen, liveLink, livePage,
             liveLog, liveHist
<1>2. /\ jobStatus' \in [Jobs -> JobStates] /\ paused' \in BOOLEAN
      /\ \A k \in Jobs :
            /\ jobStatus[k] = "running" => jobStatus'[k] = "running"
            /\ jobStatus[k] # "none" => jobStatus'[k] # "none"
  <2>0. jobStatus \in [Jobs -> JobStates] /\ paused \in BOOLEAN
        BY DEF LiveInv, LiveTypeOK, JobStates
  <2>1. CASE Enqueue \/ Claim \/ Skip
    <3>1. PICK j \in Jobs, s \in {"pending", "running", "ended"} :
              SetJob(j, s) /\ jobStatus[j] \in {"none", "pending"}
          BY <2>1 DEF Enqueue, Claim, Skip, Is
    <3>2. s \in JobStates BY DEF JobStates
    <3>3. paused' = paused BY <2>1 DEF Enqueue, Claim, Skip
    <3> QED BY <2>0, <3>1, <3>2, <3>3, Written
  <2>2. CASE PauseElsewhere BY <2>0, <2>2 DEF PauseElsewhere
  <2> QED BY <2>1, <2>2
<1>3. load' \in [Loads -> LoadStates] /\ LoadsAreTrue'
      BY <1>1, <1>2, LoadsKept
<1>4. DoingTyped' /\ SentIsQueued' BY <1>1, <1>2, SentKept
<1>5. ShownIsTrue' BY <1>1, <1>2, ShownKept
<1>6. StreamEndsWithPage' BY <1>1 DEF LiveInv, StreamEndsWithPage
<1>7. LiveTypeOK'
      BY <1>1, <1>2, <1>3 DEF LiveInv, LiveTypeOK, Counts, LoadStates, JobStates
<1> QED BY <1>3, <1>4, <1>5, <1>6, <1>7 DEF LiveInv

\* A job ends.
LEMMA FinishJobInv ==
    ASSUME LiveInv, Counts', FinishJob PROVE LiveInv'
<1>1. PICK j \in Is("running"), e \in EndEvents :
          SetJob(j, "ended") /\ AgeLoads({j}) /\ Emit(e)
      BY DEF FinishJob
<1>2. /\ UNCHANGED <<paused, view, link, running, pending, said, status, doing,
                     poll, asked, logOf, staleRunning>>
      BY DEF FinishJob, Unseen, livePage, liveLog
<1>3. /\ j \in Jobs /\ jobStatus[j] = "running" /\ "ended" \in JobStates
      BY DEF Is, JobStates
<1>4. /\ jobStatus' \in [Jobs -> JobStates] /\ jobStatus'[j] = "ended"
      /\ \A k \in Jobs \ {j} : jobStatus'[k] = jobStatus[k]
      BY <1>1, <1>3, Written
<1>5. /\ load' \in [Loads -> LoadStates] /\ LoadsAreTrue'
      BY <1>1, <1>4, AgedLoads
<1>6. /\ stream' \in Seq(EndEvents) /\ missed' \in BOOLEAN
      /\ stream' # <<>> \/ missed'
  <2>1. stream \in Seq(EndEvents) /\ missed \in BOOLEAN
        BY DEF LiveInv, LiveTypeOK
  <2>2. Append(stream, e) \in Seq(EndEvents) /\ Append(stream, e) # <<>>
        BY <2>1, AppendProperties
  <2> QED BY <1>1, <2>1, <2>2 DEF Emit
<1>7. DoingTyped' /\ SentIsQueued' BY <1>2, <1>3, <1>4, SentKept
<1>8. ShownIsTrue' BY <1>6 DEF ShownIsTrue
<1>9. StreamEndsWithPage' BY <1>2 DEF LiveInv, StreamEndsWithPage
<1>10. LiveTypeOK'
       BY <1>2, <1>4, <1>5, <1>6
          DEF LiveInv, LiveTypeOK, Counts, LoadStates, JobStates
<1> QED BY <1>5, <1>7, <1>8, <1>9, <1>10 DEF LiveInv

\* The daemon restarts.
LEMMA RestartInv ==
    ASSUME LiveInv, Counts', Restart PROVE LiveInv'
<1>1. /\ UNCHANGED <<paused, view, running, pending, said, status, doing, poll,
                     asked, logOf, staleRunning>>
      /\ missed' = TRUE /\ stream' = <<>>
      /\ link' = IF link = "open" THEN "waiting" ELSE link
      /\ jobStatus' = [j \in Jobs |-> IF jobStatus[j] = "running"
                                      THEN "pending" ELSE jobStatus[j]]
      BY DEF Restart, Unseen, livePage, liveLog
<1>2. /\ jobStatus' \in [Jobs -> JobStates]
      /\ \A j \in Jobs : jobStatus[j] # "none" => jobStatus'[j] # "none"
      BY <1>1 DEF LiveInv, LiveTypeOK, JobStates
<1>3. load' \in [Loads -> LoadStates] /\ LoadsAreTrue'
  <2>1. AgeLoads(Is("running")) BY DEF Restart
  <2>2. \A j \in Jobs \ Is("running") : jobStatus[j] = "running" =>
                                            jobStatus'[j] = "running"
        BY DEF Is
  <2> QED BY <2>1, <2>2, AgedLoads
<1>4. DoingTyped' /\ SentIsQueued' BY <1>1, <1>2, SentKept
<1>5. ShownIsTrue' BY <1>1 DEF ShownIsTrue
<1>6. StreamEndsWithPage' BY <1>1 DEF LiveInv, StreamEndsWithPage
<1>7. stream' \in Seq(EndEvents) /\ link' \in {"open", "waiting", "closed"}
      BY <1>1, EmptySeq DEF LiveInv, LiveTypeOK
<1>8. LiveTypeOK'
      BY <1>1, <1>2, <1>3, <1>7
         DEF LiveInv, LiveTypeOK, Counts, LoadStates, JobStates
<1> QED BY <1>3, <1>4, <1>5, <1>6, <1>8 DEF LiveInv

\* The bounds are kept.
LEMMA CountsKept ==
    ASSUME LiveInv, [LiveNext]_liveVars PROVE Counts'
<1>1. /\ clicks \in 0 .. MaxClicks /\ faults \in 0 .. MaxFaults
      /\ MaxClicks \in Nat /\ MaxFaults \in Nat
      BY LiveAssumption DEF LiveInv, LiveTypeOK
<1>2. \/ clicks' = clicks /\ faults' = faults
      \/ clicks < MaxClicks /\ clicks' = clicks + 1 /\ faults' = faults
      \/ faults < MaxFaults /\ faults' = faults + 1 /\ clicks' = clicks
      BY DEF LiveNext, Click, Lost, FinishJob, Emit, liveVars, liveBounds
<1> QED BY <1>1, <1>2 DEF Counts

\* The pages start so.
LEMMA LiveStart == LiveInit => LiveInv
<1> SUFFICES ASSUME LiveInit PROVE LiveInv OBVIOUS
<1>1. /\ load \in [Loads -> LoadStates] /\ \A l \in Loads : load[l] = NoLoad
      BY NoLoads DEF LiveInit
<1>2. jobStatus \in [Jobs -> {"none", "pending", "running", "ended"}]
      BY LiveAssumption DEF LiveInit
<1>3. clicks \in 0 .. MaxClicks /\ faults \in 0 .. MaxFaults
  <2>1. MaxClicks \in Nat /\ MaxFaults \in Nat BY LiveAssumption
  <2> QED BY <2>1 DEF LiveInit
<1>4. stream \in Seq(EndEvents) BY EmptySeq DEF LiveInit
<1>5. NoDoing.failed \in BOOLEAN /\ NoDoing.todo \subseteq Jobs
      BY NoLoads DEF Doings
<1>6. LiveTypeOK
      BY <1>1, <1>2, <1>3, <1>4, <1>5 DEF LiveInit, LiveTypeOK, LoadStates
<1>7. LoadsAreTrue BY <1>1, NoLoads DEF LoadsAreTrue
<1> QED BY <1>6, <1>7, NoLoads
        DEF LiveInit, LiveInv, DoingTyped, ShownIsTrue, SentIsQueued,
            StreamEndsWithPage

\* Every step keeps it.
LEMMA LiveStep == LiveInv /\ [LiveNext]_liveVars => LiveInv'
<1> SUFFICES ASSUME LiveInv, [LiveNext]_liveVars PROVE LiveInv' OBVIOUS
<1>1. Counts' BY CountsKept
<1>2. CASE UNCHANGED liveVars
      BY <1>2 DEF liveVars, liveServer, liveLink, livePage, liveLog, liveHist,
                  liveBounds, LiveInv, LiveTypeOK, DoingTyped, LoadsAreTrue,
                  ShownIsTrue, SentIsQueued, StreamEndsWithPage
<1>3. CASE Clicked BY <1>1, <1>3, StartsInv, ActsInv DEF Clicked
<1>4. CASE Broken BY <1>1, <1>4, LinkMoves, RestartInv, LoseViewInv DEF Broken
<1>5. CASE Unbounded
      BY <1>1, <1>5, LinkMoves, LeaveInv, OpenViewInv, ReceiveInv, AnswersInv,
         ShowLoadInv, EndSubmitInv, ActsInv, SubmitsInv, PollsInv, OthersInv
         DEF Unbounded
<1> QED BY <1>1, <1>2, <1>3, <1>4, <1>5, FinishJobInv DEF LiveNext

\* The pages' state has its types.
THEOREM LiveTypes == LiveSpec => []LiveTypeOK
<1>1. LiveInv => LiveTypeOK BY DEF LiveInv
<1> QED BY <1>1, LiveStart, LiveStep, PTL DEF LiveSpec

\* What is shown as running runs, once all that has been told is shown.
THEOREM RunningRuns == LiveSpec => []RunningShownRuns
<1>1. LiveInv => RunningShownRuns
      BY DEF LiveInv, LiveTypeOK, ShownIsTrue, RunningShownRuns
<1> QED BY <1>1, LiveStart, LiveStep, PTL DEF LiveSpec

\* "Added to queue" is said of what has a row.
THEOREM SaidIsQueued == LiveSpec => []SuccessMeansQueued
<1>1. LiveInv => SuccessMeansQueued
      BY DEF LiveInv, SentIsQueued, SuccessMeansQueued
<1> QED BY <1>1, LiveStart, LiveStep, PTL DEF LiveSpec

\* No stream outlives its page.
THEOREM StreamsEnd == LiveSpec => []StreamEndsWithPage
<1>1. LiveInv => StreamEndsWithPage BY DEF LiveInv
<1> QED BY <1>1, LiveStart, LiveStep, PTL DEF LiveSpec

-----------------------------------------------------------------------------
(* History: the rows of the table, newest first.                           *)

\* Rows, each of another job of the filter.
LEMMA MatchingRows ==
    ASSUME job \in [JobIds -> {"none"} \cup Statuses], NEW f \in Filters
    PROVE  Matching(f) \in Seq(JobRows)
<1> DEFINE ids == {i \in JobIds : job[i] # "none" /\ (f = "all" \/ job[i] = f)}
           above(i) == {j \in ids : j > i}
           n == Cardinality(ids)
           nth == [k \in 1..n |-> CHOOSE i \in ids :
                                      Cardinality(above(i)) = k - 1]
<1>1. MaxJobs \in Nat /\ 1 \in Int /\ MaxJobs \in Int
  <2>1. MaxJobs \in Nat BY HistoryAssumption, Zenon
  <2> QED BY <2>1
<1>2. IsFiniteSet(ids) /\ n \in Nat
  <2>1. IsFiniteSet(JobIds) BY <1>1, FS_Interval DEF JobIds
  <2>2. ids \in SUBSET JobIds OBVIOUS
  <2> QED BY <2>1, <2>2, FS_Subset, FS_CardinalityType
<1>3. \A i \in ids : i \in Nat BY <1>1 DEF JobIds
<1>4. ASSUME NEW i \in ids
      PROVE  IsFiniteSet(above(i)) /\ Cardinality(above(i)) \in 0..n-1
  <2>1. above(i) \in SUBSET (ids \ {i}) BY <1>3
  <2>2. IsFiniteSet(ids \ {i}) /\ Cardinality(ids \ {i}) = n - 1
        BY <1>2, FS_RemoveElement
  <2>3. /\ IsFiniteSet(above(i)) /\ Cardinality(above(i)) <= n - 1
        /\ Cardinality(above(i)) \in Nat
        BY <2>1, <2>2, FS_Subset, FS_CardinalityType
  <2> QED BY <1>2, <2>3
<1>5. ASSUME NEW i \in ids, NEW k \in ids, i < k
      PROVE  Cardinality(above(i)) # Cardinality(above(k))
  <2>1. above(k) \in SUBSET above(i) /\ k \in above(i) /\ k \notin above(k)
        BY <1>3, <1>5
  <2> QED BY <1>4, <2>1, FS_Subset
<1>6. PICK g : g = [i \in ids |-> Cardinality(above(i))] OBVIOUS
<1>7. g \in Injection(ids, 0..n-1)
  <2>1. g \in [ids -> 0..n-1] BY <1>4, <1>6
  <2>2. \A i, k \in ids : g[i] = g[k] => i = k
    <3> SUFFICES ASSUME NEW i \in ids, NEW k \in ids, g[i] = g[k]
                 PROVE  i = k
        OBVIOUS
    <3>1. g[i] = Cardinality(above(i)) /\ g[k] = Cardinality(above(k)) BY <1>6
    <3>2. ~(i < k) /\ ~(k < i) BY <1>5, <3>1
    <3> QED BY <1>3, <3>2
  <2> QED BY <2>1, <2>2 DEF Injection, IsInjective
<1>8. g \in Surjection(ids, 0..n-1)
  <2>1. IsFiniteSet(0..n-1) /\ Cardinality(0..n-1) = n
    <3>1. 0 \in Int /\ n - 1 \in Int BY <1>2
    <3>2. /\ IsFiniteSet(0..n-1)
          /\ Cardinality(0..n-1) = IF 0 > n - 1 THEN 0 ELSE n - 1 - 0 + 1
          BY <3>1, FS_Interval
    <3> QED BY <1>2, <3>2
  <2> QED BY <1>7, <2>1, FS_Injection
<1>9. ASSUME NEW k \in 1..n PROVE nth[k] \in ids
  <2>1. k - 1 \in 0..n-1 BY <1>2
  <2>2. PICK i \in ids : g[i] = k - 1 BY <1>8, <2>1 DEF Surjection
  <2>3. Cardinality(above(i)) = k - 1 BY <1>6, <2>2
  <2>4. nth[k] = CHOOSE y \in ids : Cardinality(above(y)) = k - 1 OBVIOUS
  <2> HIDE DEF nth, above
  <2> QED BY <2>3, <2>4
<1>10. Matching(f) = [k \in 1..n |-> [id |-> nth[k], status |-> job[nth[k]]]]
       BY DEF Matching
<1>11. ASSUME NEW k \in 1..n
       PROVE  [id |-> nth[k], status |-> job[nth[k]]] \in JobRows
  <2>1. nth[k] \in ids BY <1>9
  <2> HIDE DEF nth
  <2> QED BY <2>1 DEF JobRows, Filters
<1> HIDE DEF nth, n
<1>12. [k \in 1..n |-> [id |-> nth[k], status |-> job[nth[k]]]] \in
           [1..n -> JobRows]
       BY <1>11
<1> QED BY <1>2, <1>10, <1>12, SeqDef

\* The rows stay while the table does.
LEMMA MatchingStays ==
    ASSUME job' = job PROVE \A f : Matching(f)' = Matching(f)
    BY DEF Matching

-----------------------------------------------------------------------------
(* History: what is shown.                                                 *)

Calls == [op : {"none", "load", "retry", "clear"},
          at : {"idle", "act", "ask", "answered"}, id : 0..MaxJobs,
          reset : BOOLEAN, filter : Filters, off : Nat,
          rows : Seq(JobRows), old : BOOLEAN]

\* A read that starts anew, under way.
Anew(t) == call[t].reset /\ call[t].at \in {"ask", "answered"}

\* What was read is what there is, or old; a read that starts anew starts at
\* the first row.
ReadsAreTrue ==
    \A t \in HistoryTasks :
        /\ Anew(t) => call[t].off = 0
        /\ call[t].at = "answered" /\ ~call[t].old =>
              call[t].rows = LimitOffset(Matching(call[t].filter), call[t].off)

\* The first rows of the table, and whether there are more.
ShowsTheFirst ==
    /\ offset = Len(jobs) /\ Len(jobs) <= Len(Matching(filter))
    /\ jobs = SubSeq(Matching(filter), 1, offset)
    /\ ~hasMore => offset = Len(Matching(filter))

ShownRowsAreTrue ==
    ~outdated /\ ~crossed => ShowsTheFirst \/ \E t \in HistoryTasks : Anew(t)

HistoryInv == HistoryTypeOK /\ ReadsAreTrue /\ ShownRowsAreTrue

\* One page of the rows, and the page after those that are shown.
LEMMA Pages ==
    ASSUME NEW s \in Seq(JobRows), NEW off \in Nat
    PROVE  LET p == LimitOffset(s, off) IN
           /\ p \in Seq(JobRows)
           /\ off = 0 => /\ p = SubSeq(s, 1, Len(p)) /\ Len(p) <= Len(s)
                         /\ Len(p) # PageSize => Len(p) = Len(s)
           /\ off <= Len(s) =>
                 LET q == SubSeq(s, 1, off) \o p IN
                 /\ q = SubSeq(s, 1, off + Len(p)) /\ off + Len(p) <= Len(s)
                 /\ Len(q) = off + Len(p)
                 /\ Len(p) # PageSize => off + Len(p) = Len(s)
<1>1. PageSize \in Nat \ {0} BY HistoryAssumption
<1>2. Len(s) \in Nat BY LenProperties
<1>3. PICK m : m = IF off + PageSize < Len(s) THEN off + PageSize ELSE Len(s)
      OBVIOUS
<1>4. m \in Nat /\ m <= Len(s) /\ m <= off + PageSize BY <1>1, <1>2, <1>3
<1>5. PICK p : p = SubSeq(s, off + 1, m) OBVIOUS
<1>6. p = LimitOffset(s, off) BY <1>3, <1>5 DEF LimitOffset
<1>7. \A a, b \in Int : a >= 1 /\ b <= Len(s) =>
          /\ SubSeq(s, a, b) \in Seq(JobRows)
          /\ Len(SubSeq(s, a, b)) = IF a <= b THEN b - a + 1 ELSE 0
  <2> SUFFICES ASSUME NEW a \in Int, NEW b \in Int, a >= 1, b <= Len(s)
               PROVE  /\ SubSeq(s, a, b) \in Seq(JobRows)
                      /\ Len(SubSeq(s, a, b)) = IF a <= b THEN b - a + 1 ELSE 0
      OBVIOUS
  <2>1. \A i \in a..b : s[i] \in JobRows
    <3> SUFFICES ASSUME NEW i \in a..b PROVE s[i] \in JobRows OBVIOUS
    <3>1. i \in 1..Len(s) BY <1>2
    <3> QED BY <3>1, ElementOfSeq
  <2> QED BY <2>1, SubSeqProperties
<1>8. /\ p \in Seq(JobRows)
      /\ Len(p) = IF off + 1 <= m THEN m - (off + 1) + 1 ELSE 0
      BY <1>4, <1>5, <1>7
<1>9. off <= Len(s) => /\ Len(p) = m - off /\ off <= m
                       /\ Len(p) # PageSize => m = Len(s)
      BY <1>1, <1>2, <1>3, <1>4, <1>8
<1>10. ASSUME off <= Len(s)
       PROVE  /\ SubSeq(s, 1, off) \o p = SubSeq(s, 1, off + Len(p))
              /\ off + Len(p) <= Len(s)
              /\ Len(SubSeq(s, 1, off) \o p) = off + Len(p)
              /\ Len(p) # PageSize => off + Len(p) = Len(s)
  <2>1. /\ 1 \in 1..Len(s) + 1 /\ off \in 1 - 1..Len(s) /\ m \in off..Len(s)
        BY <1>2, <1>4, <1>9, <1>10
  <2>2. SubSeq(s, 1, off) \o SubSeq(s, off + 1, m) = SubSeq(s, 1, m)
        BY <2>1, ConcatAdjacentSubSeq
  <2>3. Len(SubSeq(s, 1, m)) = IF 1 <= m THEN m - 1 + 1 ELSE 0
        BY <1>4, <1>7
  <2>4. off + Len(p) = m BY <1>4, <1>9, <1>10
  <2>5. Len(SubSeq(s, 1, m)) = m BY <1>4, <2>3
  <2> QED BY <1>4, <1>5, <1>9, <1>10, <2>2, <2>4, <2>5
<1>11. ASSUME off = 0
       PROVE  /\ p = SubSeq(s, 1, Len(p)) /\ Len(p) <= Len(s)
              /\ Len(p) # PageSize => Len(p) = Len(s)
  <2>1. Len(p) = m /\ (Len(p) # PageSize => m = Len(s))
        BY <1>2, <1>4, <1>9, <1>11
  <2>2. off + 1 = 1 BY <1>11
  <2> QED BY <1>4, <1>5, <2>1, <2>2
<1> QED BY <1>6, <1>8, <1>10, <1>11

\* Reads under way that get old.
LEMMA AgedCalls ==
    ASSUME call \in [HistoryTasks -> Calls]
    PROVE  /\ AgeAll(call) \in [HistoryTasks -> Calls]
           /\ \A u \in HistoryTasks :
                 LET c == AgeAll(call)[u] IN
                 /\ c.at = call[u].at /\ c.reset = call[u].reset
                 /\ c.off = call[u].off
                 /\ c.at = "answered" => c.old
<1> SUFFICES ASSUME NEW u \in HistoryTasks
             PROVE  LET c == IF call[u].at = "answered"
                             THEN [call[u] EXCEPT !.old = TRUE] ELSE call[u]
                    IN  /\ c \in Calls
                        /\ c.at = call[u].at /\ c.reset = call[u].reset
                        /\ c.off = call[u].off
                        /\ c.at = "answered" => c.old
    BY DEF AgeAll
<1>1. call[u] \in Calls OBVIOUS
<1>2. PICK c : c = [call[u] EXCEPT !.old = TRUE] OBVIOUS
<1>3. /\ c \in Calls /\ c.at = call[u].at /\ c.reset = call[u].reset
      /\ c.off = call[u].off /\ c.old
      BY <1>1, <1>2 DEF Calls
<1> QED BY <1>1, <1>2, <1>3

\* What is under way, and what is not.
LEMMA CallKinds ==
    /\ NoCall \in Calls /\ NoCall.at = "idle"
    /\ \A f \in Filters, o \in Nat :
          /\ LET c == Load(TRUE, f, o)
             IN  c \in Calls /\ c.at = "ask" /\ c.reset = TRUE /\ c.off = 0
          /\ LET c == Load(FALSE, f, o)
             IN  c \in Calls /\ c.at = "ask" /\ c.reset = FALSE
<1>1. MaxJobs \in Nat BY HistoryAssumption
<1>2. NoCall \in Calls /\ NoCall.at = "idle"
      BY <1>1, EmptySeq DEF NoCall, Calls, Filters
<1>3. ASSUME NEW f \in Filters, NEW o \in Nat
      PROVE  LET c == Load(TRUE, f, o)
             IN  c \in Calls /\ c.at = "ask" /\ c.reset = TRUE /\ c.off = 0
  <2>1. PICK c : c = [NoCall EXCEPT !.op = "load", !.at = "ask",
                          !.reset = TRUE, !.filter = f, !.off = 0]
        OBVIOUS
  <2>2. c \in Calls /\ c.at = "ask" /\ c.reset = TRUE /\ c.off = 0
        BY <1>2, <2>1 DEF Calls
  <2>3. c = Load(TRUE, f, o) BY <2>1 DEF Load
  <2> QED BY <2>2, <2>3
<1>4. ASSUME NEW f \in Filters, NEW o \in Nat
      PROVE  LET c == Load(FALSE, f, o)
             IN  c \in Calls /\ c.at = "ask" /\ c.reset = FALSE
  <2>1. PICK c : c = [NoCall EXCEPT !.op = "load", !.at = "ask",
                          !.reset = FALSE, !.filter = f, !.off = o]
        OBVIOUS
  <2>2. c \in Calls /\ c.at = "ask" /\ c.reset = FALSE
        BY <1>2, <2>1 DEF Calls
  <2>3. c = Load(FALSE, f, o) BY <2>1 DEF Load
  <2> QED BY <2>2, <2>3
<1> QED BY <1>2, <1>3, <1>4

\* The types of the invariant, in one place.
LEMMA HistoryTypes0 ==
    ASSUME HistoryInv
    PROVE  /\ call \in [HistoryTasks -> Calls] /\ jobs \in Seq(JobRows)
           /\ job \in [JobIds -> {"none"} \cup Statuses]
           /\ offset \in Nat /\ filter \in Filters /\ hasMore \in BOOLEAN
           /\ changes \in 0..MaxChanges /\ clearing \in BOOLEAN
           /\ outdated \in BOOLEAN /\ crossed \in BOOLEAN
    BY DEF HistoryInv, HistoryTypeOK, Calls

\* A task goes on while the table and what is shown stay; a read that starts
\* anew is given up only by a page that says so.
LEMMA CallMoves ==
    ASSUME HistoryInv, NEW t \in HistoryTasks, NEW x \in Calls,
           call' = [call EXCEPT ![t] = x],
           UNCHANGED <<job, changes, jobs, offset, hasMore, crossed>>,
           filter' \in Filters, clearing' \in BOOLEAN, outdated' \in BOOLEAN,
           x.reset /\ x.at \in {"ask", "answered"} => x.off = 0,
           x.at = "answered" /\ ~x.old =>
               x.rows = LimitOffset(Matching(x.filter), x.off),
           outdated => outdated',
           \/ x.reset /\ x.at \in {"ask", "answered"}
           \/ filter' = filter /\ (outdated' \/ ~Anew(t))
    PROVE  HistoryInv'
<1>1. /\ call' \in [HistoryTasks -> Calls] /\ call'[t] = x
      /\ \A u \in HistoryTasks \ {t} : call'[u] = call[u]
      BY HistoryTypes0
<1>2. \A f : Matching(f)' = Matching(f) BY MatchingStays
<1>3. HistoryTypeOK'
      BY <1>1, HistoryTypes0 DEF HistoryTypeOK, Calls
<1>4. ReadsAreTrue'
  <2> SUFFICES ASSUME NEW u \in HistoryTasks
               PROVE  /\ Anew(u)' => call'[u].off = 0
                      /\ call'[u].at = "answered" /\ ~call'[u].old =>
                            call'[u].rows =
                               LimitOffset(Matching(call[u].filter)',
                                           call'[u].off)
      BY DEF ReadsAreTrue, LimitOffset
  <2>1. Matching(call[u].filter)' = Matching(call'[u].filter)
        BY <1>2 DEF Matching
  <2>2. CASE u = t BY <1>1, <2>1, <2>2 DEF Anew
  <2>3. CASE u # t
    <3>1. call'[u] = call[u] BY <1>1, <2>3
    <3> QED BY <2>1, <3>1 DEF HistoryInv, ReadsAreTrue, Anew
  <2> QED BY <2>2, <2>3
<1>5. ShownRowsAreTrue'
  <2>1. CASE x.reset /\ x.at \in {"ask", "answered"}
        BY <1>1, <2>1 DEF ShownRowsAreTrue, Anew
  <2>2. CASE filter' = filter /\ (outdated' \/ ~Anew(t))
    <3>1. Matching(filter)' = Matching(filter) BY <2>2 DEF Matching
    <3>2. ShowsTheFirst' <=> ShowsTheFirst BY <2>2, <3>1 DEF ShowsTheFirst
    <3>3. \A u \in HistoryTasks : Anew(u) /\ u # t => Anew(u)'
          BY <1>1 DEF Anew
    <3> QED BY <2>2, <3>2, <3>3 DEF HistoryInv, ShownRowsAreTrue
  <2> QED BY <2>1, <2>2
<1> QED BY <1>3, <1>4, <1>5 DEF HistoryInv


\* The table changes: what was read is old, and the page reads anew or says
\* that it is.
LEMMA TableMoves ==
    ASSUME HistoryInv, call' \in [HistoryTasks -> Calls],
           job' \in [JobIds -> {"none"} \cup Statuses],
           changes' \in 0..MaxChanges, clearing' \in BOOLEAN,
           UNCHANGED <<jobs, offset, hasMore, filter, crossed>>,
           outdated' \in BOOLEAN,
           \A u \in HistoryTasks :
               /\ call'[u].at = "answered" => call'[u].old
               /\ Anew(u)' => call'[u].off = 0,
           outdated' \/ \E u \in HistoryTasks : Anew(u)'
    PROVE  HistoryInv'
<1>1. HistoryTypeOK' BY HistoryTypes0 DEF HistoryTypeOK, Calls
<1>2. ReadsAreTrue' BY DEF ReadsAreTrue
<1>3. ShownRowsAreTrue' BY DEF ShownRowsAreTrue
<1> QED BY <1>1, <1>2, <1>3 DEF HistoryInv

\* The page is opened.
LEMMA OpenHistoryInv ==
    ASSUME HistoryInv, NEW t \in HistoryTasks, OpenHistory(t)
    PROVE  HistoryInv'
<1>1. PICK x : x = Load(TRUE, "all", 0) OBVIOUS
<1>2. x \in Calls /\ x.at = "ask" /\ x.off = 0
      BY <1>1, CallKinds DEF Filters
<1>3. /\ job' = job /\ changes' = changes /\ jobs' = <<>> /\ offset' = 0
      /\ hasMore' = TRUE /\ filter' = "all" /\ clearing' = FALSE
      /\ outdated' = TRUE /\ crossed' = FALSE
      /\ call' = [call EXCEPT ![t] = x]
      /\ \A u \in HistoryTasks : call[u].at = "idle"
      BY <1>1 DEF OpenHistory, Free, historyTable
<1>4. /\ call' \in [HistoryTasks -> Calls] /\ call'[t] = x
      /\ \A u \in HistoryTasks \ {t} : call'[u].at = "idle"
      BY <1>2, <1>3, HistoryTypes0
<1>5. jobs' \in Seq(JobRows) BY <1>3, EmptySeq
<1>6. HistoryTypeOK'
      BY <1>3, <1>4, <1>5, HistoryTypes0 DEF HistoryTypeOK, Calls, Filters
<1>7. ReadsAreTrue' BY <1>2, <1>4 DEF ReadsAreTrue, Anew
<1>8. ShownRowsAreTrue' BY <1>3 DEF ShownRowsAreTrue
<1> QED BY <1>6, <1>7, <1>8 DEF HistoryInv

\* A read is answered.
LEMMA AnswerLoadInv ==
    ASSUME HistoryInv, NEW t \in HistoryTasks, AnswerLoad(t)
    PROVE  HistoryInv'
<1>1. PICK r : r = LimitOffset(Matching(call[t].filter), call[t].off) OBVIOUS
<1>2. PICK x : x = [call[t] EXCEPT !.at = "answered", !.rows = r] OBVIOUS
<1>3. call[t] \in Calls BY HistoryTypes0
<1>4. r \in Seq(JobRows)
  <2>1. call[t].filter \in Filters /\ call[t].off \in Nat BY <1>3 DEF Calls
  <2> QED BY <1>1, <2>1, HistoryTypes0, MatchingRows, Pages
<1>5. /\ x \in Calls /\ x.at = "answered" /\ x.rows = r
      /\ x.reset = call[t].reset /\ x.filter = call[t].filter
      /\ x.off = call[t].off
      BY <1>2, <1>3, <1>4 DEF Calls
<1>6. /\ call[t].at = "ask" /\ call' = [call EXCEPT ![t] = x]
      /\ UNCHANGED <<job, changes, jobs, offset, hasMore, filter, clearing,
                     outdated, crossed>>
      BY <1>1, <1>2, HistoryTypes0
         DEF AnswerLoad, historyTable, historyPage
<1>7. x.reset => x.off = 0
      BY <1>5, <1>6 DEF HistoryInv, ReadsAreTrue, Anew
<1>8. x.reset \/ ~Anew(t) BY <1>5 DEF Anew
<1> QED BY <1>1, <1>5, <1>6, <1>7, <1>8, HistoryTypes0, CallMoves

\* What was read is shown.
LEMMA ShowPageInv ==
    ASSUME HistoryInv, NEW t \in HistoryTasks, ShowPage(t)
    PROVE  HistoryInv'
<1>1. PICK c : c = call[t] OBVIOUS
<1>2. /\ c \in Calls /\ c.rows \in Seq(JobRows) /\ c.off \in Nat
      /\ c.reset \in BOOLEAN /\ c.old \in BOOLEAN /\ Len(c.rows) \in Nat
      /\ c.filter \in Filters
      BY <1>1, HistoryTypes0, LenProperties DEF Calls
<1>3. /\ c.at = "answered" /\ call' = [call EXCEPT ![t] = NoCall]
      /\ hasMore' = (Len(c.rows) = PageSize)
      /\ UNCHANGED <<job, changes, filter, clearing>>
      /\ c.reset => jobs' = c.rows /\ offset' = Len(c.rows)
      /\ ~c.reset => jobs' = jobs \o c.rows /\ offset' = offset + Len(c.rows)
      BY <1>1 DEF ShowPage, historyTable
<1>4. /\ outdated' = (c.old \/ (~c.reset /\ outdated))
      /\ crossed' = ((c.filter # filter \/ (~c.reset /\ c.off # offset))
                     \/ (~c.reset /\ crossed))
      BY <1>1 DEF ShowPage
<1>5. /\ call' \in [HistoryTasks -> Calls] /\ call'[t].at = "idle"
      /\ \A u \in HistoryTasks \ {t} : call'[u] = call[u]
      BY <1>3, CallKinds, HistoryTypes0
<1>6. jobs' \in Seq(JobRows) /\ offset' \in Nat
  <2>1. CASE c.reset BY <1>2, <1>3, <2>1
  <2>2. CASE ~c.reset
    <3>1. jobs \in Seq(JobRows) /\ offset \in Nat BY HistoryTypes0
    <3>2. jobs \o c.rows \in Seq(JobRows) BY <1>2, <3>1, ConcatProperties
    <3>3. offset + Len(c.rows) \in Nat BY <1>2, <3>1
    <3> QED BY <1>3, <2>2, <3>2, <3>3
  <2> QED BY <2>1, <2>2
<1>7. outdated' \in BOOLEAN /\ crossed' \in BOOLEAN /\ hasMore' \in BOOLEAN
      BY <1>3, <1>4
<1>8. HistoryTypeOK'
      BY <1>3, <1>5, <1>6, <1>7, HistoryTypes0 DEF HistoryTypeOK, Calls
<1>9. ReadsAreTrue'
  <2> SUFFICES ASSUME NEW u \in HistoryTasks, call'[u].at # "idle"
               PROVE  /\ Anew(u)' => call'[u].off = 0
                      /\ call'[u].at = "answered" /\ ~call'[u].old =>
                            call'[u].rows =
                               LimitOffset(Matching(call[u].filter)',
                                           call'[u].off)
      BY DEF ReadsAreTrue, LimitOffset, Anew
  <2>1. call'[u] = call[u] BY <1>5
  <2>2. Matching(call[u].filter)' = Matching(call'[u].filter)
        BY <1>3 DEF Matching
  <2> QED BY <2>1, <2>2 DEF HistoryInv, ReadsAreTrue, Anew
<1>10. ShownRowsAreTrue'
  <2> SUFFICES ASSUME ~outdated', ~crossed'
               PROVE  ShowsTheFirst' \/ \E u \in HistoryTasks : Anew(u)'
      BY DEF ShownRowsAreTrue
  <2>1. /\ ~c.old /\ c.filter = filter
        /\ ~c.reset => ~outdated /\ ~crossed /\ c.off = offset
        BY <1>2, <1>4
  <2>2. PICK s : s = Matching(filter) OBVIOUS
  <2>3. /\ s \in Seq(JobRows) /\ Matching(filter)' = s
        /\ c.rows = LimitOffset(s, c.off)
    <3>1. Matching(filter)' = Matching(filter) BY <1>3 DEF Matching
    <3>2. c.rows = LimitOffset(Matching(c.filter), c.off)
          BY <1>1, <1>3, <2>1 DEF HistoryInv, ReadsAreTrue
    <3> QED BY <2>1, <2>2, <3>1, <3>2, HistoryTypes0, MatchingRows
  <2>4. ASSUME jobs' = SubSeq(s, 1, offset'), offset' = Len(jobs'),
               offset' <= Len(s), ~hasMore' => offset' = Len(s)
        PROVE  ShowsTheFirst'
        BY <2>3, <2>4 DEF ShowsTheFirst
  <2>5. CASE c.reset
    <3>1. c.off = 0 BY <1>1, <1>3, <2>5 DEF HistoryInv, ReadsAreTrue, Anew
    <3>2. /\ c.rows = SubSeq(s, 1, Len(c.rows)) /\ Len(c.rows) <= Len(s)
          /\ Len(c.rows) # PageSize => Len(c.rows) = Len(s)
          BY <1>2, <2>3, <3>1, Pages
    <3> QED BY <1>3, <2>4, <2>5, <3>2
  <2>6. CASE ~c.reset
    <3>1. CASE ShowsTheFirst
      <4>1. /\ offset \in Nat /\ offset <= Len(s)
            /\ jobs = SubSeq(s, 1, offset) /\ c.off = offset
            BY <2>1, <2>2, <2>6, <3>1, HistoryTypes0 DEF ShowsTheFirst
      <4>2. LET q == SubSeq(s, 1, c.off) \o LimitOffset(s, c.off)
                p == LimitOffset(s, c.off)
            IN  /\ q = SubSeq(s, 1, c.off + Len(p)) /\ c.off + Len(p) <= Len(s)
                /\ Len(q) = c.off + Len(p)
                /\ Len(p) # PageSize => c.off + Len(p) = Len(s)
            BY <1>2, <2>3, <4>1, Pages
      <4>3. /\ jobs' = SubSeq(s, 1, offset') /\ offset' <= Len(s)
            /\ Len(jobs') = offset'
            /\ Len(c.rows) # PageSize => offset' = Len(s)
            BY <1>3, <2>3, <2>6, <4>1, <4>2
      <4> QED BY <1>3, <2>4, <4>3
    <3>2. CASE \E u \in HistoryTasks : Anew(u)
      <4>1. PICK u \in HistoryTasks : Anew(u) BY <3>2
      <4>2. u # t BY <1>1, <2>6, <4>1 DEF Anew
      <4>3. call'[u] = call[u] BY <1>5, <4>2
      <4> QED BY <4>1, <4>3 DEF Anew
    <3> QED BY <2>1, <2>6, <3>1, <3>2 DEF HistoryInv, ShownRowsAreTrue
  <2> QED BY <1>2, <2>5, <2>6
<1> QED BY <1>8, <1>9, <1>10 DEF HistoryInv

\* The other steps of a task that leave the table alone.
LEMMA ClicksInv ==
    ASSUME HistoryInv, NEW t \in HistoryTasks,
           \/ LoseLoad(t) \/ PickFilter(t) \/ LoadMore(t) \/ ClickRetry(t)
           \/ ClickClear(t)
    PROVE  HistoryInv'
<1>1. /\ UNCHANGED <<job, changes, jobs, offset, hasMore, crossed>>
      BY DEF LoseLoad, PickFilter, LoadMore, ClickRetry, ClickClear,
             historyTable, historyPage
<1>2. call[t] \in Calls /\ call[t].reset \in BOOLEAN
      BY HistoryTypes0 DEF Calls
<1>3. CASE LoseLoad(t)
  <2>1. /\ call' = [call EXCEPT ![t] = NoCall]
        /\ outdated' = (outdated \/ call[t].reset)
        /\ UNCHANGED <<filter, clearing>>
        BY <1>3 DEF LoseLoad, historyPage
  <2>2. /\ outdated' \in BOOLEAN /\ (outdated => outdated')
        /\ outdated' \/ ~Anew(t)
        BY <1>2, <2>1 DEF Anew
  <2> QED BY <1>1, <2>1, <2>2, CallKinds, CallMoves, HistoryTypes0
<1>4. CASE PickFilter(t)
  <2>1. PICK f \in Filters : /\ filter' = f
                             /\ call' = [call EXCEPT ![t] =
                                            Load(TRUE, f, offset)]
                             /\ UNCHANGED <<clearing, outdated>>
        BY <1>4 DEF PickFilter
  <2>2. PICK x : x = Load(TRUE, f, offset) OBVIOUS
  <2>3. x \in Calls /\ x.at = "ask" /\ x.reset /\ x.off = 0
        BY <2>2, CallKinds, HistoryTypes0
  <2> QED BY <1>1, <2>1, <2>2, <2>3, CallMoves, HistoryTypes0
<1>5. CASE LoadMore(t)
  <2>1. /\ call' = [call EXCEPT ![t] = Load(FALSE, filter, offset)]
        /\ UNCHANGED <<filter, clearing, outdated>> /\ call[t].at = "idle"
        BY <1>5 DEF LoadMore, Free, historyPage
  <2>2. PICK x : x = Load(FALSE, filter, offset) OBVIOUS
  <2>3. x \in Calls /\ x.at = "ask" /\ ~x.reset /\ ~Anew(t)
        BY <2>1, <2>2, CallKinds, HistoryTypes0 DEF Anew
  <2> QED BY <1>1, <2>1, <2>2, <2>3, CallMoves, HistoryTypes0
<1>6. CASE ClickRetry(t) \/ ClickClear(t)
  <2>1. /\ call[t].at = "idle" /\ UNCHANGED <<filter, outdated>>
        /\ clearing' \in BOOLEAN
        BY <1>6, HistoryTypes0
           DEF ClickRetry, ClickClear, Free, historyPage
  <2>2. PICK x \in Calls : x.at = "act" /\ call' = [call EXCEPT ![t] = x]
    <3>1. CASE ClickRetry(t)
      <4>1. PICK k \in DOMAIN jobs :
                call' = [call EXCEPT ![t] = [NoCall EXCEPT !.op = "retry",
                            !.at = "act", !.id = jobs[k].id, !.filter = filter]]
            BY <3>1 DEF ClickRetry
      <4>2. jobs[k].id \in 0..MaxJobs
        <5>1. jobs[k] \in JobRows
          <6>1. jobs \in Seq(JobRows) BY HistoryTypes0
          <6>2. k \in 1..Len(jobs) BY <6>1, LenProperties
          <6> QED BY <6>1, <6>2, ElementOfSeq
        <5>2. MaxJobs \in Nat BY HistoryAssumption
        <5> QED BY <5>1, <5>2 DEF JobRows, JobIds
      <4>3. PICK x : x = [NoCall EXCEPT !.op = "retry", !.at = "act",
                              !.id = jobs[k].id, !.filter = filter]
            OBVIOUS
      <4>4. x \in Calls /\ x.at = "act"
            BY <4>2, <4>3, CallKinds, HistoryTypes0 DEF Calls
      <4> QED BY <4>1, <4>3, <4>4
    <3>2. CASE ClickClear(t)
      <4>1. PICK x : x = [NoCall EXCEPT !.op = "clear", !.at = "act",
                                        !.filter = filter]
            OBVIOUS
      <4>2. x \in Calls /\ x.at = "act"
            BY <4>1, CallKinds, HistoryTypes0 DEF Calls
      <4> QED BY <3>2, <4>1, <4>2 DEF ClickClear
    <3> QED BY <1>6, <3>1, <3>2
  <2>3. ~Anew(t) BY <2>1 DEF Anew
  <2> QED BY <1>1, <2>1, <2>2, <2>3, CallMoves, HistoryTypes0
<1> QED BY <1>3, <1>4, <1>5, <1>6

\* A retry and a clear, carried out or not.
LEMMA ActsOnTable ==
    ASSUME HistoryInv, NEW t \in HistoryTasks, ActRetry(t) \/ ActClear(t)
    PROVE  HistoryInv'
<1>1. /\ UNCHANGED <<jobs, offset, hasMore, filter, crossed>>
      /\ call[t].at = "act" /\ clearing' \in BOOLEAN
      BY HistoryTypes0 DEF ActRetry, ActClear, historyPage
<1>2. CASE call' = [call EXCEPT ![t] = NoCall]
           /\ UNCHANGED <<job, changes, outdated>>
  <2>1. ~Anew(t) BY <1>1 DEF Anew
  <2> QED BY <1>1, <1>2, <2>1, CallKinds, CallMoves, HistoryTypes0
<1>3. CASE \E ok \in BOOLEAN :
               /\ call' = [AgeAll(call) EXCEPT ![t] = AfterAct(t, ok)]
               /\ outdated' = (outdated \/ ~ok)
  <2>1. PICK ok \in BOOLEAN :
               /\ call' = [AgeAll(call) EXCEPT ![t] = AfterAct(t, ok)]
               /\ outdated' = (outdated \/ ~ok)
        BY <1>3
  <2>2. PICK x : x = AfterAct(t, ok) OBVIOUS
  <2>3. /\ x \in Calls /\ x.at \in {"idle", "ask"}
        /\ x.at = "ask" => x.off = 0
        /\ ok => x.at = "ask" /\ x.reset
    <3>1. call[t].filter \in Filters BY HistoryTypes0 DEF Calls
    <3> QED BY <2>2, <3>1, CallKinds DEF AfterAct
  <2>4. /\ call' \in [HistoryTasks -> Calls] /\ call'[t] = x
        /\ \A u \in HistoryTasks \ {t} : call'[u] = AgeAll(call)[u]
        BY <2>1, <2>2, <2>3, AgedCalls, HistoryTypes0
  <2>5. ASSUME NEW u \in HistoryTasks
        PROVE  /\ call'[u].at = "answered" => call'[u].old
               /\ Anew(u)' => call'[u].off = 0
    <3>1. CASE u = t BY <2>3, <2>4, <3>1 DEF Anew
    <3>2. CASE u # t
      <4>1. call'[u] = AgeAll(call)[u] BY <2>4, <3>2
      <4> QED BY <4>1, AgedCalls, HistoryTypes0
              DEF HistoryInv, ReadsAreTrue, Anew
    <3> QED BY <3>1, <3>2
  <2>6. outdated' \in BOOLEAN /\ (outdated' \/ Anew(t)')
        BY <2>1, <2>3, <2>4, HistoryTypes0 DEF Anew
  <2>7. /\ job' \in [JobIds -> {"none"} \cup Statuses]
        /\ changes' \in 0..MaxChanges
    <3>1. /\ job \in [JobIds -> {"none"} \cup Statuses]
          /\ changes \in 0..MaxChanges /\ MaxChanges \in Nat
          BY HistoryTypes0, HistoryAssumption
    <3>2. CASE ActRetry(t)
      <4>1. /\ job' = job \/ job' = [job EXCEPT ![call[t].id] = "active"]
            /\ \/ changes' = changes
               \/ changes < MaxChanges /\ changes' = changes + 1
            BY <3>2 DEF ActRetry
      <4>2. changes' \in 0..MaxChanges BY <3>1, <4>1
      <4> QED BY <3>1, <4>1, <4>2 DEF Statuses
    <3>3. CASE ActClear(t)
      <4>1. Cleared \in [JobIds -> {"none"} \cup Statuses]
            BY <3>1 DEF Cleared
      <4> QED BY <3>1, <3>3, <4>1 DEF ActClear
    <3> QED BY <3>2, <3>3
  <2> QED BY <1>1, <2>4, <2>5, <2>6, <2>7, TableMoves
<1> QED BY <1>2, <1>3 DEF ActRetry, ActClear

\* Jobs are enqueued and end.
LEMMA JobsElsewhereInv ==
    ASSUME HistoryInv, JobsElsewhere PROVE HistoryInv'
<1>1. /\ UNCHANGED <<jobs, offset, hasMore, filter, clearing, crossed>>
      /\ call' = AgeAll(call) /\ outdated' = TRUE
      BY DEF JobsElsewhere, historyPage
<1>2. job' \in [JobIds -> {"none"} \cup Statuses]
      BY HistoryTypes0 DEF JobsElsewhere
<1>3. changes' \in 0..MaxChanges
  <2>1. MaxChanges \in Nat /\ changes \in 0..MaxChanges
        BY HistoryAssumption, HistoryTypes0
  <2> QED BY <2>1 DEF JobsElsewhere
<1>4. \A u \in HistoryTasks :
          /\ call'[u].at = "answered" => call'[u].old
          /\ Anew(u)' => call'[u].off = 0
      BY <1>1, AgedCalls, HistoryTypes0 DEF HistoryInv, ReadsAreTrue, Anew
<1> QED BY <1>1, <1>2, <1>3, <1>4, AgedCalls, HistoryTypes0, TableMoves

\* The page starts so.
LEMMA HistoryStart == HistoryInit => HistoryInv
<1> SUFFICES ASSUME HistoryInit PROVE HistoryInv OBVIOUS
<1>1. /\ call \in [HistoryTasks -> Calls]
      /\ \A t \in HistoryTasks : call[t].at = "idle"
      BY CallKinds DEF HistoryInit
<1>2. job \in [JobIds -> {"none"} \cup Statuses]
      BY JobTablesAssumption DEF HistoryInit
<1>3. changes \in 0..MaxChanges
  <2>1. MaxChanges \in Nat BY HistoryAssumption
  <2> QED BY <2>1 DEF HistoryInit
<1>4. jobs \in Seq(JobRows) BY EmptySeq DEF HistoryInit
<1>5. HistoryTypeOK
      BY <1>1, <1>2, <1>3, <1>4 DEF HistoryInit, HistoryTypeOK, Calls, Filters
<1> QED BY <1>1, <1>5
        DEF HistoryInit, HistoryInv, ReadsAreTrue, ShownRowsAreTrue, Anew

\* Every step keeps it.
LEMMA HistoryStep == HistoryInv /\ [HistoryNext]_historyVars => HistoryInv'
<1> SUFFICES ASSUME HistoryInv, [HistoryNext]_historyVars PROVE HistoryInv'
    OBVIOUS
<1>1. CASE UNCHANGED historyVars
  <2>1. UNCHANGED <<job, changes, jobs, offset, hasMore, filter, clearing,
                    call, outdated, crossed>>
        BY <1>1 DEF historyVars, historyTable, historyPage
  <2>2. PICK t \in HistoryTasks : TRUE BY HistoryAssumption
  <2>3. call' = [call EXCEPT ![t] = call[t]] BY <2>1, HistoryTypes0
  <2>4. call[t] \in Calls BY HistoryTypes0
  <2> QED BY <2>1, <2>3, <2>4, CallMoves, HistoryTypes0
          DEF HistoryInv, ReadsAreTrue, Anew
<1> QED BY <1>1, OpenHistoryInv, AnswerLoadInv, ShowPageInv, ClicksInv,
           ActsOnTable, JobsElsewhereInv
        DEF HistoryNext

\* The page's state has its types.
THEOREM HistoryTypes == HistorySpec => []HistoryTypeOK
<1>1. HistoryInv => HistoryTypeOK BY DEF HistoryInv
<1> QED BY <1>1, HistoryStart, HistoryStep, PTL DEF HistorySpec

\* A quiet page shows the first rows of the table, each once.
THEOREM QuietHistory == HistorySpec => []QuietHistoryIsTrue
<1>1. HistoryInv => QuietHistoryIsTrue
      BY DEF HistoryInv, ShownRowsAreTrue, ShowsTheFirst, Anew,
             QuietHistoryIsTrue, Free
<1> QED BY <1>1, HistoryStart, HistoryStep, PTL DEF HistorySpec

-----------------------------------------------------------------------------
(* The client: its pages together.                                         *)

\* The pages of a client leave each other alone: each behaves as it would by
\* itself.
THEOREM PagesAreApart ==
    ClientSpec => /\ ReviewSpec /\ HistorySpec /\ DirSpec /\ PickerSpec
                  /\ SettingsSpec /\ SessionSpec
<1>1. ClientInit => /\ ReviewInit /\ HistoryInit /\ DirInit /\ PickerInit
                    /\ SettingsInit /\ SessionInit
      BY DEF ClientInit
<1>2. [ClientNext]_clientVars => /\ [ReviewNext]_reviewVars
                                 /\ [HistoryNext]_historyVars
                                 /\ [DirNext]_dirVars /\ [PickerNext]_pickVars
                                 /\ [SettingsNext]_settingsVars
                                 /\ [SessionNext]_sessionVars
      BY DEF ClientNext, clientVars, OnReview, OnHistory, OnDirectories,
             OnQueue, OnPicker, OnSettings, OnSession
<1> QED BY <1>1, <1>2, PTL DEF ClientSpec, ReviewSpec, HistorySpec, DirSpec,
                               PickerSpec, SettingsSpec, SessionSpec

\* The live pages, of which a client asks no fairness.
LEMMA LiveViewsOfClient == ClientSpec => []LiveInv
<1>1. ClientInit => LiveInit BY DEF ClientInit
<1>2. [ClientNext]_clientVars => [LiveNext]_liveVars
      BY DEF ClientNext, clientVars, OnReview, OnHistory, OnDirectories,
             OnQueue, OnPicker, OnSettings, OnSession
<1> QED BY <1>1, <1>2, LiveStart, LiveStep, PTL DEF ClientSpec

\* Every variable of a client keeps its type, whatever page it is on.
THEOREM ClientTypes == ClientSpec => []ClientTypeOK
<1> DEFINE OnPart == openPage \in ClientParts
<1>1. ClientInit => OnPart BY DEF ClientInit
<1>2. OnPart /\ [ClientNext]_clientVars => OnPart'
      BY DEF ClientNext, clientVars
<1>3. /\ OnPart /\ LiveInv
      /\ ReviewTypeOK /\ HistoryTypeOK /\ DirTypeOK /\ PickerTypeOK
      /\ ConfTypeOK /\ SettingsTypeOK /\ SessionTypeOK
      => ClientTypeOK
      BY DEF ClientParts, ClientTypeOK, LiveInv
<1>4. ClientSpec => /\ []ReviewTypeOK /\ []HistoryTypeOK /\ []DirTypeOK
                    /\ []PickerTypeOK /\ [](ConfTypeOK /\ SettingsTypeOK)
                    /\ []SessionTypeOK
      BY PagesAreApart, ReviewTypes, HistoryTypes, DirectoriesTypes,
         PickerTypes, SettingsTypes, SessionTypes
<1> HIDE DEF OnPart
<1> QED BY <1>1, <1>2, <1>3, <1>4, LiveViewsOfClient, PTL DEF ClientSpec

\* The lists of a client, whatever page it is on.
THEOREM ClientLists ==
    ClientSpec => [](/\ RequestsNameWhatWasSeen /\ HiddenTicksAreSpent
                     /\ QuietReviewIsTrue /\ QuietHistoryIsTrue
                     /\ QuietDirectoriesAreTrue
                     /\ LoadingEnds /\ TicksAreShown)
BY PagesAreApart, RequestsAreMeant, HiddenTicksAreNothing, QuietIsTrue,
   QuietHistory, QuietDirectories, LoadingIsLoading, TicksAreOfTheList, PTL

\* Its forms, and the configuration file they end up in.
THEOREM ClientForms ==
    ClientSpec => [](/\ CleanMeansSaved /\ QuietSettingsAreTrue
                     /\ FileIsMemory /\ FileStarts)
BY PagesAreApart, NothingIsLost, FormsAreCurrent, FileFollowsMemory,
   WrittenFilesStart, PTL

\* What no step of a client does: change fields of a directory that its user
\* left alone, end a session that is still good.
THEOREM ClientSteps == ClientSpec => EditKeepsTheRest /\ GoodTokenIsKept
BY PagesAreApart, EditsKeepTheRest, SessionsLast, PTL

\* Its live pages, of which no fairness is asked.
THEOREM ClientLiveViews ==
    ClientSpec => [](RunningShownRuns /\ SuccessMeansQueued
                     /\ StreamEndsWithPage)
<1>1. LiveInv => RunningShownRuns /\ SuccessMeansQueued /\ StreamEndsWithPage
      BY DEF LiveInv, LiveTypeOK, ShownIsTrue, RunningShownRuns, SentIsQueued,
             SuccessMeansQueued
<1> QED BY <1>1, LiveViewsOfClient, PTL
=============================================================================
