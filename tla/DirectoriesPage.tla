-------------------------- MODULE DirectoriesPage --------------------------
(***************************************************************************)
(* The Directories page of the web client (pages/Directories.tsx): the     *)
(* list, a card that edits one row in place and a form that adds several,  *)
(* over the directories table that other clients change as well. The       *)
(* settings of a directory are one number, its age in days; 0 means the    *)
(* same for all of them, every file qualifies.                             *)
(***************************************************************************)
EXTENDS Naturals, FiniteSets

CONSTANTS
    DirTasks,       \* loads and handlers that may be under way at a time
    DirPaths,       \* the paths there are
    Ages,           \* the ages a user may type
    DefaultAge,     \* min_age_days where none is given
    FirstDirs,      \* the tables there may be when the page is opened
    MaxDirs,        \* bound on the directories ever added
    MaxDirSteps     \* bound on the handlers started here and the changes
                    \* made elsewhere

DirIds == 1..MaxDirs
NoDir  == 0
Row(p, a) == [path |-> p, age |-> a]
NoRow  == [path |-> "", age |-> 0]
DirRows == [path : DirPaths, age : Ages \cup {DefaultAge}]

ASSUME DirectoriesAssumption ==
    /\ IsFiniteSet(DirTasks) /\ DirTasks # {}
    /\ IsFiniteSet(DirPaths) /\ "" \notin DirPaths
    /\ DefaultAge \in Nat \ {0} /\ Ages \subseteq Nat
    /\ MaxDirs \in Nat /\ MaxDirSteps \in Nat
    /\ FirstDirs \subseteq [DirIds -> DirRows \cup {NoRow}]

VARIABLES
    directory,  \* the directories table
    lastDir,    \* the last id given out
    dirSteps,   \* handlers started and changes made elsewhere so far
    dirs,       \* the rows shown: a table without what is not listed
    editing,    \* editingId
    card,       \* the EditCard on the screen
    dirForm,    \* the add form
    dirTask,    \* per task: what it is about and how far it is
    dirOld      \* history: what is shown misses a change made elsewhere, or
                \* nothing has been shown yet

dirTable == <<directory, lastDir, dirSteps>>
dirPage  == <<dirs, editing, card, dirForm>>
dirVars  == <<dirTable, dirPage, dirTask, dirOld>>

NoCard   == [id |-> NoDir, base |-> NoRow, path |-> "", age |-> 0,
             saving |-> FALSE]
NoForm   == [open |-> FALSE, paths |-> {}, age |-> DefaultAge,
             saving |-> FALSE]

\* The form when it is closed; StartAdd fills it anew.
Closed(f) == [NoForm EXCEPT !.saving = f.saving]

NoJob    == [op |-> "none", at |-> "idle", id |-> NoDir, base |-> NoRow,
             paths |-> {}, age |-> 0, rows |-> <<>>, old |-> FALSE]

Listed(table) == {i \in DirIds : table[i] # NoRow}
TakenPaths    == {directory[i].path : i \in Listed(directory)}

DirInit ==
    /\ directory \in FirstDirs
    /\ lastDir = Cardinality(Listed(directory))
    /\ Listed(directory) = 1..lastDir
    /\ dirSteps = 0
    /\ dirs = [i \in DirIds |-> NoRow] /\ editing = NoDir
    /\ card = NoCard /\ dirForm = NoForm
    /\ dirTask = [t \in DirTasks |-> NoJob]
    /\ dirOld = TRUE

-----------------------------------------------------------------------------
(* Reading the list.                                                       *)

IdleDir(t) == dirTask[t].at = "idle"

\* The page is opened, or left and opened again when nothing is under way.
OpenDirectories(t) ==
    /\ \A u \in DirTasks : IdleDir(u)
    /\ dirs' = [i \in DirIds |-> NoRow] /\ editing' = NoDir
    /\ card' = NoCard /\ dirForm' = NoForm
    /\ dirTask' = [dirTask EXCEPT ![t] = [NoJob EXCEPT !.op = "open",
                                                      !.at = "list"]]
    /\ dirOld' = TRUE
    /\ UNCHANGED dirTable

\* Snapshots that are under way when the table changes are old.
AgeDirs(tasks) == [u \in DirTasks |->
                      IF tasks[u].at = "listed"
                      THEN [tasks[u] EXCEPT !.old = TRUE] ELSE tasks[u]]

\* EditCard is keyed by the id of its row: it keeps what is typed when the
\* row is listed again, and starts from the row when it appears.
CardFor(id, shown) ==
    IF id = NoDir \/ id \notin Listed(shown) THEN NoCard
    ELSE IF card.id = id THEN card
    ELSE [NoCard EXCEPT !.id = id, !.base = shown[id],
                        !.path = shown[id].path, !.age = shown[id].age]

\* Bounds what is explored.
CountStep == dirSteps < MaxDirSteps /\ dirSteps' = dirSteps + 1

AnswerDirs(t) ==
    /\ dirTask[t].at = "list"
    /\ dirTask' = [dirTask EXCEPT ![t].at = "listed", ![t].rows = directory]
    /\ UNCHANGED <<dirTable, dirPage, dirOld>>

\* What a handler does once load() has returned. onSave closes whatever card
\* is open, saveAll whatever form is.
FinishDirs(t, shown) ==
    LET op == dirTask[t].op
        id == IF op = "save" THEN NoDir ELSE editing
    IN  /\ dirs' = shown
        /\ editing' = id
        /\ card' = CardFor(id, shown)
        /\ dirForm' = IF op = "add" THEN NoForm
                      ELSE IF op = "addFailed"
                      THEN [dirForm EXCEPT !.saving = FALSE]
                      ELSE dirForm
        /\ dirTask' = [dirTask EXCEPT ![t] = NoJob]

ShowDirs(t) ==
    /\ dirTask[t].at = "listed"
    /\ FinishDirs(t, dirTask[t].rows)
    /\ dirOld' = dirTask[t].old
    /\ UNCHANGED dirTable

\* load swallows the error: the rows stay as they are.
LoseDirs(t) ==
    /\ dirTask[t].at = "list"
    /\ FinishDirs(t, dirs)
    /\ dirOld' = TRUE
    /\ UNCHANGED dirTable

-----------------------------------------------------------------------------
(* The card.                                                               *)

\* The pencil of a row.
EditDir(id) ==
    /\ id \in Listed(dirs) \ {editing}
    /\ editing' = id
    /\ card' = CardFor(id, dirs)
    /\ dirForm' = Closed(dirForm)
    /\ UNCHANGED <<dirTable, dirs, dirTask, dirOld>>

\* Typing, or picking a folder in the browser.
TypeCard ==
    /\ card.id # NoDir
    /\ \E p \in DirPaths, a \in Ages :
          card' = [card EXCEPT !.path = p, !.age = a]
    /\ UNCHANGED <<dirTable, dirs, editing, dirForm, dirTask, dirOld>>

CancelCard ==
    /\ card.id # NoDir
    /\ editing' = NoDir /\ card' = NoCard
    /\ UNCHANGED <<dirTable, dirs, dirForm, dirTask, dirOld>>

\* "Save" sends every field of the card.
SaveCard(t) ==
    /\ IdleDir(t) /\ card.id # NoDir /\ ~card.saving
    /\ card' = [card EXCEPT !.saving = TRUE]
    /\ dirTask' = [dirTask EXCEPT ![t] =
          [NoJob EXCEPT !.op = "save", !.at = "act", !.id = card.id,
              !.base = card.base, !.paths = {card.path}, !.age = card.age]]
    /\ CountStep
    /\ UNCHANGED <<directory, lastDir, dirs, editing, dirForm, dirOld>>

\* Mutant of Answered: the list is not loaded again.
AnsweredOnly(t, ok) ==
    /\ dirTask' = [AgeDirs(dirTask) EXCEPT ![t] = NoJob]
    /\ dirOld' = (dirOld \/ ~ok)

\* A request that succeeded is followed by load(), one that failed is not.
\* Its answer may be lost: the page takes that for a failure.
Answered(t, ok) ==
    /\ dirTask' = [AgeDirs(dirTask) EXCEPT
                      ![t] = IF ok THEN [dirTask[t] EXCEPT !.at = "list"]
                                   ELSE NoJob]
    /\ dirOld' = (dirOld \/ ~ok)

Refused(t) ==
    /\ dirTask' = [dirTask EXCEPT ![t] = NoJob]
    /\ UNCHANGED <<directory, dirOld>>

\* Mutant of UpdatedDirectory: zero stands for "not given".
UpdatedDirectoryZero(id, p, a) ==
    [directory EXCEPT ![id] = Row(p, IF a = 0 THEN DefaultAge ELSE a)]

\* handleUpdateDirectory keeps what the request does not name, and takes a
\* number as it is.
UpdatedDirectory(id, p, a) == [directory EXCEPT ![id] = Row(p, a)]

PutDirectory(t) ==
    LET c == dirTask[t]
    IN  /\ c.at = "act" /\ c.op = "save"
        /\ card' = IF card.id = c.id THEN [card EXCEPT !.saving = FALSE]
                   ELSE card
        /\ \/ Refused(t)
           \/ /\ c.id \in Listed(directory)
              /\ \E p \in c.paths :
                    /\ p \notin TakenPaths \ {directory[c.id].path}
                    /\ directory' = UpdatedDirectory(c.id, p, c.age)
              /\ \E ok \in BOOLEAN : Answered(t, ok)
        /\ UNCHANGED <<lastDir, dirSteps, dirs, editing, dirForm>>

-----------------------------------------------------------------------------
(* The form.                                                               *)

\* "Add Directory", or the copy button of a row.
StartAdd(from) ==
    /\ from = NoDir => ~dirForm.open
    /\ from \in Listed(dirs) \cup {NoDir}
    /\ dirForm' = [dirForm EXCEPT !.open = TRUE, !.paths = {},
                   !.age = IF from = NoDir THEN DefaultAge ELSE dirs[from].age]
    /\ editing' = NoDir /\ card' = NoCard
    /\ UNCHANGED <<dirTable, dirs, dirTask, dirOld>>

\* Rows of the form, typed or picked in the browser.
TypeForm ==
    /\ dirForm.open
    /\ \E ps \in SUBSET DirPaths : dirForm' = [dirForm EXCEPT !.paths = ps]
    /\ UNCHANGED <<dirTable, dirs, editing, card, dirTask, dirOld>>

\* The settings of the form.
TypeSettings ==
    /\ dirForm.open
    /\ \E a \in Ages : dirForm' = [dirForm EXCEPT !.age = a]
    /\ UNCHANGED <<dirTable, dirs, editing, card, dirTask, dirOld>>

CancelForm ==
    /\ dirForm.open
    /\ dirForm' = Closed(dirForm)
    /\ UNCHANGED <<dirTable, dirs, editing, card, dirTask, dirOld>>

SaveForm(t) ==
    /\ IdleDir(t) /\ dirForm.open /\ dirForm.paths # {} /\ ~dirForm.saving
    /\ dirForm' = [dirForm EXCEPT !.saving = TRUE]
    /\ dirTask' = [dirTask EXCEPT ![t] =
          [NoJob EXCEPT !.op = "add", !.at = "act", !.paths = dirForm.paths,
                        !.age = dirForm.age]]
    /\ CountStep
    /\ UNCHANGED <<directory, lastDir, dirs, editing, card, dirOld>>

\* The age a batch is stored with.
BatchAge(a) == IF a = 0 THEN DefaultAge ELSE a

\* handleBatchCreateDirectories: all of the paths in one transaction. After
\* an error saveAll loads the list all the same.
PostDirectories(t) ==
    LET c == dirTask[t]
        n == Cardinality(c.paths)
    IN  /\ c.at = "act" /\ c.op = "add"
        /\ \/ /\ dirTask' = [dirTask EXCEPT ![t].op = "addFailed",
                                          ![t].at = "list"]
              /\ UNCHANGED <<directory, lastDir>>
           \/ /\ lastDir + n <= MaxDirs /\ c.paths \cap TakenPaths = {}
              /\ lastDir' = lastDir + n
              /\ \E nth \in [(lastDir + 1)..lastDir' -> c.paths] :
                    /\ \A p \in c.paths : \E i \in DOMAIN nth : nth[i] = p
                    /\ directory' = [i \in DirIds |->
                          IF i \in DOMAIN nth THEN Row(nth[i], BatchAge(c.age))
                                              ELSE directory[i]]
              /\ \E op \in {"add", "addFailed"} :
                    dirTask' = [AgeDirs(dirTask) EXCEPT ![t].op = op,
                                                       ![t].at = "list"]
        /\ UNCHANGED <<dirSteps, dirPage, dirOld>>

-----------------------------------------------------------------------------
(* The rest: rows are removed here, and changed elsewhere.                 *)

\* The bin of a row, confirmed.
RemoveDir(t) ==
    /\ IdleDir(t)
    /\ \E id \in Listed(dirs) \ {editing} :
          dirTask' = [dirTask EXCEPT ![t] =
                         [NoJob EXCEPT !.op = "remove", !.at = "act",
                                       !.id = id]]
    /\ CountStep
    /\ UNCHANGED <<directory, lastDir, dirPage, dirOld>>

\* DELETE succeeds for a row that is there no more.
DeleteDirectory(t) ==
    /\ dirTask[t].at = "act" /\ dirTask[t].op = "remove"
    /\ \/ Refused(t)
       \/ /\ directory' = [directory EXCEPT ![dirTask[t].id] = NoRow]
          /\ \E ok \in BOOLEAN : Answered(t, ok)
    /\ UNCHANGED <<lastDir, dirSteps, dirPage>>

DirsElsewhere ==
    /\ CountStep
    /\ \/ /\ \E i \in Listed(directory), r \in DirRows \cup {NoRow} :
                /\ r.path \notin TakenPaths \ {directory[i].path}
                /\ directory' = [directory EXCEPT ![i] = r]
          /\ UNCHANGED lastDir
       \/ /\ lastDir < MaxDirs /\ lastDir' = lastDir + 1
          /\ \E r \in DirRows :
                /\ r.path \notin TakenPaths
                /\ directory' = [directory EXCEPT ![lastDir'] = r]
    /\ dirTask' = AgeDirs(dirTask) /\ dirOld' = TRUE
    /\ UNCHANGED dirPage

DirNext ==
    \/ \E t \in DirTasks :
          \/ OpenDirectories(t) \/ AnswerDirs(t) \/ ShowDirs(t) \/ LoseDirs(t)
          \/ SaveCard(t) \/ PutDirectory(t) \/ SaveForm(t) \/ PostDirectories(t)
          \/ RemoveDir(t) \/ DeleteDirectory(t)
    \/ \E id \in DirIds : EditDir(id)
    \/ \E from \in DirIds \cup {NoDir} : StartAdd(from)
    \/ TypeCard \/ CancelCard \/ TypeForm \/ TypeSettings \/ CancelForm
    \/ DirsElsewhere

DirSpec == DirInit /\ [][DirNext]_dirVars

-----------------------------------------------------------------------------
(* Properties.                                                             *)

\* Types.
DirTypeOK ==
    /\ directory \in [DirIds -> DirRows \cup {NoRow}]
    /\ dirs \in [DirIds -> DirRows \cup {NoRow}]
    /\ lastDir \in 0..MaxDirs /\ dirSteps \in 0..MaxDirSteps
    /\ editing \in DirIds \cup {NoDir} /\ card.id \in {NoDir, editing}
    /\ dirForm.paths \subseteq DirPaths /\ dirForm.open \in BOOLEAN
    /\ \A t \in DirTasks :
          dirTask[t].op \in {"none", "open", "save", "add", "addFailed",
                             "remove"}

\* Once nothing is under way the rows on the screen are those of the table,
\* unless another client changed it, a request failed half-way, or the list
\* was read before a later handler had its way (load after every handler).
QuietDirectoriesAreTrue ==
    (\A t \in DirTasks : IdleDir(t)) /\ ~dirOld => dirs = directory

\* A card sends all its fields, those nobody touched too; what it was opened
\* with comes from a list read earlier. Nevertheless an update leaves alone
\* what its user left alone, as long as no other client has changed the row
\* since (EditCard's state, handleUpdateDirectory).
EditKeepsTheRest ==
    [][\A t \in DirTasks :
          LET c == dirTask[t] IN
          /\ c.op = "save" /\ c.at = "act" /\ directory' # directory
          /\ dirTask'[t].at # "act" /\ directory[c.id] = c.base
          =>
          /\ c.age = c.base.age => directory'[c.id].age = c.base.age
          /\ c.paths = {c.base.path} => directory'[c.id].path = c.base.path
          /\ \A i \in DirIds \ {c.id} : directory'[i] = directory[i]]_dirVars

=============================================================================
