---------------------------- MODULE FolderPicker ----------------------------
(***************************************************************************)
(* The three pickers of the web client: FilePicker of the Queue page,      *)
(* DirectoryBrowser of the Directories page and RootDirBrowser of the      *)
(* Settings page, and the handler that lists a folder for them             *)
(* (handleBrowseFS). A folder is the sequence of its names, <<>> is "/".   *)
(* Every folder holds one film, named by the folder.                       *)
(***************************************************************************)
EXTENDS Naturals, Sequences, SequencesExt

CONSTANTS
    PickTasks,  \* requests that may be under way at a time
    Folders,    \* the folders of the file system
    RootLists,  \* the root_dirs that may be configured
    MaxPicks,   \* bound: requests made by one picker
    NoFolder    \* no folder is asked for, or shown

ASSUME PickerAssumption ==
    /\ NoFolder \notin Folders
    /\ <<>> \in Folders /\ \A f \in Folders : f \in Seq(ToSet(f))
    /\ \A f \in Folders : f # <<>> => Front(f) \in Folders
    /\ RootLists \subseteq Seq(Folders)
    /\ MaxPicks \in Nat \ {0}

VARIABLES
    roots,      \* cfg.Scanner.RootDirs
    picker,     \* the picker on the screen, or closed
    browse,     \* the folder shown: its path, and where its parent link goes
    pickLoading, pickError,
    ticked,     \* the films ticked
    visit,      \* per task: the folder asked for, then the answer
    askedFolder, \* the folder that was asked for last
    picks,      \* requests made so far
    lateVisit,  \* history: the last answer shown is not the last request's
    rootsMoved, \* history: the roots have changed since it was opened
    blind       \* history: all was ticked while another folder was loading

pickShown == <<browse, pickLoading, pickError, ticked>>
pickCalls == <<visit, askedFolder, picks>>
pickHist  == <<lateVisit, rootsMoved, blind>>
pickVars  == <<roots, picker, pickShown, pickCalls, pickHist>>

Pickers  == {"files", "directory", "root"}
NoVisit  == [at |-> "idle", late |-> FALSE,
             path |-> NoFolder, parent |-> NoFolder]
NoBrowse == [path |-> NoFolder, parent |-> NoFolder]

PickerInit ==
    /\ roots \in RootLists
    /\ picker = "closed" /\ browse = NoBrowse
    /\ pickLoading = FALSE /\ pickError = FALSE /\ ticked = {}
    /\ visit = [t \in PickTasks |-> NoVisit]
    /\ askedFolder = NoFolder /\ picks = 0
    /\ lateVisit = FALSE /\ rootsMoved = FALSE /\ blind = FALSE

-----------------------------------------------------------------------------
(* handleBrowseFS.                                                         *)

\* Mutant of UnderAnyRoot: a root is not under itself.
InsideAnyRoot(f, list) ==
    \E r \in ToSet(list) : r # <<>> /\ f # r /\ IsPrefix(r, f)

\* pathUnderAnyRoot: path == root, or root + "/" starts it. Of "/" that is
\* "//", which starts no path.
UnderAnyRoot(f, list) ==
    \E r \in ToSet(list) : f = r \/ (r # <<>> /\ IsPrefix(r, f))

\* The roots are the ceiling, but not of RootDirBrowser (unrestricted=1).
Ceiling == IF picker = "root" THEN <<>> ELSE roots

\* The folder that is read: the first root instead of none, and instead of
\* one that is outside all of them.
FolderRead(f) ==
    IF f # NoFolder /\ (Ceiling = <<>> \/ UnderAnyRoot(f, Ceiling)) THEN f
    ELSE IF Ceiling = <<>> THEN <<>> ELSE Ceiling[1]

\* Mutant of ParentOf: filepath.Dir("/") is "/".
ParentOfSlash(f) == IF f \in ToSet(Ceiling) THEN NoFolder
                    ELSE IF f = <<>> THEN <<>> ELSE Front(f)

\* No link leads up from "/" or from a root.
ParentOf(f) == IF f = <<>> \/ f \in ToSet(Ceiling) THEN NoFolder ELSE Front(f)

DirsIn(f) == {d \in Folders : d # <<>> /\ Front(d) = f}

\* What is read may be gone, or not readable.
BrowseFS(t) ==
    /\ visit[t].at = "asked"
    /\ LET f == FolderRead(visit[t].path)
       IN  \/ visit' = [visit EXCEPT ![t].at = "listed", ![t].path = f,
                                     ![t].parent = ParentOf(f)]
           \/ visit' = [visit EXCEPT ![t].at = "refused"]
    /\ UNCHANGED <<roots, picker, pickShown, askedFolder, picks, pickHist>>

-----------------------------------------------------------------------------
(* navigate.                                                               *)

\* Mutant of TicksKept: a folder's ticks stay when it is left.
TicksKeptAll == ticked

\* The ticks that are left when another folder is asked for.
TicksKept == {}

\* A request makes those that are under way late.
AskFolder(t, f) ==
    [u \in PickTasks |->
        IF u = t THEN [NoVisit EXCEPT !.at = "asked", !.path = f]
        ELSE IF visit[u].at = "idle" THEN visit[u]
        ELSE [visit[u] EXCEPT !.late = TRUE]]

Navigate(t, f) ==
    /\ visit[t].at = "idle" /\ picks < MaxPicks
    /\ visit' = AskFolder(t, f) /\ askedFolder' = f /\ picks' = picks + 1
    /\ pickLoading' = TRUE /\ pickError' = FALSE /\ ticked' = TicksKept
    /\ lateVisit' = FALSE /\ blind' = FALSE
    /\ UNCHANGED <<roots, picker, browse, rootsMoved>>

\* Mutant of LoadingAfter: only an answer that can be shown ends it.
LoadingAfterOk(ok) == ~ok

\* finally { setLoading(false) }
LoadingAfter(ok) == FALSE

ShowVisit(t) ==
    /\ visit[t].at \in {"listed", "refused"}
    /\ LET ok == visit[t].at = "listed"
       IN  /\ browse' = IF ok THEN [path |-> visit[t].path,
                                    parent |-> visit[t].parent] ELSE browse
           /\ pickError' = (pickError \/ ~ok)
           /\ pickLoading' = LoadingAfter(ok)
    /\ lateVisit' = visit[t].late
    /\ visit' = [visit EXCEPT ![t] = NoVisit]
    /\ UNCHANGED <<roots, picker, ticked, askedFolder, picks, rootsMoved,
                   blind>>

-----------------------------------------------------------------------------
(* What the pickers offer.                                                 *)

Readable == browse # NoBrowse /\ ~pickLoading /\ ~pickError

\* The list: the parent and the folders, where nothing hides it.
FileLinks ==
    IF picker = "files" /\ Readable
    THEN ({browse.parent} \cup DirsIn(browse.path)) \ {NoFolder} ELSE {}

\* The list, and the footer that is there while a folder is loading too.
DirectoryLinks ==
    IF picker # "directory" \/ browse = NoBrowse THEN {}
    ELSE ({browse.parent} \cup IF Readable THEN DirsIn(browse.path) ELSE {})
         \ {NoFolder}

RootLinks ==
    IF picker # "root" \/ browse = NoBrowse THEN {}
    ELSE ({browse.parent} \cup IF Readable THEN DirsIn(browse.path) ELSE {})
         \ {NoFolder}

FollowLink(t) ==
    \E f \in FileLinks \cup DirectoryLinks \cup RootLinks : Navigate(t, f)

\* A film is ticked where the list shows it.
ToggleFile ==
    /\ picker = "files" /\ Readable
    /\ ticked' = IF browse.path \in ticked THEN ticked \ {browse.path}
                   ELSE ticked \cup {browse.path}
    /\ UNCHANGED <<roots, picker, browse, pickLoading, pickError, pickCalls,
                   pickHist>>

\* "Select all" is above the list, and there while another folder is loading.
ToggleAll ==
    /\ picker = "files" /\ browse # NoBrowse
    /\ ticked' = IF browse.path \in ticked THEN {} ELSE {browse.path}
    /\ blind' = (blind \/ \E t \in PickTasks : visit[t].at # "idle")
    /\ UNCHANGED <<roots, picker, browse, pickLoading, pickError, pickCalls,
                   lateVisit, rootsMoved>>

-----------------------------------------------------------------------------
(* Opening and closing.                                                    *)

\* The state a picker is mounted with; it asks for a folder at once.
Mount(p, t, f) ==
    /\ picker = "closed"
    /\ picker' = p /\ browse' = NoBrowse
    /\ visit' = [u \in PickTasks |->
                    IF u = t THEN [NoVisit EXCEPT !.at = "asked", !.path = f]
                    ELSE NoVisit]
    /\ askedFolder' = f /\ picks' = 1
    /\ pickLoading' = TRUE /\ pickError' = FALSE /\ ticked' = {}
    /\ lateVisit' = FALSE /\ rootsMoved' = FALSE /\ blind' = FALSE
    /\ UNCHANGED roots

OpenFiles(t) == Mount("files", t, NoFolder)
OpenRoot(t)  == Mount("root", t, NoFolder)

\* startPath: the path typed or the first directory's, or none.
OpenDirectory(t) ==
    \E f \in Folders \cup {NoFolder} : Mount("directory", t, f)

Unmount ==
    /\ picker' = "closed" /\ browse' = NoBrowse /\ pickLoading' = FALSE
    /\ pickError' = FALSE /\ ticked' = {}
    /\ visit' = [t \in PickTasks |-> NoVisit]
    /\ askedFolder' = NoFolder /\ picks' = 0
    /\ lateVisit' = FALSE /\ rootsMoved' = FALSE /\ blind' = FALSE
    /\ UNCHANGED roots

ClosePicker == picker # "closed" /\ Unmount

\* The roots are configured anew.
ChangeRoots ==
    /\ roots' \in RootLists
    /\ roots' # roots
    /\ rootsMoved' = (picker # "closed")
    /\ UNCHANGED <<picker, pickShown, pickCalls, lateVisit, blind>>

PickerNext ==
    \/ \E t \in PickTasks : \/ OpenFiles(t) \/ OpenDirectory(t) \/ OpenRoot(t)
                            \/ FollowLink(t) \/ BrowseFS(t) \/ ShowVisit(t)
    \/ ToggleFile \/ ToggleAll \/ ClosePicker \/ ChangeRoots

PickerSpec == PickerInit /\ [][PickerNext]_pickVars

-----------------------------------------------------------------------------
(* Properties.                                                             *)

Quiet == \A t \in PickTasks : visit[t].at = "idle"

\* Types; a parent is another folder.
PickerTypeOK ==
    /\ roots \in RootLists /\ picker \in Pickers \cup {"closed"}
    /\ browse \in [path : Folders \cup {NoFolder},
                   parent : Folders \cup {NoFolder}]
    /\ browse # NoBrowse => browse.parent # browse.path
    /\ pickLoading \in BOOLEAN /\ pickError \in BOOLEAN
    /\ ticked \subseteq Folders
    /\ visit \in [PickTasks -> [at : {"idle", "asked", "listed", "refused"},
                                late : BOOLEAN,
                                path : Folders \cup {NoFolder},
                                parent : Folders \cup {NoFolder}]]
    /\ askedFolder \in Folders \cup {NoFolder} /\ picks \in 0 .. MaxPicks
    /\ lateVisit \in BOOLEAN /\ rootsMoved \in BOOLEAN /\ blind \in BOOLEAN

\* Whatever links are followed while others are still loading, the folder that
\* is shown in the end is the one the last link names. It may not be when an
\* earlier answer came later, and when the roots have changed meanwhile. With
\* "/" among the roots it is not either (handleBrowseFS).
LinksLeadThere ==
    Quiet /\ picks > 1 /\ ~pickError /\ ~lateVisit /\ ~rootsMoved
    => browse.path = askedFolder

\* A picker that has been answered takes clicks again: "Loading..." ends with
\* the last answer, whether it was a folder or an error (navigate's finally).
LoadingEnds == Quiet => ~pickLoading

\* "Queue" sends the films that are ticked on the screen: navigate empties the
\* ticks before another folder replaces their list. The ones that are not are
\* those of a "Select all" while another folder was loading.
TicksAreShown ==
    picker = "files" /\ ~blind => ticked \subseteq {browse.path}
=============================================================================
