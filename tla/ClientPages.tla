---------------------------- MODULE ClientPages ----------------------------
(***************************************************************************)
(* The web client (App.tsx): its pages, its folder pickers and its login.  *)
(* One of them is on the screen. Pages keep their state to themselves and  *)
(* are mounted anew when the user comes back, so what matters to a page is *)
(* what happens while it is open: one part is followed, and the others     *)
(* stand still. What other clients, the worker and the scanner do          *)
(* meanwhile is in each part, by the actions named ...Elsewhere and the    *)
(* like.                                                                   *)
(***************************************************************************)
EXTENDS ReviewPage, HistoryPage, DirectoriesPage, LiveViews, FolderPicker,
        SettingsPage, Session

VARIABLE openPage   \* the part that is followed

clientVars == <<openPage, reviewVars, historyVars, dirVars, liveVars,
                pickVars, settingsVars, sessionVars>>

\* The routes; the pickers are dialogs of three of the pages, and the
\* Dashboard is in LiveViews with the Queue.
ClientParts == {"/review", "/history", "/directories", "/queue", "picker",
                "/settings", "/login"}

\* Where a part that is not followed starts does not matter: at one of its
\* initial states.
First(S) == CHOOSE x \in S : TRUE
StandsStill ==
    /\ openPage = "/review" \/ staged = 0
    /\ openPage = "/history" \/ job = First(JobTables)
    /\ openPage = "/directories" \/ directory = First(FirstDirs)
    /\ openPage = "/queue" \/ jobStatus = First(FirstJobs)
    /\ openPage = "picker" \/ roots = First(RootLists)
    /\ openPage = "/login" \/ (password = NoPassword /\ token = 0)

ClientInit ==
    /\ openPage \in ClientParts
    /\ ReviewInit /\ HistoryInit /\ DirInit /\ LiveInit /\ PickerInit
    /\ SettingsInit /\ SessionInit
    /\ StandsStill

OnReview ==
    /\ openPage = "/review"
    /\ UNCHANGED <<historyVars, dirVars, liveVars, pickVars, settingsVars,
                   sessionVars>>
    /\ ReviewNext
OnHistory ==
    /\ openPage = "/history"
    /\ UNCHANGED <<reviewVars, dirVars, liveVars, pickVars, settingsVars,
                   sessionVars>>
    /\ HistoryNext
OnDirectories ==
    /\ openPage = "/directories"
    /\ UNCHANGED <<reviewVars, historyVars, liveVars, pickVars, settingsVars,
                   sessionVars>>
    /\ DirNext
OnQueue ==
    /\ openPage = "/queue"
    /\ UNCHANGED <<reviewVars, historyVars, dirVars, pickVars, settingsVars,
                   sessionVars>>
    /\ LiveNext
OnPicker ==
    /\ openPage = "picker"
    /\ UNCHANGED <<reviewVars, historyVars, dirVars, liveVars, settingsVars,
                   sessionVars>>
    /\ PickerNext
OnSettings ==
    /\ openPage = "/settings"
    /\ UNCHANGED <<reviewVars, historyVars, dirVars, liveVars, pickVars,
                   sessionVars>>
    /\ SettingsNext
OnSession ==
    /\ openPage = "/login"
    /\ UNCHANGED <<reviewVars, historyVars, dirVars, liveVars, pickVars,
                   settingsVars>>
    /\ SessionNext

ClientNext ==
    /\ UNCHANGED openPage
    /\ \/ OnReview \/ OnHistory \/ OnDirectories \/ OnQueue \/ OnPicker
       \/ OnSettings \/ OnSession

ClientSpec == ClientInit /\ [][ClientNext]_clientVars

-----------------------------------------------------------------------------
(* Properties.                                                             *)

\* Types of the part that moves; the parent link of a picker leads to
\* another folder.
ClientTypeOK ==
    \/ openPage = "/review" /\ ReviewTypeOK
    \/ openPage = "/history" /\ HistoryTypeOK
    \/ openPage = "/directories" /\ DirTypeOK
    \/ openPage = "/queue" /\ LiveTypeOK
    \/ openPage = "picker" /\ PickerTypeOK
    \/ openPage = "/settings" /\ ConfTypeOK /\ SettingsTypeOK
    \/ openPage = "/login" /\ SessionTypeOK
=============================================================================
