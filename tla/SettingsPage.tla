---------------------------- MODULE SettingsPage ----------------------------
(***************************************************************************)
(* The Settings page of the web client (pages/Settings.tsx) over the       *)
(* configuration of ConfigFile, which other clients change as well. The    *)
(* fields that are handled alike are one: roots stands for those that are  *)
(* checked first and for those that are not checked at all.                *)
(***************************************************************************)
EXTENDS ConfigFile

CONSTANTS
    PageWriter, \* the page's requests to save
    MaxEdits    \* bound: edits made while the page is open

ASSUME SettingsAssumption == PageWriter \in Writers /\ MaxEdits \in Nat

VARIABLES
    page,       \* away, opening, open, or blocked by the dialog
    fetched,    \* the configuration fetched on opening
    cfg,        \* as last answered; only FormKeys matter
    form,       \* what the inputs hold
    saving, edits,
    unsaved,    \* history: fields edited since a request carried them
    meanwhile,  \* history: fields edited during a save, or lost to one
    elsewhere   \* history: the page has missed a change made by others, or
                \* by a request of its own that it has no good answer to

settingsShown == <<page, fetched, cfg, form, saving, edits>>
settingsHist  == <<unsaved, meanwhile, elsewhere>>
settingsVars  == <<confVars, settingsShown, settingsHist>>

SettingsInit ==
    /\ ConfInit
    /\ page = "opening" /\ fetched = Nothing /\ cfg = Nothing
    /\ form = Defaults /\ saving = FALSE /\ edits = 0
    /\ unsaved = {} /\ meanwhile = {} /\ elsewhere = FALSE

-----------------------------------------------------------------------------
(* The form.                                                               *)

\* The inputs start from what was fetched; the token is never sent.
FormOf(c) == [c EXCEPT !["token"] = 0]

\* The effect of the first rendering: three requests, and no form without all
\* of their answers.
Fetch ==
    /\ page = "opening" /\ fetched = Nothing /\ serving
    /\ fetched' = conf /\ elsewhere' = FALSE
    /\ UNCHANGED <<confVars, page, cfg, form, saving, edits, unsaved,
                   meanwhile>>

ShowForm ==
    /\ page = "opening" /\ fetched # Nothing
    /\ page' = "open" /\ cfg' = fetched /\ form' = FormOf(fetched)
    /\ fetched' = Nothing
    /\ UNCHANGED <<confVars, saving, edits, settingsHist>>

\* Mutant of DirtyKeys: a token that was typed is not looked at.
DirtyKeysNoToken ==
    {k \in FormKeys \ {"token"} : form[k] # cfg[k]}

\* isDirty: the fields that differ from the last answer; a token was typed.
DirtyKeys == {k \in FormKeys : form[k] # FormOf(cfg)[k]}

isDirty == DirtyKeys # {}

\* An input, a switch or a choice; the token's input needs plex to be on.
Edit(k) ==
    /\ page = "open" /\ edits < MaxEdits
    /\ k = "token" => form["plex"] = 1
    /\ form' = [form EXCEPT ![k] = 1 - @]
    /\ edits' = edits + 1
    /\ unsaved' = IF form'[k] = FormOf(cfg)[k] THEN unsaved \ {k}
                                               ELSE unsaved \cup {k}
    /\ meanwhile' = IF saving THEN meanwhile \cup {k} ELSE meanwhile
    /\ UNCHANGED <<confVars, page, fetched, cfg, saving, elsewhere>>

EditEncoder == Edit("encoder")
EditRoots   == Edit("roots")
EditPlex    == Edit("plex")
EditToken   == Edit("token")

-----------------------------------------------------------------------------
(* handleSave.                                                             *)

\* The whole form, and the token if one was typed.
Updates == [k \in ConfKeys |->
               IF k = "paused" \/ (k = "token" /\ form[k] = 0) THEN Absent
               ELSE form[k]]

Save ==
    /\ page = "open" /\ isDirty /\ ~saving
    /\ StartPut(PageWriter, Updates)
    /\ saving' = TRUE /\ meanwhile' = (unsaved \cap meanwhile) \ DirtyKeys
    /\ UNCHANGED <<page, fetched, cfg, form, edits, unsaved, elsewhere>>

\* Mutant of Answer: the answer is not looked at.
AnswerIgnored == cfg

\* setCfg(updated)
Answer == put[PageWriter].text

ShowSaved ==
    /\ saving /\ put[PageWriter].at = "answered"
    /\ cfg' = Answer
    /\ form' = [form EXCEPT !["encoder"] = Answer["encoder"], !["token"] = 0]
    /\ unsaved' = {k \in unsaved : /\ form[k] # put[PageWriter].want[k]
                                   /\ form[k] # FormOf(Answer)[k]}
    /\ saving' = FALSE /\ Forgotten(PageWriter)
    /\ UNCHANGED <<confServer, puts, confHist, page, fetched, edits, meanwhile,
                   elsewhere>>

\* The message of a save that failed: refused, or cut off by a restart.
ShowFailed ==
    /\ saving /\ put[PageWriter].at \in {"refused", "idle"}
    /\ saving' = FALSE /\ Forgotten(PageWriter)
    /\ elsewhere' = TRUE
    /\ UNCHANGED <<confServer, puts, confHist, page, fetched, cfg, form,
                   edits, unsaved, meanwhile>>

-----------------------------------------------------------------------------
(* Leaving.                                                                *)

\* useBlocker asks before the form is lost.
LeaveSettings ==
    /\ page = "open"
    /\ page' = IF isDirty THEN "blocked" ELSE "away"
    /\ UNCHANGED <<confVars, fetched, cfg, form, saving, edits, settingsHist>>

Stay ==
    /\ page = "blocked" /\ page' = "open"
    /\ UNCHANGED <<confVars, fetched, cfg, form, saving, edits, settingsHist>>

LeaveAnyway ==
    /\ page = "blocked" /\ page' = "away"
    /\ unsaved' = {}
    /\ UNCHANGED <<confVars, fetched, cfg, form, saving, edits, meanwhile,
                   elsewhere>>

\* The page is mounted anew; a save of the one before ends unseen.
OpenSettings ==
    /\ page = "away" /\ put[PageWriter].at \in {"idle", "answered", "refused"}
    /\ Forgotten(PageWriter)
    /\ page' = "opening" /\ fetched' = Nothing /\ cfg' = Nothing
    /\ form' = Defaults /\ saving' = FALSE /\ edits' = 0
    /\ unsaved' = {} /\ meanwhile' = {} /\ elsewhere' = FALSE
    /\ UNCHANGED <<confServer, puts, confHist>>

-----------------------------------------------------------------------------
(* The server, and others.                                                 *)

SettingsKept == UNCHANGED <<settingsShown, unsaved, meanwhile>>

ConfigStep ==
    /\ \E w \in Writers : /\ WriteStep(w)
                          /\ elsewhere' = (elsewhere \/ w # PageWriter)
    /\ SettingsKept

ConfigElsewhere ==
    \E w \in Writers \ {PageWriter} :
        /\ \/ PutElsewhere(w) \/ RestartServer \/ Correct
           \/ /\ put[w].at \in {"answered", "refused"} /\ Forgotten(w)
              /\ UNCHANGED <<confServer, puts, confHist>>
        /\ elsewhere' = TRUE
        /\ SettingsKept

SettingsNext ==
    \/ Fetch \/ ShowForm
    \/ EditEncoder \/ EditRoots \/ EditPlex \/ EditToken
    \/ Save \/ ShowSaved \/ ShowFailed
    \/ LeaveSettings \/ Stay \/ LeaveAnyway \/ OpenSettings
    \/ ConfigStep \/ ConfigElsewhere

SettingsSpec == SettingsInit /\ [][SettingsNext]_settingsVars

-----------------------------------------------------------------------------
(* Properties.                                                             *)

\* Types.
SettingsTypeOK ==
    /\ page \in {"away", "opening", "open", "blocked"}
    /\ fetched \in [ConfKeys -> 0 .. 2] /\ cfg \in [ConfKeys -> 0 .. 2]
    /\ form \in [ConfKeys -> 0 .. 1]
    /\ saving \in BOOLEAN /\ edits \in 0 .. MaxEdits
    /\ unsaved \subseteq FormKeys /\ meanwhile \subseteq FormKeys
    /\ elsewhere \in BOOLEAN

\* Nothing that was typed is lost without a question: a page that can be left
\* freely, and whose "Save Settings" is off, has sent every edit, also those
\* made while a save was under way. Two fields are emptied or set by the
\* answer of a save, the token and the encoder, and lose such an edit.
CleanMeansSaved ==
    page \in {"open", "away"} /\ ~isDirty /\ ~saving
    => unsaved \subseteq meanwhile \cap {"token", "encoder"}

\* The form shows the server's settings: once a save is answered, and what is
\* typed later is undone, every field is as the server has it. Changes made
\* by other clients, restarts and saves that failed are not seen.
QuietSettingsAreTrue ==
    page = "open" /\ ~saving /\ ~elsewhere /\ serving
    => \A k \in FormKeys : cfg[k] = conf[k]
=============================================================================
