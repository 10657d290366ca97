----------------------------- MODULE ConfigFile -----------------------------
(***************************************************************************)
(* The configuration of a running server and the file it is kept in:       *)
(* handleUpdateConfig, handlePauseQueue and handleResumeQueue, the pause   *)
(* of the worker by itself, UpdateFile, and what Load and validate make of *)
(* the file at the next start. A setting is a number; all are 0 by         *)
(* default. token is 0 when none is set, and plex is plex_enabled.         *)
(***************************************************************************)
EXTENDS Naturals, FiniteSets, Sequences

CONSTANTS
    Writers,    \* requests that write the configuration, one at a time each
    MaxPuts     \* bound: requests ever made

ASSUME ConfigAssumption == MaxPuts \in Nat /\ IsFiniteSet(Writers)

VARIABLES
    conf,       \* the settings in memory
    confFile,   \* those in the file
    serving,    \* the server runs
    put,        \* per writer: its request and how far it is
    puts,       \* the requests made so far
    overlapped, \* history: two were under way at once since the last start
    halfway,    \* history: one was refused after it had changed something
    bare        \* history: plex was enabled without a token

confServer == <<conf, confFile, serving>>
confHist   == <<overlapped, halfway, bare>>
confVars   == <<confServer, put, puts, confHist>>

ConfKeys == {"roots", "plex", "token", "encoder", "paused"}
FormKeys == ConfKeys \ {"paused"}

\* A value that the file does not hold, or a request does not give.
Absent == 2
Nothing == [k \in ConfKeys |-> Absent]
Defaults == [k \in ConfKeys |-> 0]

NoPut == [at |-> "idle", want |-> Nothing, done |-> {}, text |-> Nothing]
IdlePut(w) == put[w].at \in {"idle", "answered", "refused"}

ConfInit ==
    /\ conf = Defaults /\ confFile = Defaults /\ serving = TRUE
    /\ put = [w \in Writers |-> NoPut] /\ puts = 0
    /\ overlapped = FALSE /\ halfway = FALSE /\ bare = FALSE

-----------------------------------------------------------------------------
(* A request.                                                              *)

StartPut(w, want) ==
    /\ serving /\ put[w].at = "idle" /\ puts < MaxPuts
    /\ put' = [put EXCEPT ![w] =
                  [put[w] EXCEPT !.at = "apply", !.want = want]]
    /\ puts' = puts + 1
    /\ overlapped' = (overlapped \/ \E v \in Writers : ~IdlePut(v))
    /\ UNCHANGED <<confServer, halfway, bare>>

\* The fields in the order the handler takes them; an empty token is no
\* token.
Order == <<"roots", "plex", "token", "encoder", "paused">>
Given(w) == {k \in ConfKeys : put[w].want[k] # Absent}
Left(w)  == Given(w) \ put[w].done
NextKey(w) == Order[CHOOSE i \in 1 .. Len(Order) :
                 /\ Order[i] \in Left(w)
                 /\ \A j \in 1 .. i - 1 : Order[j] \notin Left(w)]

\* One field after the other is changed in memory, without a lock.
ApplyKey(w) ==
    /\ put[w].at = "apply" /\ Left(w) # {}
    /\ conf' = [conf EXCEPT ![NextKey(w)] = put[w].want[NextKey(w)]]
    /\ put' = [put EXCEPT ![w] =
                  [put[w] EXCEPT !.done = put[w].done \cup {NextKey(w)}]]
    /\ UNCHANGED <<confFile, serving, puts, confHist>>

\* A root that is no directory any more, an encoder that is not available:
\* what came before stays changed, and is not written.
RefuseKey(w) ==
    /\ put[w].at = "apply" /\ Left(w) # {}
    /\ NextKey(w) \in {"roots", "encoder"}
    /\ put' = [put EXCEPT ![w] = [put[w] EXCEPT !.at = "refused"]]
    /\ halfway' = (halfway \/ put[w].done # {})
    /\ UNCHANGED <<confServer, puts, overlapped, bare>>

\* Mutant of FileUpdates: the encoder is not among them.
FileUpdatesNoEncoder(w) == put[w].done \ {"encoder"}

\* Mutant of FileUpdates: the token is kept out of the file.
FileUpdatesNoToken(w) == put[w].done \ {"token"}

\* What a request writes: all that it has changed in memory.
FileUpdates(w) == put[w].done

\* The file with its updates.
Updated(w) == [k \in ConfKeys |-> IF k \in FileUpdates(w) THEN put[w].want[k]
                                                         ELSE confFile[k]]

\* UpdateFile: os.ReadFile, then os.WriteFile, which truncates first.
ReadConf(w) ==
    /\ put[w].at = "apply" /\ Left(w) = {}
    /\ put' = [put EXCEPT ![w] =
                  [put[w] EXCEPT !.at = "truncate", !.text = Updated(w)]]
    /\ bare' = (bare \/ (conf["plex"] = 1 /\ conf["token"] = 0))
    /\ UNCHANGED <<confServer, puts, overlapped, halfway>>

TruncateConf(w) ==
    /\ put[w].at = "truncate"
    /\ confFile' = Nothing
    /\ put' = [put EXCEPT ![w] = [put[w] EXCEPT !.at = "write"]]
    /\ UNCHANGED <<conf, serving, puts, confHist>>

\* The answer is handleGetConfig's, or just a word.
WriteConf(w) ==
    /\ put[w].at = "write"
    /\ confFile' = put[w].text
    /\ put' = [put EXCEPT ![w] =
                  [put[w] EXCEPT !.at = "answered", !.text = conf]]
    /\ UNCHANGED <<conf, serving, puts, confHist>>

Forgotten(w) == put' = [put EXCEPT ![w] = NoPut]

-----------------------------------------------------------------------------
(* Starts.                                                                 *)

Loaded(text) == [k \in ConfKeys |-> IF text[k] = Absent THEN Defaults[k]
                                                        ELSE text[k]]
Valid(c) == c["plex"] = 1 => c["token"] = 1

\* The process ends, wherever its requests are, and is started again; a file
\* that is not valid stops it.
RestartServer ==
    /\ conf' = Loaded(confFile)
    /\ serving' = Valid(Loaded(confFile))
    /\ put' = [w \in Writers |-> NoPut]
    /\ overlapped' = (overlapped /\ ~serving') /\ bare' = (bare /\ ~serving')
    /\ halfway' = (halfway /\ ~serving')
    /\ UNCHANGED <<confFile, puts>>

\* Somebody corrects the file of a server that does not start.
Correct ==
    /\ ~serving
    /\ confFile' = [confFile EXCEPT !["plex"] = 0]
    /\ UNCHANGED <<conf, serving, put, puts, confHist>>

\* Another client's settings form, the pause and resume buttons, and the
\* worker that pauses itself.
PutElsewhere(w) ==
    \/ \E k \in FormKeys :
          StartPut(w, [f \in ConfKeys |->
                          IF f = k THEN IF k = "token" THEN 1 ELSE 1 - conf[k]
                          ELSE IF f \in {"token", "paused"} THEN Absent
                          ELSE conf[f]])
    \/ \E b \in 0 .. 1 : StartPut(w, [Nothing EXCEPT !["paused"] = b])

WriteStep(w) == \/ ApplyKey(w) \/ RefuseKey(w) \/ ReadConf(w)
                \/ TruncateConf(w) \/ WriteConf(w)

-----------------------------------------------------------------------------
(* Properties.                                                             *)

Untouched == serving /\ \A w \in Writers : IdlePut(w)

\* Types.
ConfTypeOK ==
    /\ conf \in [ConfKeys -> 0 .. 1] /\ confFile \in [ConfKeys -> 0 .. 2]
    /\ serving \in BOOLEAN /\ puts \in 0 .. MaxPuts
    /\ put \in [Writers -> [at : {"idle", "apply", "truncate", "write",
                                  "answered", "refused"},
                            want : [ConfKeys -> 0 .. 2],
                            done : SUBSET ConfKeys,
                            text : [ConfKeys -> 0 .. 2]]]
    /\ overlapped \in BOOLEAN /\ halfway \in BOOLEAN /\ bare \in BOOLEAN

\* What the server works with is what it will start with: every setting that
\* a request changed in memory is in the file once the request is over. It
\* may not be when two requests overlapped (UpdateFile takes no lock), or
\* when one was refused after its first fields (handleUpdateConfig).
FileIsMemory ==
    Untouched /\ ~overlapped /\ ~halfway => Loaded(confFile) = conf

\* The file the server writes is one it starts with, at every moment of the
\* writing, unless plex was enabled without a token, which handleUpdateConfig
\* takes and validate refuses, two requests overlapped, or one was refused
\* after it had set a token in memory: the next that enables plex is taken,
\* and written without it.
FileStarts == ~overlapped /\ ~halfway /\ ~bare => Valid(Loaded(confFile))
=============================================================================
