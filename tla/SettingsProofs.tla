--------------------------- MODULE SettingsProofs --------------------------
(* Theorems about SettingsPage and the ConfigFile under it, for every set   *)
(* of requests, any number of them and any number of edits.                *)
EXTENDS SettingsPage, TLAPS

Values   == [ConfKeys -> 0 .. 1]
Texts    == [ConfKeys -> 0 .. 2]
PutType  == [at : {"idle", "apply", "truncate", "write", "answered",
                   "refused"},
             want : Texts, done : SUBSET ConfKeys, text : Texts]

-----------------------------------------------------------------------------
(* Operators. *)

LEMMA KeysChosen ==
    ASSUME NEW w, Left(w) # {}
    PROVE  NextKey(w) \in Left(w)
<1> DEFINE P(i) == i \in 1 .. 5 /\ Order[i] \in Left(w)
<1>1. /\ Len(Order) = 5
      /\ Order[1] = "roots" /\ Order[2] = "plex" /\ Order[3] = "token"
      /\ Order[4] = "encoder" /\ Order[5] = "paused"
      BY DEF Order
<1>2. PICK k \in Left(w) : k \in ConfKeys
      BY DEF Left, Given
<1>3. \E i \in 1 .. 5 : /\ Order[i] \in Left(w)
                        /\ \A j \in 1 .. i - 1 : Order[j] \notin Left(w)
  <2>1. CASE Order[1] \in Left(w) BY <2>1
  <2>2. CASE Order[1] \notin Left(w) /\ Order[2] \in Left(w) BY <2>2
  <2>3. CASE /\ Order[1] \notin Left(w) /\ Order[2] \notin Left(w)
             /\ Order[3] \in Left(w)
        BY <2>3
  <2>4. CASE /\ Order[1] \notin Left(w) /\ Order[2] \notin Left(w)
             /\ Order[3] \notin Left(w) /\ Order[4] \in Left(w)
        BY <2>4
  <2>5. CASE /\ Order[1] \notin Left(w) /\ Order[2] \notin Left(w)
             /\ Order[3] \notin Left(w) /\ Order[4] \notin Left(w)
    <3>1. Order[5] \in Left(w) BY <1>1, <1>2, <2>5 DEF ConfKeys
    <3> QED BY <2>5, <3>1
  <2> QED BY <2>1, <2>2, <2>3, <2>4, <2>5
<1> QED BY <1>1, <1>3 DEF NextKey

LEMMA LoadedValues ==
    ASSUME NEW text \in Texts
    PROVE  Loaded(text) \in Values
BY DEF Texts, Values, Loaded, Absent, Defaults

LEMMA KnownValues ==
    ASSUME NEW c \in Values
    PROVE  Loaded(c) = c /\ c \in Texts
BY DEF Texts, Values, Loaded, Absent

LEMMA NothingText == Nothing \in Texts /\ Defaults \in Values
BY DEF Nothing, Defaults, Texts, Values, Absent

LEMMA PutReplaced ==
    ASSUME put \in [Writers -> PutType], NEW w \in Writers, NEW r \in PutType,
           put' = [put EXCEPT ![w] = r]
    PROVE  /\ put' \in [Writers -> PutType] /\ put'[w] = r
           /\ \A v \in Writers \ {w} : put'[v] = put[v]
OBVIOUS

-----------------------------------------------------------------------------
(* The invariant of the configuration. *)

\* Requests and answers hold what they say.
PutShape ==
    /\ \A w \in Writers :
          /\ put[w].at = "idle" => put[w].done = {}
          /\ put[w].done \subseteq Given(w)
          /\ put[w].at = "answered" => put[w].text \in Values
    /\ ~serving => \A w \in Writers : IdlePut(w)

\* Unless two requests overlapped there is one at a time.
Alone ==
    ~overlapped =>
        \A v, w \in Writers : ~IdlePut(v) /\ ~IdlePut(w) => v = w

\* Memory is the file with what the one request has changed so far.
Agree ==
    ~overlapped /\ ~halfway /\ serving =>
        /\ (\A w \in Writers : IdlePut(w)) => Loaded(confFile) = conf
        /\ \A w \in Writers :
              /\ put[w].at = "apply" =>
                    \A k \in ConfKeys :
                        conf[k] = IF k \in put[w].done THEN put[w].want[k]
                                  ELSE Loaded(confFile)[k]
              /\ put[w].at \in {"truncate", "write"} =>
                    Loaded(put[w].text) = conf

\* The file, and the one that is about to be written, are valid.
Starts ==
    ~overlapped /\ ~halfway /\ ~bare =>
        /\ Valid(Loaded(confFile))
        /\ \A w \in Writers : put[w].at \in {"truncate", "write"} =>
                                  Valid(Loaded(put[w].text))

ConfInv == ConfTypeOK /\ PutShape /\ Alone /\ Agree /\ Starts

LEMMA ConfTypes ==
    ConfTypeOK <=> /\ conf \in Values /\ confFile \in Texts
                   /\ serving \in BOOLEAN /\ puts \in 0 .. MaxPuts
                   /\ put \in [Writers -> PutType]
                   /\ overlapped \in BOOLEAN /\ halfway \in BOOLEAN
                   /\ bare \in BOOLEAN
BY DEF ConfTypeOK, Values, Texts, PutType

LEMMA ConfStart == ConfInit => ConfInv
<1> SUFFICES ASSUME ConfInit PROVE ConfInv
    OBVIOUS
<1>1. /\ NoPut \in PutType /\ NoPut.at = "idle" /\ NoPut.done = {}
      BY NothingText DEF NoPut, PutType
<1>2. /\ put \in [Writers -> PutType]
      /\ \A w \in Writers : put[w].at = "idle" /\ put[w].done = {}
      BY <1>1 DEF ConfInit
<1>3. conf \in Values /\ confFile \in Texts /\ Loaded(confFile) = conf
      BY NothingText, KnownValues DEF ConfInit
<1>4. ConfTypeOK
  <2>1. puts \in 0 .. MaxPuts BY ConfigAssumption DEF ConfInit
  <2>2. /\ serving \in BOOLEAN /\ overlapped \in BOOLEAN
        /\ halfway \in BOOLEAN /\ bare \in BOOLEAN
        BY DEF ConfInit
  <2> QED BY <1>2, <1>3, <2>1, <2>2, ConfTypes
<1>5. PutShape /\ Alone BY <1>2 DEF ConfInit, PutShape, Alone, IdlePut
<1>6. Agree BY <1>2, <1>3 DEF Agree
<1>7. Starts
  <2>1. Valid(Loaded(confFile)) BY <1>3 DEF ConfInit, Defaults, Valid, ConfKeys
  <2> QED BY <1>2, <2>1 DEF Starts
<1> QED BY <1>4, <1>5, <1>6, <1>7 DEF ConfInv

-----------------------------------------------------------------------------
(* The steps of a request. *)

LEMMA StartKept ==
    ASSUME ConfInv, NEW w \in Writers, NEW want \in Texts, StartPut(w, want)
    PROVE  ConfInv'
<1> DEFINE r == [put[w] EXCEPT !.at = "apply", !.want = want]
<1>1. /\ put \in [Writers -> PutType] /\ put[w] \in PutType
      /\ conf \in Values /\ confFile \in Texts
      BY ConfTypes DEF ConfInv
<1>2. /\ r \in PutType /\ r.at = "apply" /\ r.want = want
      /\ r.done = put[w].done
      BY <1>1 DEF PutType
<1>3. put' = [put EXCEPT ![w] = r] BY DEF StartPut
<1> HIDE DEF r
<1>4. /\ put' \in [Writers -> PutType] /\ put'[w] = r
      /\ \A v \in Writers \ {w} : put'[v] = put[v]
      BY <1>1, <1>2, <1>3, PutReplaced
<1>5. /\ serving /\ put[w].at = "idle" /\ put[w].done = {}
      /\ UNCHANGED <<conf, confFile, serving, halfway, bare>>
      /\ overlapped' = (overlapped \/ \E v \in Writers : ~IdlePut(v))
      BY DEF StartPut, confServer, ConfInv, PutShape
<1>6. overlapped' = FALSE => ~overlapped /\ \A v \in Writers : IdlePut(v)
      BY <1>5
<1>7. ConfTypeOK'
  <2>1. puts' \in 0 .. MaxPuts
        BY ConfigAssumption DEF StartPut, ConfInv, ConfTypeOK
  <2>2. overlapped' \in BOOLEAN BY <1>5 DEF ConfInv, ConfTypeOK
  <2>3. ConfTypeOK BY DEF ConfInv
  <2> QED BY <1>1, <1>4, <1>5, <2>1, <2>2, <2>3, ConfTypes
          DEF ConfTypeOK, Values, Texts, PutType
<1>8. PutShape'
  <2>1. put'[w].done = {} /\ put'[w].at = "apply" BY <1>2, <1>4, <1>5
  <2>2. \A v \in Writers \ {w} :
           put[v].done \subseteq Given(v) => put'[v].done \subseteq Given(v)'
        BY <1>4 DEF Given
  <2> QED BY <1>4, <1>5, <2>1, <2>2 DEF ConfInv, PutShape, IdlePut
<1>9. Alone'
      BY <1>4, <1>5, <1>6 DEF ConfInv, Alone, IdlePut
<1>10. Agree'
  <2> SUFFICES ASSUME ~overlapped', ~halfway'
               PROVE  /\ put'[w].at = "apply"
                      /\ \A v \in Writers :
                         /\ put'[v].at = "apply" =>
                              \A k \in ConfKeys :
                                conf[k] = IF k \in put'[v].done
                                          THEN put'[v].want[k]
                                          ELSE Loaded(confFile)[k]
                         /\ put'[v].at \notin {"truncate", "write"}
      BY <1>5 DEF Agree, IdlePut
  <2>1. /\ ~overlapped /\ \A v \in Writers : IdlePut(v)
        BY <1>5
  <2>2. Loaded(confFile) = conf
        BY <1>5, <2>1 DEF ConfInv, Agree
  <2>3. \A v \in Writers : put'[v].at \in {"apply", "idle", "answered",
                                           "refused"}
        BY <1>2, <1>4, <2>1 DEF IdlePut
  <2>4. \A v \in Writers : put'[v].at = "apply" => put'[v].done = {}
        BY <1>2, <1>4, <1>5, <2>1 DEF IdlePut
  <2> QED BY <1>2, <1>4, <2>2, <2>3, <2>4
<1>11. Starts'
      BY <1>2, <1>4, <1>5, <1>6 DEF ConfInv, Starts, IdlePut
<1> QED BY <1>7, <1>8, <1>9, <1>10, <1>11 DEF ConfInv

\* A step of a request that is under way leaves the others where they are.
LEMMA WriterStep ==
    ASSUME ConfInv, NEW w \in Writers, NEW r \in PutType,
           put[w].at \in {"apply", "truncate", "write"},
           put' = [put EXCEPT ![w] = r], UNCHANGED <<serving, overlapped>>,
           r.want = put[w].want, r.done \subseteq Given(w),
           r.at # "idle", r.at = "answered" => r.text \in Values
    PROVE  /\ put' \in [Writers -> PutType] /\ put'[w] = r
           /\ \A v \in Writers \ {w} : put'[v] = put[v]
           /\ serving /\ PutShape' /\ Alone'
           /\ ~overlapped => \A v \in Writers \ {w} : IdlePut(v)
<1>1. put \in [Writers -> PutType] BY ConfTypes DEF ConfInv
<1>2. /\ put' \in [Writers -> PutType] /\ put'[w] = r
      /\ \A v \in Writers \ {w} : put'[v] = put[v]
      BY <1>1, PutReplaced
<1>3. ~IdlePut(w) BY DEF IdlePut
<1>4. serving BY <1>3 DEF ConfInv, PutShape
<1>5. \A v \in Writers : Given(v)' = Given(v) BY <1>2 DEF Given
<1>6. PutShape'
      BY <1>2, <1>4, <1>5 DEF ConfInv, PutShape
<1>7. ~overlapped => \A v \in Writers \ {w} : IdlePut(v)
      BY <1>3 DEF ConfInv, Alone
<1>8. Alone' BY <1>2, <1>7 DEF Alone, IdlePut
<1> QED BY <1>2, <1>4, <1>6, <1>7, <1>8

LEMMA ApplyKept ==
    ASSUME ConfInv, NEW w \in Writers, ApplyKey(w)
    PROVE  ConfInv'
<1> DEFINE key == NextKey(w)
           r == [put[w] EXCEPT !.done = put[w].done \cup {key}]
<1>1. /\ put \in [Writers -> PutType] /\ put[w] \in PutType
      /\ conf \in Values /\ confFile \in Texts
      BY ConfTypes DEF ConfInv
<1>2. /\ key \in Given(w) /\ key \in ConfKeys /\ key \notin put[w].done
      /\ put[w].want[key] \in 0 .. 1
      BY <1>1, KeysChosen
      DEF ApplyKey, Left, Given, PutType, Texts, Absent
<1>3. /\ put' = [put EXCEPT ![w] = r] /\ put[w].at = "apply"
      /\ conf' = [conf EXCEPT ![key] = put[w].want[key]]
      /\ UNCHANGED <<confFile, serving, puts, confHist>>
      BY DEF ApplyKey
<1> HIDE DEF key
<1>4. /\ r \in PutType /\ r.at = "apply" /\ r.want = put[w].want
      /\ r.done = put[w].done \cup {key} /\ r.done \subseteq Given(w)
      BY <1>1, <1>2, <1>3 DEF PutType, ConfInv, PutShape
<1> HIDE DEF r
<1>5. /\ put' \in [Writers -> PutType] /\ put'[w] = r
      /\ \A v \in Writers \ {w} : put'[v] = put[v]
      /\ serving /\ PutShape' /\ Alone'
      /\ ~overlapped => \A v \in Writers \ {w} : IdlePut(v)
      BY <1>3, <1>4, WriterStep DEF confHist
<1>6. conf' \in Values BY <1>1, <1>2, <1>3 DEF Values
<1>7. ConfTypeOK'
      BY <1>3, <1>5, <1>6 DEF ConfInv, ConfTypeOK, Values, Texts, PutType,
                              confHist
<1>8. Agree'
  <2> SUFFICES ASSUME ~overlapped, ~halfway
               PROVE  Agree'
      BY <1>3 DEF Agree, confHist
  <2>1. \A k \in ConfKeys : conf'[k] = IF k \in r.done THEN r.want[k]
                                       ELSE Loaded(confFile)[k]
        BY <1>1, <1>2, <1>3, <1>4, <1>5 DEF ConfInv, Agree, Values
  <2>2. \A v \in Writers \ {w} : put'[v].at \in {"idle", "answered", "refused"}
        BY <1>5 DEF IdlePut
  <2> QED BY <1>3, <1>4, <1>5, <2>1, <2>2 DEF Agree, IdlePut
<1>9. Starts'
      BY <1>3, <1>4, <1>5 DEF ConfInv, Starts, confHist
<1> QED BY <1>5, <1>7, <1>8, <1>9 DEF ConfInv

\* A refusal changes nothing but where the request is; when fields had been
\* changed before it, that is on record.
LEMMA RefuseKept ==
    ASSUME ConfInv, NEW w \in Writers, RefuseKey(w)
    PROVE  ConfInv'
<1> DEFINE r == [put[w] EXCEPT !.at = "refused"]
<1>1. /\ put \in [Writers -> PutType] /\ put[w] \in PutType
      /\ conf \in Values /\ confFile \in Texts
      BY ConfTypes DEF ConfInv
<1>2. /\ put' = [put EXCEPT ![w] = r] /\ put[w].at = "apply"
      /\ UNCHANGED <<conf, confFile, serving, puts, overlapped, bare>>
      /\ halfway' = (halfway \/ put[w].done # {})
      BY DEF RefuseKey, confServer
<1>3. /\ r \in PutType /\ r.at = "refused" /\ r.want = put[w].want
      /\ r.done = put[w].done /\ r.done \subseteq Given(w)
      BY <1>1 DEF PutType, ConfInv, PutShape
<1> HIDE DEF r
<1>4. /\ put' \in [Writers -> PutType] /\ put'[w] = r
      /\ \A v \in Writers \ {w} : put'[v] = put[v]
      /\ serving /\ PutShape' /\ Alone'
      /\ ~overlapped => \A v \in Writers \ {w} : IdlePut(v)
      BY <1>2, <1>3, WriterStep
<1>5. ConfTypeOK'
  <2>1. halfway' \in BOOLEAN BY <1>2 DEF ConfInv, ConfTypeOK
  <2> QED BY <1>1, <1>2, <1>4, <2>1
          DEF ConfInv, ConfTypeOK, Values, Texts, PutType
<1>6. Agree'
  <2> SUFFICES ASSUME ~overlapped, ~halfway, put[w].done = {}
               PROVE  Agree'
      BY <1>2 DEF Agree
  <2>1. \A k \in ConfKeys : conf[k] = Loaded(confFile)[k]
        BY <1>2, <1>4 DEF ConfInv, Agree
  <2>2. Loaded(confFile) = conf
        BY <1>1, <2>1, LoadedValues DEF Values
  <2>3. \A v \in Writers : put'[v].at \in {"idle", "answered", "refused"}
        BY <1>3, <1>4 DEF IdlePut
  <2> QED BY <1>2, <2>2, <2>3 DEF Agree
<1>7. Starts'
      BY <1>2, <1>3, <1>4 DEF ConfInv, Starts
<1> QED BY <1>4, <1>5, <1>6, <1>7 DEF ConfInv

LEMMA ReadKept ==
    ASSUME ConfInv, NEW w \in Writers, ReadConf(w)
    PROVE  ConfInv'
<1> DEFINE text == Updated(w)
           r == [put[w] EXCEPT !.at = "truncate", !.text = text]
<1>1. /\ put \in [Writers -> PutType] /\ put[w] \in PutType
      /\ conf \in Values /\ confFile \in Texts
      BY ConfTypes DEF ConfInv
<1>2. text \in Texts
      BY <1>1 DEF Updated, Texts, PutType
<1>3. /\ put' = [put EXCEPT ![w] = r] /\ put[w].at = "apply"
      /\ UNCHANGED <<conf, confFile, serving, puts, overlapped, halfway>>
      /\ bare' = (bare \/ (conf["plex"] = 1 /\ conf["token"] = 0))
      BY DEF ReadConf, confServer
<1>4. /\ r \in PutType /\ r.at = "truncate" /\ r.want = put[w].want
      /\ r.text = text /\ r.done = put[w].done /\ r.done \subseteq Given(w)
      BY <1>1, <1>2 DEF PutType, ConfInv, PutShape
<1> HIDE DEF r
<1>5. /\ put' \in [Writers -> PutType] /\ put'[w] = r
      /\ \A v \in Writers \ {w} : put'[v] = put[v]
      /\ serving /\ PutShape' /\ Alone'
      /\ ~overlapped => \A v \in Writers \ {w} : IdlePut(v)
      BY <1>3, <1>4, WriterStep
<1>6. ConfTypeOK'
  <2>1. bare' \in BOOLEAN BY <1>3 DEF ConfInv, ConfTypeOK
  <2> QED BY <1>1, <1>3, <1>5, <2>1
          DEF ConfInv, ConfTypeOK, Values, Texts, PutType
<1>7. ~overlapped /\ ~halfway => Loaded(text) = conf
  <2> SUFFICES ASSUME ~overlapped, ~halfway,
                      NEW k \in ConfKeys
               PROVE  Loaded(text)[k] = conf[k]
      BY <1>1, <1>2, LoadedValues DEF Values
  <2>1. conf[k] = IF k \in put[w].done THEN put[w].want[k]
                  ELSE Loaded(confFile)[k]
        BY <1>3, <1>5 DEF ConfInv, Agree
  <2>2. k \in put[w].done => put[w].want[k] # Absent
        BY DEF ConfInv, PutShape, Given
  <2> QED BY <2>1, <2>2 DEF Loaded, Updated, FileUpdates
<1>8. \A v \in Writers \ {w} : ~overlapped =>
          put'[v].at \in {"idle", "answered", "refused"}
      BY <1>5 DEF IdlePut
<1>9. Agree'
      BY <1>3, <1>4, <1>5, <1>7, <1>8 DEF Agree, IdlePut
<1>10. Starts'
  <2> SUFFICES ASSUME ~overlapped, ~halfway, ~bare,
                      ~(conf["plex"] = 1 /\ conf["token"] = 0)
               PROVE  /\ Valid(Loaded(confFile)) /\ Valid(Loaded(text))
      BY <1>3, <1>4, <1>5, <1>8 DEF Starts
  <2>1. conf["token"] \in 0 .. 1 BY <1>1 DEF Values, ConfKeys
  <2>2. Valid(conf) BY <2>1 DEF Valid
  <2> QED BY <1>7, <2>2 DEF ConfInv, Starts
<1> QED BY <1>5, <1>6, <1>9, <1>10 DEF ConfInv

\* The file is empty for a moment, and means the defaults.
LEMMA TruncateKept ==
    ASSUME ConfInv, NEW w \in Writers, TruncateConf(w)
    PROVE  ConfInv'
<1> DEFINE r == [put[w] EXCEPT !.at = "write"]
<1>1. /\ put \in [Writers -> PutType] /\ put[w] \in PutType
      /\ conf \in Values
      BY ConfTypes DEF ConfInv
<1>2. /\ put' = [put EXCEPT ![w] = r] /\ put[w].at = "truncate"
      /\ confFile' = Nothing
      /\ UNCHANGED <<conf, serving, puts, overlapped, halfway, bare>>
      BY DEF TruncateConf, confHist
<1>3. /\ r \in PutType /\ r.at = "write" /\ r.want = put[w].want
      /\ r.text = put[w].text /\ r.done \subseteq Given(w)
      BY <1>1 DEF PutType, ConfInv, PutShape
<1> HIDE DEF r
<1>4. /\ put' \in [Writers -> PutType] /\ put'[w] = r
      /\ \A v \in Writers \ {w} : put'[v] = put[v]
      /\ serving /\ PutShape' /\ Alone'
      /\ ~overlapped => \A v \in Writers \ {w} : IdlePut(v)
      BY <1>2, <1>3, WriterStep
<1>5. ConfTypeOK'
  <2>1. confFile' \in Texts BY <1>2, NothingText
  <2> QED BY <1>2, <1>4, <2>1
          DEF ConfInv, ConfTypeOK, Values, Texts, PutType
<1>6. \A v \in Writers \ {w} : ~overlapped =>
          put'[v].at \in {"idle", "answered", "refused"}
      BY <1>4 DEF IdlePut
<1>7. Agree'
      BY <1>2, <1>3, <1>4, <1>6 DEF ConfInv, Agree, IdlePut
<1>8. Starts'
  <2>1. Valid(Loaded(confFile'))
        BY <1>2 DEF Valid, Loaded, Nothing, Defaults, ConfKeys
  <2> QED BY <1>2, <1>3, <1>4, <1>6, <2>1 DEF ConfInv, Starts
<1> QED BY <1>4, <1>5, <1>7, <1>8 DEF ConfInv

LEMMA WriteKept ==
    ASSUME ConfInv, NEW w \in Writers, WriteConf(w)
    PROVE  ConfInv'
<1> DEFINE r == [put[w] EXCEPT !.at = "answered", !.text = conf]
<1>1. /\ put \in [Writers -> PutType] /\ put[w] \in PutType
      /\ conf \in Values /\ conf \in Texts
      BY ConfTypes, KnownValues DEF ConfInv
<1>2. /\ put' = [put EXCEPT ![w] = r] /\ put[w].at = "write"
      /\ confFile' = put[w].text
      /\ UNCHANGED <<conf, serving, puts, overlapped, halfway, bare>>
      BY DEF WriteConf, confHist
<1>3. /\ r \in PutType /\ r.at = "answered" /\ r.want = put[w].want
      /\ r.text = conf /\ r.done \subseteq Given(w)
      BY <1>1 DEF PutType, ConfInv, PutShape
<1> HIDE DEF r
<1>4. /\ put' \in [Writers -> PutType] /\ put'[w] = r
      /\ \A v \in Writers \ {w} : put'[v] = put[v]
      /\ serving /\ PutShape' /\ Alone'
      /\ ~overlapped => \A v \in Writers \ {w} : IdlePut(v)
      BY <1>1, <1>2, <1>3, WriterStep
<1>5. ConfTypeOK'
  <2>1. confFile' \in Texts BY <1>1, <1>2 DEF PutType
  <2> QED BY <1>2, <1>4, <2>1
          DEF ConfInv, ConfTypeOK, Values, Texts, PutType
<1>6. \A v \in Writers : ~overlapped =>
          put'[v].at \in {"idle", "answered", "refused"}
      BY <1>3, <1>4 DEF IdlePut
<1>7. Agree'
      BY <1>2, <1>4, <1>6 DEF ConfInv, Agree, IdlePut
<1>8. Starts'
      BY <1>2, <1>6 DEF ConfInv, Starts
<1> QED BY <1>4, <1>5, <1>7, <1>8 DEF ConfInv

LEMMA WriteStepKept ==
    ASSUME ConfInv, NEW w \in Writers, WriteStep(w)
    PROVE  ConfInv'
BY ApplyKept, RefuseKept, ReadKept, TruncateKept, WriteKept DEF WriteStep

\* A request that is over is forgotten.
LEMMA ForgetKept ==
    ASSUME ConfInv, NEW w \in Writers, IdlePut(w), Forgotten(w),
           UNCHANGED <<confServer, puts, confHist>>
    PROVE  ConfInv'
<1>1. /\ put \in [Writers -> PutType] /\ NoPut \in PutType
      /\ NoPut.at = "idle" /\ NoPut.done = {}
      BY ConfTypes, NothingText DEF ConfInv, NoPut, PutType
<1>2. /\ put' \in [Writers -> PutType] /\ put'[w] = NoPut
      /\ \A v \in Writers \ {w} : put'[v] = put[v]
      BY <1>1, PutReplaced DEF Forgotten
<1>3. UNCHANGED <<conf, confFile, serving, puts, overlapped, halfway, bare>>
      BY DEF confServer, confHist
<1>4. ConfTypeOK'
      BY <1>2, <1>3 DEF ConfInv, ConfTypeOK, Values, Texts, PutType
<1>5. \A v \in Writers \ {w} : Given(v)' = Given(v) BY <1>2 DEF Given
<1>6. PutShape'
      BY <1>1, <1>2, <1>3, <1>5 DEF ConfInv, PutShape, IdlePut
<1>7. \A v \in Writers : IdlePut(v)' <=> IdlePut(v)
      BY <1>1, <1>2 DEF IdlePut
<1>8. Alone' BY <1>3, <1>7 DEF ConfInv, Alone
<1>9. Agree'
      BY <1>1, <1>2, <1>3, <1>7 DEF ConfInv, Agree
<1>10. Starts'
      BY <1>1, <1>2, <1>3 DEF ConfInv, Starts
<1> QED BY <1>4, <1>6, <1>8, <1>9, <1>10 DEF ConfInv

LEMMA RestartKept ==
    ASSUME ConfInv, RestartServer
    PROVE  ConfInv'
<1>1. /\ conf \in Values /\ confFile \in Texts /\ Loaded(confFile) \in Values
      BY ConfTypes, LoadedValues DEF ConfInv
<1>2. /\ NoPut \in PutType /\ NoPut.at = "idle" /\ NoPut.done = {}
      BY NothingText DEF NoPut, PutType
<1>3. /\ put' \in [Writers -> PutType]
      /\ \A v \in Writers : put'[v].at = "idle" /\ put'[v].done = {}
      BY <1>2 DEF RestartServer
<1>4. /\ conf' = Loaded(confFile) /\ serving' = Valid(Loaded(confFile))
      /\ UNCHANGED <<confFile, puts>>
      /\ overlapped' = (overlapped /\ ~serving')
      /\ bare' = (bare /\ ~serving') /\ halfway' = (halfway /\ ~serving')
      BY DEF RestartServer
<1>5. ConfTypeOK'
  <2>1. /\ serving' \in BOOLEAN /\ overlapped' \in BOOLEAN
        /\ bare' \in BOOLEAN /\ halfway' \in BOOLEAN
        BY <1>4 DEF Valid
  <2> QED BY <1>1, <1>3, <1>4, <2>1
          DEF ConfInv, ConfTypeOK, Values, Texts, PutType
<1>6. PutShape' /\ Alone'
      BY <1>3 DEF PutShape, Alone, IdlePut
<1>7. Agree' BY <1>3, <1>4 DEF Agree
<1>8. Starts' BY <1>3, <1>4 DEF ConfInv, Starts
<1> QED BY <1>5, <1>6, <1>7, <1>8 DEF ConfInv

LEMMA CorrectKept ==
    ASSUME ConfInv, Correct
    PROVE  ConfInv'
<1>1. confFile \in Texts BY ConfTypes DEF ConfInv
<1>2. /\ ~serving /\ confFile' = [confFile EXCEPT !["plex"] = 0]
      /\ UNCHANGED <<conf, serving, put, puts, overlapped, halfway, bare>>
      BY DEF Correct, confHist
<1>3. confFile' \in Texts BY <1>1, <1>2, SMTT(30) DEF Texts, ConfKeys
<1>4. ConfTypeOK'
      BY <1>2, <1>3 DEF ConfInv, ConfTypeOK, Values, Texts, PutType
<1>5. PutShape' /\ Alone'
      BY <1>2 DEF ConfInv, PutShape, Alone, IdlePut, Given
<1>6. Agree' BY <1>2 DEF Agree
<1>7. Valid(Loaded(confFile'))
      BY <1>1, <1>2 DEF Valid, Loaded, Texts, ConfKeys, Absent
<1>8. Starts' BY <1>2, <1>7 DEF ConfInv, Starts
<1> QED BY <1>4, <1>5, <1>6, <1>8 DEF ConfInv

\* What the steps of a request do to it, for those who look from outside.
LEMMA WriteStepSeen ==
    ASSUME ConfInv, NEW w \in Writers, WriteStep(w)
    PROVE  /\ put[w].at # "idle" /\ put'[w].at # "idle"
           /\ put'[w].want = put[w].want
           /\ put'[w].at = "answered" => put'[w].text = conf'
           /\ \A v \in Writers \ {w} : put'[v] = put[v]
<1>1. put \in [Writers -> PutType] /\ put[w] \in PutType
      BY ConfTypes DEF ConfInv
<1>2. CASE ApplyKey(w)
  <2>1. /\ put[w].at = "apply"
        /\ put' = [put EXCEPT ![w] =
                      [put[w] EXCEPT !.done = put[w].done \cup {NextKey(w)}]]
        BY <1>2 DEF ApplyKey
  <2> QED BY <1>1, <2>1 DEF PutType
<1>3. CASE RefuseKey(w)
  <2>1. /\ put[w].at = "apply"
        /\ put' = [put EXCEPT ![w] = [put[w] EXCEPT !.at = "refused"]]
        BY <1>3 DEF RefuseKey
  <2> QED BY <1>1, <2>1 DEF PutType
<1>4. CASE ReadConf(w)
  <2>1. /\ put[w].at = "apply"
        /\ put' = [put EXCEPT ![w] = [put[w] EXCEPT !.at = "truncate",
                                                    !.text = Updated(w)]]
        BY <1>4 DEF ReadConf
  <2> QED BY <1>1, <2>1 DEF PutType
<1>5. CASE TruncateConf(w)
  <2>1. /\ put[w].at = "truncate"
        /\ put' = [put EXCEPT ![w] = [put[w] EXCEPT !.at = "write"]]
        BY <1>5 DEF TruncateConf
  <2> QED BY <1>1, <2>1 DEF PutType
<1>6. CASE WriteConf(w)
  <2>1. /\ put[w].at = "write" /\ conf' = conf
        /\ put' = [put EXCEPT ![w] = [put[w] EXCEPT !.at = "answered",
                                                    !.text = conf]]
        BY <1>6 DEF WriteConf
  <2> QED BY <1>1, <2>1 DEF PutType
<1> QED BY <1>2, <1>3, <1>4, <1>5, <1>6 DEF WriteStep

-----------------------------------------------------------------------------
(* The invariant of the page. *)

\* What the page holds while it opens and while it saves.
PageShape ==
    /\ fetched = Nothing \/ fetched \in Values
    /\ page = "opening" => ~saving /\ unsaved = {}
    /\ ~saving => put[PageWriter].at = "idle"
    /\ saving /\ put[PageWriter].at # "idle" =>
          \A k \in FormKeys \ meanwhile :
              \/ form[k] = put[PageWriter].want[k]
              \/ k = "token" /\ form[k] = 0

\* What was typed and not sent can be told from the form, unless a save took
\* it away.
Unsent ==
    \A k \in unsaved : \/ form[k] # FormOf(cfg)[k]
                       \/ k \in meanwhile \cap {"token", "encoder"}

\* Unless something happened elsewhere, what was fetched, is shown, or has
\* been answered, is what the server has.
Current ==
    ~elsewhere =>
        \A k \in FormKeys :
            /\ page = "opening" /\ fetched # Nothing => fetched[k] = conf[k]
            /\ page \in {"open", "blocked"} /\ ~saving => cfg[k] = conf[k]
            /\ /\ page \in {"open", "blocked"}
               /\ saving /\ put[PageWriter].at = "answered"
               => put[PageWriter].text[k] = conf[k]

SettingsInv == ConfInv /\ SettingsTypeOK /\ PageShape /\ Unsent /\ Current

LEMMA PageTypes ==
    SettingsTypeOK <=>
        /\ page \in {"away", "opening", "open", "blocked"}
        /\ fetched \in Texts /\ cfg \in Texts /\ form \in Values
        /\ saving \in BOOLEAN /\ edits \in 0 .. MaxEdits
        /\ unsaved \subseteq FormKeys /\ meanwhile \subseteq FormKeys
        /\ elsewhere \in BOOLEAN
BY DEF SettingsTypeOK, Values, Texts

LEMMA FormValues ==
    ASSUME NEW c \in Values
    PROVE  /\ FormOf(c) \in Values /\ FormOf(c)["token"] = 0
           /\ \A k \in ConfKeys \ {"token"} : FormOf(c)[k] = c[k]
<1>1. "token" \in ConfKeys BY DEF ConfKeys
<1> QED BY <1>1 DEF FormOf, Values

\* The form of any text, which may lack keys.
LEMMA FormTexts ==
    ASSUME NEW c \in Texts
    PROVE  /\ FormOf(c)["token"] = 0
           /\ \A k \in ConfKeys \ {"token"} : FormOf(c)[k] = c[k]
<1>1. "token" \in ConfKeys BY DEF ConfKeys
<1> QED BY <1>1 DEF FormOf, Texts

LEMMA SettingsStart == SettingsInit => SettingsInv
<1> SUFFICES ASSUME SettingsInit PROVE SettingsInv
    OBVIOUS
<1>1. ConfInv /\ put[PageWriter].at = "idle"
      BY ConfStart, SettingsAssumption DEF SettingsInit, ConfInit, NoPut
<1>2. SettingsTypeOK
  <2>1. /\ fetched \in Texts /\ cfg \in Texts /\ form \in Values
        BY NothingText DEF SettingsInit
  <2>2. edits \in 0 .. MaxEdits BY SettingsAssumption DEF SettingsInit
  <2>3. saving \in BOOLEAN /\ elsewhere \in BOOLEAN BY DEF SettingsInit
  <2>4. /\ page \in {"away", "opening", "open", "blocked"}
        /\ unsaved \subseteq FormKeys /\ meanwhile \subseteq FormKeys
        BY DEF SettingsInit
  <2> QED BY <2>1, <2>2, <2>3, <2>4, PageTypes
<1>3. PageShape /\ Unsent BY <1>1 DEF SettingsInit, PageShape, Unsent
<1>4. Current BY DEF SettingsInit, Current
<1> QED BY <1>1, <1>2, <1>3, <1>4 DEF SettingsInv

-----------------------------------------------------------------------------
(* The steps of the page. *)

LEMMA ConfSame ==
    ASSUME ConfInv, UNCHANGED confVars
    PROVE  /\ ConfInv'
           /\ UNCHANGED <<conf, confFile, serving, put, puts>>
<1>1. UNCHANGED <<conf, confFile, serving, put, puts, overlapped, halfway,
                  bare>>
      BY DEF confVars, confServer, confHist
<1>2. ConfTypeOK' BY <1>1 DEF ConfInv, ConfTypeOK
<1>3. PutShape' /\ Alone' /\ Agree' /\ Starts'
      BY <1>1
      DEF ConfInv, PutShape, Alone, Agree, Starts, IdlePut, Given
<1> QED BY <1>1, <1>2, <1>3 DEF ConfInv

LEMMA FetchKept ==
    ASSUME SettingsInv, Fetch
    PROVE  SettingsInv'
<1>1. ConfInv' /\ UNCHANGED <<conf, confFile, serving, put, puts>>
      BY ConfSame DEF SettingsInv, Fetch
<1>2. /\ page = "opening" /\ fetched' = conf /\ elsewhere' = FALSE
      /\ UNCHANGED <<page, cfg, form, saving, edits, unsaved, meanwhile>>
      BY DEF Fetch
<1>3. conf \in Values /\ conf \in Texts
      BY ConfTypes, KnownValues DEF SettingsInv, ConfInv
<1>4. SettingsTypeOK' BY <1>2, <1>3 DEF SettingsInv, SettingsTypeOK, Texts
<1>5. PageShape' /\ Unsent' /\ Current'
      BY <1>1, <1>2, <1>3
      DEF SettingsInv, PageShape, Unsent, Current, FormOf
<1> QED BY <1>1, <1>4, <1>5 DEF SettingsInv

LEMMA ShowFormKept ==
    ASSUME SettingsInv, ShowForm
    PROVE  SettingsInv'
<1>1. ConfInv' /\ UNCHANGED <<conf, confFile, serving, put, puts>>
      BY ConfSame DEF SettingsInv, ShowForm
<1>2. /\ page = "opening" /\ fetched # Nothing /\ fetched' = Nothing
      /\ page' = "open" /\ cfg' = fetched /\ form' = FormOf(fetched)
      /\ UNCHANGED <<saving, edits, unsaved, meanwhile, elsewhere>>
      BY DEF ShowForm, settingsHist
<1>3. /\ fetched \in Values /\ FormOf(fetched) \in Values
      /\ ~saving /\ unsaved = {}
      BY <1>2, FormValues DEF SettingsInv, PageShape
<1>4. SettingsTypeOK'
      BY <1>2, <1>3, NothingText, KnownValues
      DEF SettingsInv, SettingsTypeOK, Texts, Values
<1>5. PageShape' /\ Unsent' /\ Current'
      BY <1>1, <1>2, <1>3
      DEF SettingsInv, PageShape, Unsent, Current
<1> QED BY <1>1, <1>4, <1>5 DEF SettingsInv

LEMMA EditKept ==
    ASSUME SettingsInv, NEW k \in FormKeys, Edit(k)
    PROVE  SettingsInv'
<1>1. ConfInv' /\ UNCHANGED <<conf, confFile, serving, put, puts>>
      BY ConfSame DEF SettingsInv, Edit
<1>2. /\ page = "open" /\ edits < MaxEdits /\ edits' = edits + 1
      /\ form' = [form EXCEPT ![k] = 1 - form[k]]
      /\ UNCHANGED <<page, fetched, cfg, saving, elsewhere>>
      BY DEF Edit
<1>3. /\ unsaved' = IF form'[k] = FormOf(cfg)[k] THEN unsaved \ {k}
                                                ELSE unsaved \cup {k}
      /\ meanwhile' = IF saving THEN meanwhile \cup {k} ELSE meanwhile
      BY DEF Edit
<1>4. /\ form \in Values /\ form' \in Values
      /\ \A j \in ConfKeys \ {k} : form'[j] = form[j]
      BY <1>2, PageTypes DEF SettingsInv, FormKeys, Values
<1>5. SettingsTypeOK'
  <2>1. edits' \in 0 .. MaxEdits
        BY <1>2, SettingsAssumption DEF SettingsInv, SettingsTypeOK
  <2>2. unsaved' \subseteq FormKeys /\ meanwhile' \subseteq FormKeys
        BY <1>3 DEF SettingsInv, SettingsTypeOK
  <2> QED BY <1>2, <1>4, <2>1, <2>2
          DEF SettingsInv, SettingsTypeOK, Values
<1>6. PageShape'
      BY <1>1, <1>2, <1>3, <1>4
      DEF SettingsInv, PageShape, FormKeys
<1>7. Unsent'
  <2> SUFFICES ASSUME NEW j \in unsaved'
               PROVE  \/ form'[j] # FormOf(cfg)[j]
                      \/ j \in meanwhile' \cap {"token", "encoder"}
      BY <1>2 DEF Unsent, FormOf
  <2>1. j \in FormKeys /\ j \in ConfKeys
        BY <1>5 DEF SettingsTypeOK, FormKeys
  <2>2. j = k => form'[j] # FormOf(cfg)[j] BY <1>3
  <2>3. j # k => j \in unsaved /\ form'[j] = form[j] BY <1>3, <1>4, <2>1
  <2> QED BY <1>3, <2>2, <2>3 DEF SettingsInv, Unsent
<1>8. Current'
      BY <1>1, <1>2 DEF SettingsInv, Current
<1> QED BY <1>1, <1>5, <1>6, <1>7, <1>8 DEF SettingsInv

LEMMA SaveKept ==
    ASSUME SettingsInv, Save
    PROVE  SettingsInv'
<1>1. /\ page = "open" /\ ~saving /\ StartPut(PageWriter, Updates)
      /\ saving' = TRUE /\ meanwhile' = (unsaved \cap meanwhile) \ DirtyKeys
      /\ UNCHANGED <<page, fetched, cfg, form, edits, unsaved, elsewhere>>
      BY DEF Save
<1>2. /\ form \in Values /\ cfg \in Texts BY PageTypes DEF SettingsInv
<1>3. Updates \in Texts
      BY <1>2 DEF Updates, Texts, Values, Absent
<1>4. ConfInv'
      BY <1>1, <1>3, StartKept, SettingsAssumption DEF SettingsInv
<1>5. /\ UNCHANGED <<conf, confFile, serving>>
      /\ put'[PageWriter].want = Updates /\ put'[PageWriter].at = "apply"
  <2>1. /\ put' = [put EXCEPT ![PageWriter] = [put[PageWriter] EXCEPT
                       !.at = "apply", !.want = Updates]]
        /\ UNCHANGED <<conf, confFile, serving>>
        BY <1>1 DEF StartPut, confServer
  <2>2. put \in [Writers -> PutType] BY ConfTypes DEF SettingsInv, ConfInv
  <2> QED BY <2>1, <2>2, SettingsAssumption DEF PutType
<1>6. SettingsTypeOK'
      BY <1>1, PageTypes DEF SettingsInv, SettingsTypeOK
<1>7. PageShape'
  <2>1. \A k \in FormKeys : Updates[k] = form[k] \/ (k = "token" /\ form[k] = 0)
        BY DEF Updates, FormKeys
  <2> QED BY <1>1, <1>5, <2>1 DEF SettingsInv, PageShape
<1>8. Unsent'
  <2>1. \A k \in unsaved : k \notin DirtyKeys => form[k] = FormOf(cfg)[k]
        BY DEF SettingsInv, SettingsTypeOK, DirtyKeys
  <2>2. \A k \in unsaved : k \in DirtyKeys => form[k] # FormOf(cfg)[k]
        BY DEF DirtyKeys
  <2> QED BY <1>1, <2>1, <2>2 DEF SettingsInv, Unsent, FormOf
<1>9. Current' BY <1>1, <1>5 DEF SettingsInv, Current
<1> QED BY <1>4, <1>6, <1>7, <1>8, <1>9 DEF SettingsInv

\* The request of the page is over and forgotten.
LEMMA PutForgotten ==
    ASSUME SettingsInv, Forgotten(PageWriter), IdlePut(PageWriter),
           UNCHANGED <<confServer, puts, confHist>>
    PROVE  /\ ConfInv' /\ put'[PageWriter].at = "idle"
           /\ UNCHANGED <<conf, confFile, serving>>
<1>1. ConfInv' BY ForgetKept, SettingsAssumption DEF SettingsInv
<1>2. put \in [Writers -> PutType] BY ConfTypes DEF SettingsInv, ConfInv
<1> QED BY <1>1, <1>2, SettingsAssumption DEF Forgotten, NoPut, confServer

\* The answer takes the token and the encoder from the form, and everything
\* else is what was sent or has been typed since.
LEMMA ShowSavedKept ==
    ASSUME SettingsInv, ShowSaved
    PROVE  SettingsInv'
<1>1. /\ saving /\ put[PageWriter].at = "answered" /\ saving' = FALSE
      /\ cfg' = Answer /\ Answer = put[PageWriter].text
      /\ form' = [form EXCEPT !["encoder"] = Answer["encoder"],
                              !["token"] = 0]
      /\ unsaved' = {k \in unsaved : /\ form[k] # put[PageWriter].want[k]
                                     /\ form[k] # FormOf(Answer)[k]}
      /\ UNCHANGED <<page, fetched, edits, meanwhile, elsewhere>>
      BY DEF ShowSaved, Answer
<1>2. /\ ConfInv' /\ put'[PageWriter].at = "idle"
      /\ UNCHANGED <<conf, confFile, serving>>
      BY <1>1, PutForgotten DEF ShowSaved, IdlePut
<1>3. Answer \in Values /\ Answer \in Texts
      BY <1>1, KnownValues, SettingsAssumption
      DEF SettingsInv, ConfInv, PutShape
<1>4. /\ form \in Values /\ form' \in Values
      /\ form'["token"] = 0 /\ form'["encoder"] = Answer["encoder"]
      /\ \A k \in ConfKeys \ {"token", "encoder"} : form'[k] = form[k]
  <2>1. /\ form \in Values /\ "token" \in ConfKeys /\ "encoder" \in ConfKeys
        BY PageTypes DEF SettingsInv, ConfKeys
  <2> QED BY <1>1, <1>3, <2>1 DEF Values
<1>5. SettingsTypeOK'
      BY <1>1, <1>3, <1>4 DEF SettingsInv, SettingsTypeOK, Values, Texts
<1>6. PageShape'
      BY <1>1, <1>2 DEF SettingsInv, PageShape
<1>7. Unsent'
  <2> SUFFICES ASSUME NEW k \in unsaved'
               PROVE  \/ form'[k] # FormOf(Answer)[k]
                      \/ k \in meanwhile \cap {"token", "encoder"}
      BY <1>1 DEF Unsent, FormOf
  <2>1. /\ k \in FormKeys /\ k \in ConfKeys
        /\ form[k] # put[PageWriter].want[k] /\ form[k] # FormOf(Answer)[k]
        BY <1>1 DEF SettingsInv, SettingsTypeOK, FormKeys
  <2>2. CASE k \notin {"token", "encoder"} BY <1>4, <2>1, <2>2
  <2>3. CASE k \in {"token", "encoder"}
    <3>1. ~(k = "token" /\ form[k] = 0)
          BY <1>3, <2>1, FormValues
    <3>2. k \in meanwhile
          BY <1>1, <2>1, <3>1 DEF SettingsInv, PageShape
    <3> QED BY <2>3, <3>2
  <2> QED BY <2>2, <2>3
<1>8. Current'
      BY <1>1, <1>2 DEF SettingsInv, Current
<1> QED BY <1>2, <1>5, <1>6, <1>7, <1>8 DEF SettingsInv

LEMMA ShowFailedKept ==
    ASSUME SettingsInv, ShowFailed
    PROVE  SettingsInv'
<1>1. /\ saving' = FALSE /\ elsewhere' = TRUE
      /\ UNCHANGED <<page, fetched, cfg, form, edits, unsaved, meanwhile>>
      BY DEF ShowFailed
<1>2. /\ ConfInv' /\ put'[PageWriter].at = "idle"
      /\ UNCHANGED <<conf, confFile, serving>>
      BY PutForgotten DEF ShowFailed, IdlePut
<1>3. SettingsTypeOK' BY <1>1 DEF SettingsInv, SettingsTypeOK
<1>4. PageShape' /\ Unsent' /\ Current'
      BY <1>1, <1>2 DEF SettingsInv, PageShape, Unsent, Current, FormOf
<1> QED BY <1>2, <1>3, <1>4 DEF SettingsInv

LEMMA OpenKept ==
    ASSUME SettingsInv, OpenSettings
    PROVE  SettingsInv'
<1>1. /\ page' = "opening" /\ fetched' = Nothing /\ cfg' = Nothing
      /\ form' = Defaults /\ saving' = FALSE /\ edits' = 0
      /\ unsaved' = {} /\ meanwhile' = {} /\ elsewhere' = FALSE
      BY DEF OpenSettings
<1>2. /\ ConfInv' /\ put'[PageWriter].at = "idle"
      /\ UNCHANGED <<conf, confFile, serving>>
      BY PutForgotten DEF OpenSettings, IdlePut
<1>3. SettingsTypeOK'
  <2>1. fetched' \in Texts /\ cfg' \in Texts /\ form' \in Values
        BY <1>1, NothingText
  <2>2. edits' \in 0 .. MaxEdits BY <1>1, SettingsAssumption
  <2>3. saving' \in BOOLEAN /\ elsewhere' \in BOOLEAN
        BY <1>1
  <2>4. /\ page' \in {"away", "opening", "open", "blocked"}
        /\ unsaved' \subseteq FormKeys /\ meanwhile' \subseteq FormKeys
        BY <1>1
  <2> QED BY <2>1, <2>2, <2>3, <2>4 DEF SettingsTypeOK, Texts, Values
<1>4. PageShape' /\ Unsent' /\ Current'
      BY <1>1, <1>2 DEF PageShape, Unsent, Current
<1> QED BY <1>2, <1>3, <1>4 DEF SettingsInv

LEMMA LeavingKept ==
    ASSUME SettingsInv, LeaveSettings \/ Stay \/ LeaveAnyway
    PROVE  SettingsInv'
<1>1. ConfInv' /\ UNCHANGED <<conf, confFile, serving, put, puts>>
      BY ConfSame DEF SettingsInv, LeaveSettings, Stay, LeaveAnyway
<1>2. /\ page \in {"open", "blocked"} /\ page' \in {"open", "blocked", "away"}
      /\ unsaved' \subseteq unsaved
      /\ UNCHANGED <<fetched, cfg, form, saving, edits, meanwhile, elsewhere>>
      BY DEF LeaveSettings, Stay, LeaveAnyway, settingsHist
<1>3. SettingsTypeOK' BY <1>2 DEF SettingsInv, SettingsTypeOK
<1>4. PageShape' /\ Unsent' /\ Current'
      BY <1>1, <1>2 DEF SettingsInv, PageShape, Unsent, Current, FormOf
<1> QED BY <1>1, <1>3, <1>4 DEF SettingsInv

-----------------------------------------------------------------------------
(* The steps of the server and of others. *)

\* What keeps the page as it is and touches its request only as a step of
\* that request or a restart does.
LEMMA OutsideKept ==
    ASSUME SettingsInv, ConfInv', SettingsKept, elsewhere' \in BOOLEAN,
           elsewhere => elsewhere',
           put'[PageWriter].at # "idle" =>
               /\ put[PageWriter].at # "idle"
               /\ put'[PageWriter].want = put[PageWriter].want,
           ~elsewhere' =>
               IF saving THEN put'[PageWriter].at = "answered" =>
                                  put'[PageWriter].text = conf'
               ELSE UNCHANGED conf
    PROVE  SettingsInv'
<1>1. UNCHANGED <<page, fetched, cfg, form, saving, edits, unsaved, meanwhile>>
      BY DEF SettingsKept, settingsShown
<1>2. SettingsTypeOK' BY <1>1 DEF SettingsInv, SettingsTypeOK
<1>3. PageShape' BY <1>1 DEF SettingsInv, PageShape
<1>4. Unsent' BY <1>1 DEF SettingsInv, Unsent, FormOf
<1>5. Current' BY <1>1 DEF SettingsInv, PageShape, Current
<1> QED BY <1>2, <1>3, <1>4, <1>5 DEF SettingsInv

LEMMA ConfigStepKept ==
    ASSUME SettingsInv, ConfigStep
    PROVE  SettingsInv'
<1>1. PICK w \in Writers : /\ WriteStep(w)
                           /\ elsewhere' = (elsewhere \/ w # PageWriter)
      BY DEF ConfigStep
<1>2. /\ ConfInv' /\ put[w].at # "idle" /\ put'[w].at # "idle"
      /\ put'[w].want = put[w].want
      /\ put'[w].at = "answered" => put'[w].text = conf'
      /\ \A v \in Writers \ {w} : put'[v] = put[v]
      BY <1>1, WriteStepKept, WriteStepSeen DEF SettingsInv
<1>3. elsewhere' \in BOOLEAN /\ (elsewhere => elsewhere')
      BY <1>1 DEF SettingsInv, SettingsTypeOK
<1>4. ~elsewhere' => w = PageWriter /\ saving
      BY <1>1, <1>2 DEF SettingsInv, PageShape
<1> QED BY <1>2, <1>3, <1>4, OutsideKept, SettingsAssumption DEF ConfigStep

LEMMA ElsewhereKept ==
    ASSUME SettingsInv, ConfigElsewhere
    PROVE  SettingsInv'
<1>1. PICK w \in Writers \ {PageWriter} :
          /\ \/ PutElsewhere(w) \/ RestartServer \/ Correct
             \/ /\ put[w].at \in {"answered", "refused"} /\ Forgotten(w)
                /\ UNCHANGED <<confServer, puts, confHist>>
      BY DEF ConfigElsewhere
<1>2. elsewhere' = TRUE /\ SettingsKept BY DEF ConfigElsewhere
<1>3. /\ put \in [Writers -> PutType] /\ conf \in Values
      BY ConfTypes DEF SettingsInv, ConfInv
<1>4. CASE PutElsewhere(w)
  <2>1. PICK want \in Texts : StartPut(w, want)
    <3>1. CASE \E k \in FormKeys :
            StartPut(w, [f \in ConfKeys |->
                          IF f = k THEN IF k = "token" THEN 1 ELSE 1 - conf[k]
                          ELSE IF f \in {"token", "paused"} THEN Absent
                          ELSE conf[f]])
      <4>1. PICK k \in FormKeys :
              StartPut(w, [f \in ConfKeys |->
                          IF f = k THEN IF k = "token" THEN 1 ELSE 1 - conf[k]
                          ELSE IF f \in {"token", "paused"} THEN Absent
                          ELSE conf[f]])
            BY <3>1
      <4>2. [f \in ConfKeys |->
                          IF f = k THEN IF k = "token" THEN 1 ELSE 1 - conf[k]
                          ELSE IF f \in {"token", "paused"} THEN Absent
                          ELSE conf[f]] \in Texts
            BY <1>3 DEF Texts, Values, Absent, FormKeys
      <4> QED BY <4>1, <4>2
    <3>2. CASE \E b \in 0 .. 1 : StartPut(w, [Nothing EXCEPT !["paused"] = b])
      <4>1. PICK b \in 0 .. 1 : StartPut(w, [Nothing EXCEPT !["paused"] = b])
            BY <3>2
      <4>2. [Nothing EXCEPT !["paused"] = b] \in Texts
            BY NothingText DEF Texts, ConfKeys
      <4> QED BY <4>1, <4>2
    <3> QED BY <1>4, <3>1, <3>2 DEF PutElsewhere
  <2>2. ConfInv' BY <2>1, StartKept DEF SettingsInv
  <2>3. put'[PageWriter] = put[PageWriter]
        BY <1>3, <2>1, SettingsAssumption DEF StartPut
  <2> QED BY <1>2, <2>2, <2>3, OutsideKept
<1>5. CASE RestartServer
  <2>1. ConfInv' BY <1>5, RestartKept DEF SettingsInv
  <2>2. put'[PageWriter].at = "idle"
        BY <1>5, SettingsAssumption DEF RestartServer, NoPut
  <2> QED BY <1>2, <2>1, <2>2, OutsideKept
<1>6. CASE Correct
  <2>1. ConfInv' /\ put' = put BY <1>6, CorrectKept DEF SettingsInv, Correct
  <2> QED BY <1>2, <2>1, OutsideKept
<1>7. CASE /\ put[w].at \in {"answered", "refused"} /\ Forgotten(w)
           /\ UNCHANGED <<confServer, puts, confHist>>
  <2>1. ConfInv' BY <1>7, ForgetKept DEF SettingsInv, IdlePut
  <2>2. put'[PageWriter] = put[PageWriter]
        BY <1>3, <1>7, SettingsAssumption DEF Forgotten
  <2> QED BY <1>2, <2>1, <2>2, OutsideKept
<1> QED BY <1>1, <1>4, <1>5, <1>6, <1>7

LEMMA SettingsStep ==
    SettingsInv /\ [SettingsNext]_settingsVars => SettingsInv'
<1> SUFFICES ASSUME SettingsInv, [SettingsNext]_settingsVars
             PROVE  SettingsInv'
    OBVIOUS
<1>1. CASE Fetch \/ ShowForm BY <1>1, FetchKept, ShowFormKept
<1>2. CASE EditEncoder \/ EditRoots \/ EditPlex \/ EditToken
  <2>1. /\ "encoder" \in FormKeys /\ "roots" \in FormKeys
        /\ "plex" \in FormKeys /\ "token" \in FormKeys
        BY DEF FormKeys, ConfKeys
  <2> QED BY <1>2, <2>1, EditKept
          DEF EditEncoder, EditRoots, EditPlex, EditToken
<1>3. CASE Save \/ ShowSaved \/ ShowFailed
      BY <1>3, SaveKept, ShowSavedKept, ShowFailedKept
<1>4. CASE LeaveSettings \/ Stay \/ LeaveAnyway \/ OpenSettings
      BY <1>4, LeavingKept, OpenKept
<1>5. CASE ConfigStep \/ ConfigElsewhere
      BY <1>5, ConfigStepKept, ElsewhereKept
<1>6. CASE UNCHANGED settingsVars
  <2>1. ConfInv' /\ UNCHANGED <<conf, confFile, serving, put, puts>>
        BY <1>6, ConfSame DEF settingsVars, SettingsInv
  <2>2. UNCHANGED <<page, fetched, cfg, form, saving, edits, unsaved,
                    meanwhile, elsewhere>>
        BY <1>6 DEF settingsVars, settingsShown, settingsHist
  <2> QED BY <2>1, <2>2
          DEF SettingsInv, SettingsTypeOK, PageShape, Unsent, Current, FormOf
<1> QED BY <1>1, <1>2, <1>3, <1>4, <1>5, <1>6 DEF SettingsNext

-----------------------------------------------------------------------------

\* Every variable of the page and of the configuration keeps its type.
THEOREM SettingsTypes == SettingsSpec => [](ConfTypeOK /\ SettingsTypeOK)
<1>1. SettingsInv => ConfTypeOK /\ SettingsTypeOK BY DEF SettingsInv, ConfInv
<1> QED BY <1>1, SettingsStart, SettingsStep, PTL DEF SettingsSpec

\* The file is what the server works with once no request is under way, unless
\* requests overlapped or one was refused half done: every field that
\* handleUpdateConfig changes in memory is among its updates of the file.
THEOREM FileFollowsMemory == SettingsSpec => []FileIsMemory
<1>1. SettingsInv => FileIsMemory
      BY DEF SettingsInv, ConfInv, Agree, FileIsMemory, Untouched
<1> QED BY <1>1, SettingsStart, SettingsStep, PTL DEF SettingsSpec

\* The file the server writes starts it again, at every moment of the writing,
\* the truncated file included, with the same exceptions and that of plex
\* enabled without a token.
THEOREM WrittenFilesStart == SettingsSpec => []FileStarts
<1>1. SettingsInv => FileStarts
      BY DEF SettingsInv, ConfInv, Starts, FileStarts
<1> QED BY <1>1, SettingsStart, SettingsStep, PTL DEF SettingsSpec

\* Nothing that was typed is lost without a question, but for a token or a
\* choice of encoder made while a save is under way (isDirty, handleSave).
THEOREM NothingIsLost == SettingsSpec => []CleanMeansSaved
<1>1. SettingsInv => CleanMeansSaved
  <2> SUFFICES ASSUME SettingsInv, ~isDirty, NEW k \in unsaved
               PROVE  k \in meanwhile \cap {"token", "encoder"}
      BY DEF CleanMeansSaved
  <2>1. form[k] = FormOf(cfg)[k]
        BY DEF isDirty, DirtyKeys, SettingsInv, SettingsTypeOK
  <2> QED BY <2>1 DEF SettingsInv, Unsent
<1> QED BY <1>1, SettingsStart, SettingsStep, PTL DEF SettingsSpec

\* A form that has been saved shows the settings of the server, unless others
\* changed them, the server was started again or a save failed.
THEOREM FormsAreCurrent == SettingsSpec => []QuietSettingsAreTrue
<1>1. SettingsInv => QuietSettingsAreTrue
      BY DEF SettingsInv, Current, QuietSettingsAreTrue
<1> QED BY <1>1, SettingsStart, SettingsStep, PTL DEF SettingsSpec
=============================================================================
