--------------------------- MODULE SessionProofs ---------------------------
(* Theorems about Session, for every set of passwords and of requests and   *)
(* any number of terms.                                                    *)
EXTENDS Session, TLAPS

Entered == Passwords \cup {NoPassword}
Codes == {0, OK, 400, Unauthorized, 403, 404}
RequestType == [op : {"none", "page", "config", "login", "change", "remove"},
                at : {"idle", "sent", "answered"},
                tok : 0 .. MaxTerms, old : Entered, new : Entered,
                status : Codes]
Requests == [SessionTasks -> RequestType]

\* Requests that a page inside the Layout makes, and those of the Login page.
InsideOps == {"page", "change", "remove"}
LoginOps  == {"config", "login"}

-----------------------------------------------------------------------------
(* The invariant. *)

\* Tokens are of this term or of an earlier one; a request that was refused
\* carried one of an earlier term.
TokensAreIssued ==
    /\ token <= term
    /\ \A t \in SessionTasks :
          /\ request[t].tok <= term
          /\ /\ request[t].at = "answered" /\ request[t].status = Unauthorized
             /\ request[t].op \in InsideOps
             => request[t].tok < term

\* Inside the application every request carries the token of the session;
\* the Login page makes one request at a time.
OneSession ==
    /\ route = "inside" =>
          \A t \in SessionTasks : request[t].at # "idle" =>
              request[t].op \in InsideOps /\ request[t].tok = token
    /\ route = "login" =>
          /\ \A t \in SessionTasks : request[t].at # "idle" =>
                /\ request[t].op \in LoginOps
                /\ request[t].op = "config" => checking
          /\ \A t, u \in SessionTasks :
                request[t].at # "idle" /\ request[u].at # "idle" => t = u

\* A request that is not under way is none.
IdleIsNone == \A t \in SessionTasks : request[t].at = "idle" =>
                                          request[t].op = "none"

SessionInv == SessionTypeOK /\ TokensAreIssued /\ OneSession /\ IdleIsNone

LEMMA Typing == SessionTypeOK => request \in Requests
BY DEF SessionTypeOK, Requests, RequestType, Entered, Codes

\* One request changes.
LEMMA RequestReplaced ==
    ASSUME request \in Requests, NEW t \in SessionTasks,
           NEW r \in RequestType, request' = [request EXCEPT ![t] = r]
    PROVE  /\ request' \in Requests /\ request'[t] = r
           /\ \A u \in SessionTasks \ {t} : request'[u] = request[u]
BY DEF Requests

\* Every action below keeps the invariant.
LEMMA InsideKept ==
    ASSUME SessionInv, NEW t \in SessionTasks,
           NEW op \in InsideOps, NEW old \in Entered, NEW new \in Entered,
           route = "inside", request[t].at = "idle",
           request' = [request EXCEPT ![t] = Sending(op, token, old, new)],
           UNCHANGED <<sessionServer, token, sessionShown>>
    PROVE  SessionInv'
<1> DEFINE r == Sending(op, token, old, new)
<1>1. r \in RequestType
      BY DEF Sending, RequestType, InsideOps, Codes, SessionInv, SessionTypeOK
<1>2. /\ r.op = op /\ r.at = "sent" /\ r.tok = token
      BY DEF Sending
<1>3. request \in Requests /\ request' = [request EXCEPT ![t] = r]
      BY Typing DEF SessionInv
<1> HIDE DEF r
<1>4. /\ request' \in Requests /\ request'[t] = r
      /\ \A u \in SessionTasks \ {t} : request'[u] = request[u]
      BY <1>1, <1>3, RequestReplaced
<1>5. SessionTypeOK'
      BY <1>4 DEF SessionInv, SessionTypeOK, Requests, RequestType, Entered,
             Codes,
         sessionServer, sessionShown
<1>6. TokensAreIssued' /\ OneSession' /\ IdleIsNone'
      BY <1>2, <1>4
      DEF SessionInv, TokensAreIssued, OneSession, IdleIsNone, InsideOps,
          sessionServer, sessionShown
<1> QED BY <1>5, <1>6 DEF SessionInv

LEMMA AskingKept ==
    ASSUME SessionInv, NEW t \in SessionTasks,
           AskPage(t) \/ ChangePassword(t) \/ RemovePassword(t)
    PROVE  SessionInv'
<1>1. CASE AskPage(t)
  <2>1. /\ route = "inside" /\ request[t].at = "idle"
        /\ UNCHANGED <<sessionServer, token, sessionShown>>
        /\ request' = [request EXCEPT ![t] =
                          Sending("page", token, NoPassword, NoPassword)]
        BY <1>1 DEF AskPage, FreeTask
  <2> QED BY <2>1, InsideKept DEF InsideOps, Entered
<1>2. CASE ChangePassword(t)
  <2>1. PICK p \in Passwords, old \in IF hasPassword THEN Passwords
                                       ELSE {NoPassword} :
             request' = [request EXCEPT ![t] =
                            Sending("change", token, old, p)]
        BY <1>2 DEF ChangePassword
  <2>2. old \in Entered /\ p \in Entered BY <2>1 DEF Entered
  <2>3. /\ route = "inside" /\ request[t].at = "idle"
        /\ UNCHANGED <<sessionServer, token, sessionShown>>
        /\ request' = [request EXCEPT ![t] = Sending("change", token, old, p)]
        BY <1>2, <2>1 DEF ChangePassword, OneAtATime, FreeTask
  <2> QED BY <2>2, <2>3, InsideKept DEF InsideOps
<1>3. CASE RemovePassword(t)
  <2>1. PICK old \in Passwords :
             request' = [request EXCEPT ![t] =
                            Sending("remove", token, old, NoPassword)]
        BY <1>3 DEF RemovePassword
  <2>2. old \in Entered /\ NoPassword \in Entered BY <2>1 DEF Entered
  <2>3. /\ route = "inside" /\ request[t].at = "idle"
        /\ UNCHANGED <<sessionServer, token, sessionShown>>
        /\ request' = [request EXCEPT ![t] =
                          Sending("remove", token, old, NoPassword)]
        BY <1>3, <2>1 DEF RemovePassword, OneAtATime, FreeTask
  <2> QED BY <2>2, <2>3, InsideKept DEF InsideOps
<1> QED BY <1>1, <1>2, <1>3

\* The Login page asks only when nothing of it is under way.
LEMMA SubmitKept ==
    ASSUME SessionInv, NEW t \in SessionTasks, SubmitLogin(t)
    PROVE  SessionInv'
<1>1. PICK p \in Passwords :
          request' = [request EXCEPT ![t] =
                         Sending("login", 0, p, NoPassword)]
      BY DEF SubmitLogin
<1> DEFINE r == Sending("login", 0, p, NoPassword)
<1>2. /\ r \in RequestType /\ r.op = "login" /\ r.at = "sent" /\ r.tok = 0
      BY SessionAssumption DEF Sending, RequestType, Codes, Entered
<1>3. request \in Requests /\ request' = [request EXCEPT ![t] = r]
      BY <1>1, Typing DEF SessionInv
<1> HIDE DEF r
<1>4. /\ request' \in Requests /\ request'[t] = r
      /\ \A u \in SessionTasks \ {t} : request'[u] = request[u]
      BY <1>2, <1>3, RequestReplaced
<1>5. /\ route = "login" /\ loginError' = FALSE
      /\ UNCHANGED <<password, term, token, route, checking, hasPassword>>
      BY DEF SubmitLogin, sessionServer
<1>6. SessionTypeOK'
      BY <1>4, <1>5
      DEF SessionInv, SessionTypeOK, Requests, RequestType, Entered, Codes
<1>7. \A u \in SessionTasks : request[u].at = "idle"
      BY DEF SubmitLogin, SessionInv, OneSession, LoginOps
<1>8. term \in Nat /\ term >= 1
      BY SessionAssumption DEF SessionInv, SessionTypeOK
<1>9. TokensAreIssued'
      BY <1>2, <1>4, <1>5, <1>8 DEF SessionInv, TokensAreIssued, InsideOps
<1>10. OneSession' /\ IdleIsNone'
      BY <1>2, <1>4, <1>5, <1>7
      DEF SessionInv, OneSession, IdleIsNone, LoginOps
<1> QED BY <1>6, <1>9, <1>10 DEF SessionInv

\* An answer to a request says "not authorised" to one of a page only if its
\* token is of an earlier term.
LEMMA AnswersKept ==
    ASSUME SessionInv, NEW t \in SessionTasks, NEW r \in RequestType,
           request[t].at = "sent", request' = [request EXCEPT ![t] = r],
           r.at = "answered", r.op = request[t].op,
           r.op \in InsideOps =>
               /\ r.tok = request[t].tok
               /\ r.status = Unauthorized => request[t].tok # term,
           r.op \notin InsideOps => r.tok <= term,
           password' \in Entered, UNCHANGED <<term, token, sessionShown>>
    PROVE  SessionInv'
<1>1. request \in Requests BY Typing DEF SessionInv
<1>2. /\ request' \in Requests /\ request'[t] = r
      /\ \A u \in SessionTasks \ {t} : request'[u] = request[u]
      BY <1>1, RequestReplaced
<1>3. SessionTypeOK'
      BY <1>2 DEF SessionInv, SessionTypeOK, Requests, RequestType, Entered,
             Codes,
         sessionShown
<1>4. term \in Nat /\ request[t].tok \in Nat
      BY <1>1, SessionAssumption
      DEF SessionInv, SessionTypeOK, Requests, RequestType
<1>5. TokensAreIssued'
      BY <1>2, <1>4 DEF SessionInv, TokensAreIssued, InsideOps
<1>6. OneSession' /\ IdleIsNone'
      BY <1>2
      DEF SessionInv, OneSession, IdleIsNone, InsideOps, LoginOps,
          sessionShown
<1> QED BY <1>3, <1>5, <1>6 DEF SessionInv

LEMMA StatusSet ==
    ASSUME SessionInv, NEW t \in SessionTasks, NEW status \in Codes
    PROVE  /\ WithStatus(t, status) \in RequestType
           /\ WithStatus(t, status).at = "answered"
           /\ WithStatus(t, status).status = status
           /\ WithStatus(t, status).op = request[t].op
           /\ WithStatus(t, status).tok = request[t].tok
<1>1. request[t] \in RequestType BY Typing DEF SessionInv, Requests
<1> QED BY <1>1 DEF WithStatus, RequestType

LEMMA AnsweringKept ==
    ASSUME SessionInv, NEW t \in SessionTasks,
           \/ AnswerCall(t) \/ AnswerConfig(t) \/ AnswerLogin(t)
           \/ AnswerPassword(t)
    PROVE  SessionInv'
<1> USE StatusSet
<1>1. /\ password \in Entered /\ term \in 1 .. MaxTerms /\ MaxTerms \in Nat
      /\ {OK, Unauthorized, 400, 403, 404} \subseteq Codes
      /\ request[t].new \in Entered /\ request[t].tok <= term
      BY SessionAssumption, Typing
      DEF SessionInv, SessionTypeOK, Entered, Codes, Requests, RequestType,
          TokensAreIssued
<1>2. ASSUME NEW status \in Codes, Reply(t, status), request[t].at = "sent",
             status = Unauthorized => request[t].tok # term,
             password' \in Entered, UNCHANGED <<term, token, sessionShown>>
      PROVE  SessionInv'
  <2> DEFINE r == WithStatus(t, status)
  <2>1. /\ r \in RequestType /\ r.at = "answered" /\ r.status = status
        /\ r.op = request[t].op /\ r.tok = request[t].tok
        OBVIOUS
  <2>2. request' = [request EXCEPT ![t] = r] BY <1>2 DEF Reply
  <2> HIDE DEF r
  <2> QED BY <1>1, <1>2, <2>1, <2>2, AnswersKept
<1>3. CASE AnswerCall(t)
  <2>1. /\ request[t].at = "sent" /\ password' \in Entered
        /\ UNCHANGED <<term, token, sessionShown>>
        BY <1>1, <1>3 DEF AnswerCall, Sent, sessionServer
  <2>2. PICK status \in {OK, Unauthorized} :
           /\ Reply(t, status)
           /\ status = Unauthorized => request[t].tok # term
        BY <1>3 DEF AnswerCall, Allowed, OK, Unauthorized
  <2> QED BY <1>1, <1>2, <2>1, <2>2
<1>4. CASE AnswerConfig(t)
  <2> DEFINE s == IF Allowed(t) THEN OK ELSE Unauthorized
             r == [WithStatus(t, s) EXCEPT !.new = password]
  <2>1. /\ request[t].at = "sent" /\ request[t].op = "config"
        /\ password' \in Entered
        /\ UNCHANGED <<term, token, sessionShown>>
        /\ request' = [request EXCEPT ![t] = r]
        BY <1>1, <1>4 DEF AnswerConfig, Sent, sessionServer
  <2>2. s \in Codes BY <1>1
  <2>3. /\ r \in RequestType /\ r.at = "answered"
        /\ r.op = request[t].op /\ r.tok = request[t].tok
        BY <1>1, <2>2 DEF RequestType
  <2> HIDE DEF r
  <2> QED BY <1>1, <2>1, <2>3, AnswersKept DEF InsideOps
<1>5. CASE AnswerLogin(t)
  <2> DEFINE s == IF password = NoPassword THEN 404
                  ELSE IF request[t].old = password THEN OK ELSE Unauthorized
             r == [WithStatus(t, s) EXCEPT !.tok = term]
  <2>1. /\ request[t].at = "sent" /\ request[t].op = "login"
        /\ password' \in Entered
        /\ UNCHANGED <<term, token, sessionShown>>
        /\ request' = [request EXCEPT ![t] = r]
        BY <1>1, <1>5 DEF AnswerLogin, Sent, sessionServer
  <2>2. s \in Codes BY <1>1
  <2>3. /\ r \in RequestType /\ r.at = "answered"
        /\ r.op = request[t].op /\ r.tok = term
        BY <1>1, <2>2 DEF RequestType
  <2> HIDE DEF r
  <2>4. r.tok <= term BY <1>1, <2>3
  <2> QED BY <2>4, <1>1, <2>1, <2>3, AnswersKept DEF InsideOps
<1>6. CASE AnswerPassword(t)
  <2>1. /\ request[t].at = "sent" /\ password' \in Entered
        /\ UNCHANGED <<term, token, sessionShown>>
        BY <1>1, <1>6 DEF AnswerPassword, Sent
  <2>2. PICK status \in {OK, Unauthorized, 400, 403} :
           /\ Reply(t, status)
           /\ status = Unauthorized => request[t].tok # term
        BY <1>6
        DEF AnswerPassword, Allowed, WrongCurrent, OK, Unauthorized
  <2> QED BY <1>1, <1>2, <2>1, <2>2
<1> QED BY <1>3, <1>4, <1>5, <1>6

\* A request that is over.
LEMMA CallEnded ==
    ASSUME SessionInv, NEW t \in SessionTasks, request' = EndCall(request, t)
    PROVE  /\ request' \in Requests
           /\ request'[t].at = "idle" /\ request'[t].op = "none"
           /\ request'[t].tok = 0
           /\ \A u \in SessionTasks \ {t} : request'[u] = request[u]
<1>1. /\ NoRequest \in RequestType /\ NoRequest.at = "idle"
      /\ NoRequest.op = "none" /\ NoRequest.tok = 0
      BY SessionAssumption DEF NoRequest, RequestType, Codes, Entered
<1>2. request' = [request EXCEPT ![t] = NoRequest] BY DEF EndCall
<1>3. request \in Requests BY Typing DEF SessionInv
<1> QED BY <1>1, <1>2, <1>3, RequestReplaced

LEMMA DeliveryKept ==
    ASSUME SessionInv, NEW t \in SessionTasks,
           \/ DeliverPage(t) \/ DeliverConfig(t) \/ DeliverLogin(t)
           \/ LoseCall(t) \/ (Refuse(t) /\ route = "login")
    PROVE  SessionInv'
<1>1. /\ request' = EndCall(request, t)
      /\ request[t].at # "idle" /\ UNCHANGED <<password, term>>
      BY DEF DeliverPage, DeliverConfig, DeliverLogin, LoseCall, Refuse,
             sessionServer
<1>2. /\ request' \in Requests
      /\ request'[t].at = "idle" /\ request'[t].op = "none"
      /\ request'[t].tok = 0
      /\ \A u \in SessionTasks \ {t} : request'[u] = request[u]
      BY <1>1, CallEnded
<1>3. /\ term \in 1 .. MaxTerms /\ MaxTerms \in Nat /\ token \in Nat
      /\ request[t].tok \in 0 .. MaxTerms /\ request[t].tok <= term
      BY SessionAssumption, Typing
      DEF SessionInv, SessionTypeOK, Requests, RequestType, TokensAreIssued
<1>4. CASE UNCHANGED <<token, route>>
  <2>1. /\ hasPassword' \in BOOLEAN /\ loginError' \in BOOLEAN
        /\ checking' \in BOOLEAN
        BY DEF DeliverPage, DeliverConfig, DeliverLogin, LoseCall, Refuse,
               SessionInv, SessionTypeOK
  <2>2. \A u \in SessionTasks \ {t} :
           request[u].at # "idle" /\ route = "login" => checking' = checking
        BY <1>1 DEF SessionInv, OneSession
  <2>3. SessionTypeOK'
        BY <1>1, <1>2, <1>4, <2>1
        DEF SessionInv, SessionTypeOK, Requests, RequestType, Entered, Codes
  <2>4. TokensAreIssued' /\ OneSession' /\ IdleIsNone'
        BY <1>1, <1>2, <1>3, <1>4, <2>2
        DEF SessionInv, TokensAreIssued, OneSession, IdleIsNone
  <2> QED BY <2>3, <2>4 DEF SessionInv
<1>5. CASE ~UNCHANGED <<token, route>>
  <2>1. route = "login"
        BY <1>1, <1>5
        DEF DeliverPage, DeliverConfig, DeliverLogin, LoseCall, SessionInv,
            SessionTypeOK, OneSession, InsideOps
  <2>2. \A u \in SessionTasks : request'[u].at = "idle"
        BY <1>1, <1>2, <2>1 DEF SessionInv, OneSession
  <2>3. /\ token' \in 0 .. MaxTerms /\ token' <= term
        /\ route' \in {"login", "inside"}
    <3>1. token' \in {0, token, request[t].tok}
          BY <2>1
          DEF DeliverPage, DeliverConfig, DeliverLogin, LoseCall, Refuse
    <3>2. route' \in {"login", "inside"}
          BY <2>1
          DEF DeliverPage, DeliverConfig, DeliverLogin, LoseCall, Refuse
    <3>3. token \in 0 .. MaxTerms /\ token <= term
          BY DEF SessionInv, SessionTypeOK, TokensAreIssued
    <3> QED BY <1>3, <3>1, <3>2, <3>3
  <2>4. /\ hasPassword' \in BOOLEAN /\ loginError' \in BOOLEAN
        /\ checking' \in BOOLEAN
        BY DEF DeliverPage, DeliverConfig, DeliverLogin, LoseCall, Refuse,
               SessionInv, SessionTypeOK
  <2>5. SessionTypeOK'
        BY <1>1, <1>2, <2>3, <2>4
        DEF SessionInv, SessionTypeOK, Requests, RequestType, Entered, Codes
  <2>6. TokensAreIssued' /\ OneSession' /\ IdleIsNone'
        BY <1>1, <1>2, <1>3, <2>2, <2>3
        DEF SessionInv, TokensAreIssued, OneSession, IdleIsNone
  <2> QED BY <2>5, <2>6 DEF SessionInv
<1> QED BY <1>4, <1>5

\* A document that is loaded: nothing is under way, or the one question of
\* the Login page.
LEMMA LoadedKept ==
    ASSUME SessionInv, NEW t \in SessionTasks,
           Reload(t) \/ (Refuse(t) /\ route = "inside")
    PROVE  SessionInv'
<1>1. /\ NoRequests \in Requests
      /\ \A u \in SessionTasks :
            /\ NoRequests[u].at = "idle" /\ NoRequests[u].op = "none"
            /\ NoRequests[u].tok = 0
      BY SessionAssumption
      DEF NoRequests, NoRequest, Requests, RequestType, Codes,
          Entered
<1>2. /\ term \in 1 .. MaxTerms /\ MaxTerms \in Nat
      /\ token \in 0 .. MaxTerms /\ token <= term
      BY SessionAssumption DEF SessionInv, SessionTypeOK, TokensAreIssued
<1>3. /\ password' \in Entered /\ term' = term
      /\ token' \in {0, token} /\ token' <= term
      /\ hasPassword' \in BOOLEAN /\ loginError' \in BOOLEAN
      /\ checking' = (route' = "login") /\ route' \in {"login", "inside"}
  <2>1. /\ password' = password /\ term' = term /\ token' \in {0, token}
        BY DEF Reload, Refuse, sessionServer
  <2>2. /\ route' \in {"login", "inside"} /\ loginError' = FALSE
        /\ checking' = (route' = "login")
        BY DEF Reload, Refuse, SessionInv, SessionTypeOK
  <2>3. hasPassword' \in BOOLEAN
        BY DEF Reload, Refuse, SessionInv, SessionTypeOK
  <2>4. password \in Entered BY DEF SessionInv, SessionTypeOK, Entered
  <2>5. token' <= term BY <1>2, <2>1
  <2> QED BY <2>1, <2>2, <2>3, <2>4, <2>5
<1>4. CASE request' = NoRequests
  <2>1. SessionTypeOK'
        BY <1>1, <1>2, <1>3, <1>4
        DEF SessionTypeOK, Requests, RequestType, Entered, Codes
  <2>2. TokensAreIssued' /\ OneSession' /\ IdleIsNone'
        BY <1>1, <1>2, <1>3, <1>4
        DEF TokensAreIssued, OneSession, IdleIsNone
  <2> QED BY <2>1, <2>2 DEF SessionInv
<1>5. CASE request' # NoRequests
  <2>1. PICK tok \in {0, token} : request' =
           [NoRequests EXCEPT ![t] =
                Sending("config", tok, NoPassword, NoPassword)]
        BY <1>5 DEF Reload, Refuse, CheckCall, Abandoned
  <2> DEFINE r == Sending("config", tok, NoPassword, NoPassword)
  <2>2. /\ r \in RequestType /\ r.op = "config" /\ r.at = "sent"
        /\ r.tok = tok
        BY <1>2 DEF Sending, RequestType, Codes, Entered
  <2>3. request' = [NoRequests EXCEPT ![t] = r] BY <2>1
  <2> HIDE DEF r
  <2>4. /\ request' \in Requests /\ request'[t] = r
        /\ \A u \in SessionTasks \ {t} : request'[u] = NoRequests[u]
        BY <1>1, <2>2, <2>3 DEF Requests
  <2>5. route' = "login" /\ checking' = TRUE
        BY <1>3, <1>5 DEF Reload, Refuse
  <2>6. SessionTypeOK'
        BY <1>2, <1>3, <2>4, <2>5
        DEF SessionTypeOK, Requests, RequestType, Entered, Codes
  <2>7. TokensAreIssued' /\ OneSession' /\ IdleIsNone'
        BY <1>1, <1>2, <1>3, <2>2, <2>4, <2>5
        DEF TokensAreIssued, OneSession, IdleIsNone, InsideOps, LoginOps
  <2> QED BY <2>6, <2>7 DEF SessionInv
<1> QED BY <1>4, <1>5

LEMMA SessionStart == SessionInit => SessionInv
<1> SUFFICES ASSUME SessionInit PROVE SessionInv
    OBVIOUS
<1>1. /\ request \in Requests
      /\ \A u \in SessionTasks :
            /\ request[u].at = "idle" /\ request[u].op = "none"
            /\ request[u].tok = 0
      BY SessionAssumption
      DEF SessionInit, NoRequests, NoRequest, Requests, RequestType, Codes,
          Entered
<1>2. SessionTypeOK
  <2>1. /\ checking \in BOOLEAN /\ loginError \in BOOLEAN
        /\ hasPassword \in BOOLEAN
        BY DEF SessionInit
  <2>2. term \in 1 .. MaxTerms /\ token \in 0 .. MaxTerms
        BY SessionAssumption DEF SessionInit
  <2>3. password \in Passwords \cup {NoPassword} /\ route = "inside"
        BY DEF SessionInit
  <2> QED BY <1>1, <2>1, <2>2, <2>3
          DEF SessionTypeOK, Requests, RequestType, Entered, Codes
<1> QED BY <1>1, <1>2, SessionAssumption
        DEF SessionInit, SessionInv, TokensAreIssued, OneSession, IdleIsNone

LEMMA SessionStep == SessionInv /\ [SessionNext]_sessionVars => SessionInv'
<1> SUFFICES ASSUME SessionInv, [SessionNext]_sessionVars PROVE SessionInv'
    OBVIOUS
<1>1. CASE \E t \in SessionTasks :
              AskPage(t) \/ ChangePassword(t) \/ RemovePassword(t)
      BY <1>1, AskingKept
<1>2. CASE \E t \in SessionTasks : SubmitLogin(t)
      BY <1>2, SubmitKept
<1>3. CASE \E t \in SessionTasks :
              \/ AnswerCall(t) \/ AnswerConfig(t) \/ AnswerLogin(t)
              \/ AnswerPassword(t)
      BY <1>3, AnsweringKept
<1>4. CASE \E t \in SessionTasks :
              \/ DeliverPage(t) \/ DeliverConfig(t) \/ DeliverLogin(t)
              \/ LoseCall(t)
      BY <1>4, DeliveryKept
<1>5. CASE \E t \in SessionTasks : Refuse(t) \/ Reload(t)
      BY <1>5, DeliveryKept, LoadedKept DEF SessionInv, SessionTypeOK
<1>6. CASE PasswordElsewhere
      BY <1>6
      DEF PasswordElsewhere, SessionInv, SessionTypeOK, TokensAreIssued,
          OneSession, IdleIsNone, sessionShown
<1>7. CASE NewTerm
  <2>1. /\ term' \in 1 .. MaxTerms /\ term' = term + 1 /\ term \in Nat
        BY <1>7, SessionAssumption DEF NewTerm, SessionInv, SessionTypeOK
  <2>2. /\ token \in Nat /\ \A t \in SessionTasks : request[t].tok \in Nat
        BY Typing, SessionAssumption
        DEF SessionInv, SessionTypeOK, Requests, RequestType
  <2> QED BY <1>7, <2>1, <2>2
          DEF NewTerm, SessionInv, SessionTypeOK, TokensAreIssued,
              OneSession, IdleIsNone, sessionShown
<1>8. CASE UNCHANGED sessionVars
      BY <1>8
      DEF sessionVars, sessionServer, sessionShown, SessionInv, SessionTypeOK,
          TokensAreIssued, OneSession, IdleIsNone
<1> QED BY <1>1, <1>2, <1>3, <1>4, <1>5, <1>6, <1>7, <1>8 DEF SessionNext

-----------------------------------------------------------------------------

\* Every variable keeps its type, whatever answers arrive in whatever order.
THEOREM SessionTypes == SessionSpec => []SessionTypeOK
<1>1. SessionInv => SessionTypeOK BY DEF SessionInv
<1> QED BY <1>1, SessionStart, SessionStep, PTL DEF SessionSpec

\* Nobody is logged out by mistake: a refusal that arrives belongs to the
\* session of the token it takes, because leaving the document abandons every
\* other request (api.ts:22-25), and a wrong current password is no refusal
\* (handlers.go:714).
THEOREM SessionsLast == SessionSpec => GoodTokenIsKept
<1>1. SessionInv /\ [SessionNext]_sessionVars =>
          [route = "inside" /\ token = term => token' = token]_sessionVars
  <2> SUFFICES ASSUME SessionInv, SessionNext,
                      route = "inside", token = term, token' # token
               PROVE  FALSE
      OBVIOUS
  <2>1. PICK t \in SessionTasks :
           Refuse(t) \/ DeliverConfig(t) \/ DeliverLogin(t)
        BY DEF SessionNext, AnswerCall, AnswerConfig, AnswerLogin,
               AnswerPassword, AskPage, SubmitLogin, ChangePassword,
               RemovePassword, DeliverPage, LoseCall, Reload,
               PasswordElsewhere, NewTerm
  <2>2. /\ request[t].at = "answered" /\ request[t].op \in InsideOps
        /\ request[t].tok = token
        BY <2>1 DEF Refuse, DeliverConfig, DeliverLogin, SessionInv,
                    OneSession
  <2>3. request[t].status = Unauthorized
        BY <2>1, <2>2 DEF Refuse, DeliverConfig, DeliverLogin, InsideOps
  <2>4. term \in Nat /\ request[t].tok < term
        BY <2>2, <2>3, SessionAssumption
        DEF SessionInv, SessionTypeOK, TokensAreIssued
  <2> QED BY <2>2, <2>4
<1> QED BY <1>1, SessionStart, SessionStep, PTL
        DEF SessionSpec, GoodTokenIsKept
=============================================================================
