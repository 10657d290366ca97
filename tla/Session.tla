------------------------------ MODULE Session ------------------------------
(***************************************************************************)
(* Who is logged in: the token the web client keeps, what request() and    *)
(* the Login page do with it, the password section of the Settings page,   *)
(* and the server's authMiddleware, handleLogin, handleChangePassword and  *)
(* handleRemovePassword. One tab; that a token expires and that the secret *)
(* is changed are the same to it: the tokens of an earlier term are        *)
(* refused.                                                                *)
(***************************************************************************)
EXTENDS Naturals

CONSTANTS
    SessionTasks,   \* requests that may be under way at a time
    Passwords,      \* what may be typed
    NoPassword,     \* no password is set, or given
    MaxTerms        \* bound: terms of tokens

ASSUME SessionAssumption == /\ NoPassword \notin Passwords
                            /\ MaxTerms \in Nat \ {0}

VARIABLES
    password,   \* cfg.Auth.PasswordHash
    term,       \* tokens of this term are accepted
    token,      \* localStorage: the term of the token; 0: none
    route,      \* login, or a page inside the Layout
    checking,   \* the Login page asks whether a password is needed
    loginError, \* "Incorrect password" is on the screen
    hasPassword,\* has_password as the Settings page shows it
    request        \* per task: a request and its answer

sessionServer == <<password, term>>
sessionShown  == <<route, checking, loginError, hasPassword>>
sessionVars   == <<sessionServer, token, sessionShown, request>>

NoRequest == [op |-> "none", at |-> "idle", tok |-> 0, old |-> NoPassword,
              new |-> NoPassword, status |-> 0]
\* A request that is made: its token, the password it is checked against, and
\* the one that is set.
Sending(op, tok, old, new) ==
    [op |-> op, at |-> "sent", tok |-> tok, old |-> old, new |-> new,
     status |-> 0]
NoRequests == [t \in SessionTasks |-> NoRequest]

\* A document that is loaded has no requests under way; Login's first is for
\* the configuration.
CheckCall(calls, t) ==
    [calls EXCEPT ![t] = Sending("config", token, NoPassword, NoPassword)]

SessionInit ==
    /\ password \in Passwords \cup {NoPassword} /\ term = 1
    /\ token \in 0 .. 1
    /\ route = "inside" /\ checking = FALSE /\ loginError = FALSE
    /\ hasPassword = (password # NoPassword)
    /\ request = NoRequests

-----------------------------------------------------------------------------
(* The server.                                                             *)

OK == 200
Unauthorized == 401
Allowed(t) == password = NoPassword \/ request[t].tok = term

Sent(t, ops) == request[t].at = "sent" /\ request[t].op \in ops
WithStatus(t, status) ==
    [request[t] EXCEPT !.at = "answered", !.status = status]
Reply(t, status) ==
    request' = [request EXCEPT ![t] = WithStatus(t, status)]

AnswerCall(t) ==
    /\ Sent(t, {"page"})
    /\ Reply(t, IF Allowed(t) THEN OK ELSE Unauthorized)
    /\ UNCHANGED <<sessionServer, token, sessionShown>>

\* The configuration tells whether there is a password.
AnswerConfig(t) ==
    /\ Sent(t, {"config"})
    /\ request' = [request EXCEPT ![t] =
           [WithStatus(t, IF Allowed(t) THEN OK ELSE Unauthorized)
               EXCEPT !.new = password]]
    /\ UNCHANGED <<sessionServer, token, sessionShown>>

\* handleLogin: the answer carries a token of this term.
AnswerLogin(t) ==
    /\ Sent(t, {"login"})
    /\ request' = [request EXCEPT ![t] =
           [WithStatus(t, IF password = NoPassword THEN 404
                      ELSE IF request[t].old = password THEN OK
                      ELSE Unauthorized)
               EXCEPT !.tok = term]]
    /\ UNCHANGED <<sessionServer, token, sessionShown>>

\* The answer to a current password that is wrong.
WrongCurrent == 403

\* handleChangePassword and handleRemovePassword.
AnswerPassword(t) ==
    /\ Sent(t, {"change", "remove"})
    /\ \/ /\ ~Allowed(t) /\ Reply(t, Unauthorized) /\ UNCHANGED password
       \/ /\ Allowed(t) /\ password = NoPassword /\ request[t].op = "remove"
          /\ Reply(t, 400) /\ UNCHANGED password
       \/ /\ Allowed(t) /\ password # NoPassword /\ request[t].old # password
          /\ Reply(t, IF request[t].old = NoPassword THEN 400 ELSE WrongCurrent)
          /\ UNCHANGED password
       \/ /\ Allowed(t)
          /\ \/ request[t].old = password
             \/ request[t].op = "change" /\ password = NoPassword
          /\ password' = request[t].new /\ Reply(t, OK)
    /\ UNCHANGED <<term, token, sessionShown>>

-----------------------------------------------------------------------------
(* request().                                                              *)

FreeTask(t) == request[t].at = "idle"
EndCall(calls, t) == [calls EXCEPT ![t] = NoRequest]

\* Any request of a page inside the Layout.
AskPage(t) ==
    /\ route = "inside" /\ FreeTask(t)
    /\ request' = [request EXCEPT ![t] =
                      Sending("page", token, NoPassword, NoPassword)]
    /\ UNCHANGED <<sessionServer, token, sessionShown>>

\* Mutant of Abandoned: the Login page is shown in the same document.
AbandonedNone(t) == EndCall(request, t)

\* What is left of the requests when location.href leaves for the Login page.
Abandoned(t) == NoRequests

\* 401: the token goes, and the document, unless it is the Login page.
Refuse(t) ==
    /\ request[t].at = "answered" /\ request[t].status = Unauthorized
    /\ token' = 0
    /\ IF route = "login"
       THEN /\ request' = EndCall(request, t)
            /\ checking' = (checking /\ request[t].op # "config")
            /\ loginError' = (loginError \/ request[t].op = "login")
            /\ UNCHANGED route
       ELSE /\ route' = "login" /\ checking' = TRUE /\ loginError' = FALSE
            /\ request' = [Abandoned(t) EXCEPT ![t] =
                              Sending("config", 0, NoPassword, NoPassword)]
    /\ UNCHANGED <<sessionServer, hasPassword>>

\* Any other answer, or none, to a page: its own business.
DeliverPage(t) ==
    /\ request[t].at = "answered"
    /\ request[t].op \in {"page", "change", "remove"}
    /\ request[t].status # Unauthorized
    /\ hasPassword' = IF request[t].status = OK /\ request[t].op # "page"
                      THEN request[t].op = "change" ELSE hasPassword
    /\ request' = EndCall(request, t)
    /\ UNCHANGED <<sessionServer, token, route, checking, loginError>>

-----------------------------------------------------------------------------
(* The Login page.                                                         *)

\* A password that is not needed is not asked for.
DeliverConfig(t) ==
    /\ request[t].at = "answered" /\ request[t].op = "config"
    /\ request[t].status = OK
    /\ checking' = FALSE
    /\ IF request[t].new = NoPassword
       THEN token' = 0 /\ route' = "inside" /\ hasPassword' = FALSE
       ELSE UNCHANGED <<token, route, hasPassword>>
    /\ request' = EndCall(request, t)
    /\ UNCHANGED <<sessionServer, loginError>>

SubmitLogin(t) ==
    /\ route = "login" /\ ~checking /\ FreeTask(t)
    /\ \A u \in SessionTasks : request[u].op # "login"
    /\ \E p \in Passwords :
          request' = [request EXCEPT ![t] =
                         Sending("login", 0, p, NoPassword)]
    /\ loginError' = FALSE
    /\ UNCHANGED <<sessionServer, token, route, checking, hasPassword>>

\* submit's catch: whatever is wrong, the password is said to be.
DeliverLogin(t) ==
    /\ request[t].at = "answered" /\ request[t].op = "login"
    /\ request[t].status # Unauthorized
    /\ IF request[t].status = OK
       THEN /\ token' = request[t].tok /\ route' = "inside"
            /\ hasPassword' = TRUE /\ UNCHANGED loginError
       ELSE /\ loginError' = TRUE /\ UNCHANGED <<token, route, hasPassword>>
    /\ request' = EndCall(request, t)
    /\ UNCHANGED <<sessionServer, checking>>

\* A request without an answer.
LoseCall(t) ==
    /\ request[t].at = "sent"
    /\ checking' = (checking /\ request[t].op # "config")
    /\ loginError' = (loginError \/ request[t].op = "login")
    /\ request' = EndCall(request, t)
    /\ UNCHANGED <<sessionServer, token, route, hasPassword>>

-----------------------------------------------------------------------------
(* The password section of the Settings page.                              *)

OneAtATime == /\ route = "inside"
              /\ \A u \in SessionTasks :
                    request[u].op \notin {"change", "remove"}

\* "Change Password", or "Set": the current one is asked for if there is one.
ChangePassword(t) ==
    /\ OneAtATime /\ FreeTask(t)
    /\ \E p \in Passwords, old \in IF hasPassword THEN Passwords
                                   ELSE {NoPassword} :
          request' = [request EXCEPT ![t] = Sending("change", token, old, p)]
    /\ UNCHANGED <<sessionServer, token, sessionShown>>

RemovePassword(t) ==
    /\ OneAtATime /\ FreeTask(t) /\ hasPassword
    /\ \E old \in Passwords :
          request' = [request EXCEPT ![t] =
                         Sending("remove", token, old, NoPassword)]
    /\ UNCHANGED <<sessionServer, token, sessionShown>>

-----------------------------------------------------------------------------
(* The user and others.                                                    *)

Reload(t) ==
    /\ checking' = (route = "login") /\ loginError' = FALSE
    /\ request' = IF route = "login" THEN CheckCall(NoRequests, t)
                  ELSE NoRequests
    /\ hasPassword' = (password # NoPassword)
    /\ UNCHANGED <<sessionServer, token, route>>

\* Another client changes or removes the password.
PasswordElsewhere ==
    /\ password' \in Passwords \cup {NoPassword}
    /\ UNCHANGED <<term, token, sessionShown, request>>

NewTerm ==
    /\ term < MaxTerms /\ term' = term + 1
    /\ UNCHANGED <<password, token, sessionShown, request>>

SessionNext ==
    \/ \E t \in SessionTasks :
          \/ AnswerCall(t) \/ AnswerConfig(t) \/ AnswerLogin(t)
          \/ AnswerPassword(t) \/ AskPage(t) \/ Refuse(t) \/ DeliverPage(t)
          \/ DeliverConfig(t) \/ SubmitLogin(t) \/ DeliverLogin(t)
          \/ LoseCall(t)
          \/ ChangePassword(t) \/ RemovePassword(t) \/ Reload(t)
    \/ PasswordElsewhere \/ NewTerm

SessionSpec == SessionInit /\ [][SessionNext]_sessionVars

-----------------------------------------------------------------------------
(* Properties.                                                             *)

\* Types.
SessionTypeOK ==
    /\ password \in Passwords \cup {NoPassword} /\ term \in 1 .. MaxTerms
    /\ token \in 0 .. MaxTerms /\ route \in {"login", "inside"}
    /\ checking \in BOOLEAN /\ loginError \in BOOLEAN
    /\ hasPassword \in BOOLEAN
    /\ request \in [SessionTasks ->
                    [op : {"none", "page", "config", "login", "change",
                           "remove"},
                     at : {"idle", "sent", "answered"},
                     tok : 0 .. MaxTerms,
                     old : Passwords \cup {NoPassword},
                     new : Passwords \cup {NoPassword},
                     status : {0, OK, 400, Unauthorized, 403, 404}]]

\* Nobody is logged out by mistake: inside the application a token goes only
\* once the server accepts it no more. An answer that refuses an older token
\* cannot take the one just obtained with it, and neither a password mistyped
\* in the Settings nor one that is changed there ends the session.
GoodTokenIsKept ==
    [][route = "inside" /\ token = term => token' = token]_sessionVars
=============================================================================
