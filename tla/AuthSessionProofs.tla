------------------------- MODULE AuthSessionProofs -------------------------
(* Proofs about AuthSession for any number of browsers, logins, codes and    *)
(* callbacks, and for every length of the session and cookie windows.        *)
EXTENDS AuthSession, TLAPS

-----------------------------------------------------------------------------
(* Values.                                                                   *)

\* The drawn secrets of a flow and what is built from them are well typed.
LEMMA DrawnTypes ==
    ASSUME NEW f \in Flows
    PROVE  /\ GenerateState(f) \in States
           /\ GenerateVerifier(f) \in Verifiers
BY DEF States, Verifiers

\* The session InitiateAuth builds is a row of the table.
LEMMA NewSessionType ==
    ASSUME NEW f \in Flows, now \in Nat
    PROVE  NewSession(f) \in Session
BY DrawnTypes, TimeAssumption DEF NewSession, Session

\* The redirect of a stored session carries a state and a challenge.
LEMMA AuthorizationURLType ==
    ASSUME NEW s \in Session
    PROVE  AuthorizationURL(s) \in Grant
BY DEF AuthorizationURL, Session, Grant, Challenges

-----------------------------------------------------------------------------
(* Type correctness.  A step of the callback uses the session it has read,   *)
(* and a 302 goes to a known browser, so typing needs two facts on phases.   *)

PhaseInv ==
    /\ \A f \in Flows :
          login[f].phase \in {"saved", "redirected"} =>
             login[f].browser \in Browsers /\ login[f].session \in Session
    /\ \A r \in Requests :
          /\ req[r].phase \notin {"idle", "done"} =>
                req[r].browser \in Browsers /\ req[r].sid \in Flows /\ req[r].code \in Codes
          /\ req[r].phase \in {"delete", "verify", "exchange", "userinfo"} =>
                req[r].session \in Session

TypeInv == TypeOK /\ PhaseInv

LEMMA TypeInit == Init => TypeInv
BY TimeAssumption DEF Init, TypeInv, TypeOK, PhaseInv, IdleLogin, IdleRequest, Login, LoginPhases,
     Request, Phases, Errors

\* A failing step of a callback ends the request and keeps every type.
LEMMA FailType ==
    ASSUME TypeInv, NEW r \in Requests, NEW err \in Errors, Fail(r, err)
    PROVE  /\ req' \in [Requests -> Request]
           /\ \A q \in Requests : q # r => req'[q] = req[q]
           /\ req'[r].phase = "done" /\ req'[r].err = err
           /\ req'[r].browser = req[r].browser /\ req'[r].sid = req[r].sid
           /\ req'[r].code = req[r].code /\ req'[r].state = req[r].state
           /\ req'[r].session = req[r].session
<1>1. req[r] \in Request
      BY DEF TypeInv, TypeOK
<1>2. req' = [req EXCEPT ![r] = [req[r] EXCEPT !.phase = "done", !.err = err]]
      BY DEF Fail, TypeInv, TypeOK
<1> DEFINE new == [req[r] EXCEPT !.phase = "done", !.err = err]
<1>3. /\ new \in Request
      /\ new.phase = "done" /\ new.err = err
      /\ new.browser = req[r].browser /\ new.sid = req[r].sid
      /\ new.code = req[r].code /\ new.state = req[r].state
      /\ new.session = req[r].session
      BY <1>1 DEF Request, Phases
<1> HIDE DEF new
<1>4. req' = [req EXCEPT ![r] = new]
      BY <1>2 DEF new
<1> QED
    BY <1>3, <1>4 DEF TypeInv, TypeOK

\* A callback at the exchange sends a code and a verifier.
LEMMA ExchangeOfType ==
    ASSUME TypeInv, NEW r \in Requests, req[r].phase = "exchange"
    PROVE  ExchangeOf(r) \in Exchange
<1>1. /\ req[r].browser \in Browsers /\ req[r].code \in Codes
      /\ req[r].session \in Session /\ req[r] \in Request
      BY DEF TypeInv, TypeOK, PhaseInv
<1>2. req[r].state \in States \cup {ForgedState} /\ req[r].session.verifier \in Verifiers
      BY <1>1 DEF Request, Session
<1> QED
    BY <1>1, <1>2 DEF ExchangeOf, Exchange

LEMMA TypeStep == TypeInv /\ [Next]_vars => TypeInv'
<1> SUFFICES ASSUME TypeInv, [Next]_vars
             PROVE  TypeInv'
    OBVIOUS
<1> USE DEF TypeInv
<1>1. ASSUME NEW b \in Browsers, NEW f \in Flows, LoginSave(b, f)
      PROVE  TypeInv'
      BY <1>1, NewSessionType DEF TypeOK, PhaseInv, LoginSave, Save, Login, LoginPhases
<1>2. ASSUME NEW f \in Flows, LoginRespond(f)
      PROVE  TypeInv'
      BY <1>2, TimeAssumption DEF TypeOK, PhaseInv, LoginRespond, Login, LoginPhases, Cookie
<1>3. ASSUME NEW f \in Flows, LoginFail(f)
      PROVE  TypeInv'
      BY <1>3 DEF TypeOK, PhaseInv, LoginFail, Login, LoginPhases
<1>4. ASSUME NEW f \in Flows, NEW c \in Codes, Authorize(f, c)
      PROVE  TypeInv'
      BY <1>4, AuthorizationURLType DEF TypeOK, PhaseInv, Authorize
<1>5. ASSUME NEW r \in Requests, NEW b \in Browsers, NEW c \in Codes,
             NEW st \in States \cup {ForgedState}, CallbackStart(r, b, c, st)
      PROVE  TypeInv'
      BY <1>5 DEF TypeOK, PhaseInv, CallbackStart, Attached, SessionKey, Request, Phases,
                  Errors, Cookie
<1>6. ASSUME NEW r \in Requests, CallbackBadRequest(r)
      PROVE  TypeInv'
      BY <1>6, FailType DEF TypeOK, PhaseInv, CallbackBadRequest, Errors
<1>7. ASSUME NEW r \in Requests, RepoGet(r)
      PROVE  TypeInv'
      BY <1>7 DEF TypeOK, PhaseInv, RepoGet, Found, Fail, Request, Phases, Errors
<1>8. ASSUME NEW r \in Requests, RepoDelete(r)
      PROVE  TypeInv'
      BY <1>8 DEF TypeOK, PhaseInv, RepoDelete, DeleteRow, Goto, Request, Phases
<1>9. ASSUME NEW r \in Requests, Verify(r)
      PROVE  TypeInv'
      BY <1>9 DEF TypeOK, PhaseInv, Verify, Goto, Fail, Request, Phases, Errors
<1>10. ASSUME NEW r \in Requests, ExchangeRefused(r)
       PROVE  TypeInv'
       BY <1>10, FailType DEF TypeOK, PhaseInv, ExchangeRefused, Errors
<1>11. ASSUME NEW r \in Requests, ExchangeRejected(r)
       PROVE  TypeInv'
  <2>1. ExchangeOf(r) \in Exchange
        BY <1>11, ExchangeOfType DEF ExchangeRejected
  <2>2. /\ req' \in [Requests -> Request]
        /\ \A q \in Requests : q # r => req'[q] = req[q]
        /\ req'[r].phase = "done"
        BY <1>11, FailType DEF ExchangeRejected, Errors
  <2>3. sent' = sent \cup {ExchangeOf(r)}
        /\ UNCHANGED <<now, rows, login, cookie, refresh, grant, spent>>
        BY <1>11 DEF ExchangeRejected
  <2> QED
      BY <2>1, <2>2, <2>3 DEF TypeOK, PhaseInv
<1>12. ASSUME NEW r \in Requests, ExchangeAccepted(r)
       PROVE  TypeInv'
  <2>1. ExchangeOf(r) \in Exchange
        BY <1>12, ExchangeOfType DEF ExchangeAccepted
  <2> QED
      BY <1>12, <2>1 DEF TypeOK, PhaseInv, ExchangeAccepted, Goto, Fail, Request, Phases, Errors
<1>13. ASSUME NEW r \in Requests, UserInfoFail(r)
       PROVE  TypeInv'
       BY <1>13, FailType DEF TypeOK, PhaseInv, UserInfoFail, Errors
<1>14. ASSUME NEW r \in Requests, CallbackRespond(r)
       PROVE  TypeInv'
       BY <1>14 DEF TypeOK, PhaseInv, CallbackRespond, Goto, Request, Phases
<1>15. ASSUME NEW r \in Requests, Cancel(r)
       PROVE  TypeInv'
       BY <1>15, FailType DEF TypeOK, PhaseInv, Cancel, Errors
<1>16. ASSUME DeleteExpired
       PROVE  TypeInv'
       BY <1>16 DEF TypeOK, PhaseInv, DeleteExpired, SweepRows
<1>17. ASSUME Tick
       PROVE  TypeInv'
       BY <1>17 DEF TypeOK, PhaseInv, Tick
<1>18. ASSUME UNCHANGED vars
       PROVE  TypeInv'
       BY <1>18 DEF TypeOK, PhaseInv, vars
<1> QED
    BY <1>1, <1>2, <1>3, <1>4, <1>5, <1>6, <1>7, <1>8, <1>9, <1>10, <1>11, <1>12, <1>13,
       <1>14, <1>15, <1>16, <1>17, <1>18 DEF Next, HandlerStep

LEMMA TypeInvariant == Spec => []TypeInv
BY TypeInit, TypeStep, PTL DEF Spec

\* Every variable of the login service keeps its type in every behaviour.
THEOREM TypeCorrect == Spec => []TypeOK
<1>1. TypeInv => TypeOK
      BY DEF TypeInv
<1> QED
    BY <1>1, TypeInvariant, PTL

-----------------------------------------------------------------------------
(* The inductive invariant.  It follows one flow through the system: every   *)
(* copy of its session (the login request, the table, a callback that read   *)
(* it) is the same record, the cookie and the callback that carries its id   *)
(* belong to the browser that started it, and every code was issued for the  *)
(* redirect of some stored session.                                          *)

\* A login request holds the session it drew, once it has built one.
LoginInv ==
    \A f \in Flows :
       /\ login[f].phase = "idle" => login[f].session = None
       /\ login[f].session # None =>
             /\ login[f].session.id = f
             /\ login[f].session.state = GenerateState(f)
             /\ login[f].session.verifier = GenerateVerifier(f)

\* The table only holds sessions of login requests.
RowsInv == \A s \in rows : login[s.id].session = s

\* A session cookie names a login of the browser that holds it.
CookieInv ==
    \A b \in Browsers :
       cookie[b] # None => /\ login[cookie[b].id].session # None
                          /\ login[cookie[b].id].browser = b

\* A code was issued for the redirect of a stored session.
GrantInv ==
    \A c \in Codes :
       grant[c] # None =>
          \E f \in Flows : /\ login[f].session # None
                           /\ grant[c] = AuthorizationURL(login[f].session)

\* A callback carries its own browser's flow; what it has read is that flow's
\* session, past Verify the states agree, and past the exchange its code was
\* issued for that session.
RequestInv(r) ==
    /\ req[r].sid # None =>
          /\ login[req[r].sid].session # None
          /\ login[req[r].sid].browser = req[r].browser
          /\ req[r].code \in Codes
    /\ req[r].session # None =>
          req[r].sid # None /\ req[r].session = login[req[r].sid].session
    /\ req[r].phase \in {"idle", "get"} => req[r].session = None
    /\ req[r].phase = "exchange" =>
          req[r].session # None /\ req[r].session.state = req[r].state
    /\ req[r].phase = "userinfo" \/ (req[r].phase = "done" /\ req[r].err = "none") =>
          req[r].session # None /\ grant[req[r].code] = AuthorizationURL(req[r].session)

RequestsInv == \A r \in Requests : RequestInv(r)

\* What went to the IdP is the verifier of a login of the callback's browser,
\* and the state parameter of the callback was that login's.
SentInv ==
    \A e \in sent :
       \E f \in Flows : /\ login[f].session # None
                        /\ login[f].browser = e.browser
                        /\ e.state = GenerateState(f) /\ e.verifier = GenerateVerifier(f)

RefreshInv == \A b \in Browsers : refresh[b] # None => StartedBy(b, refresh[b])

Inv ==
    /\ TypeInv
    /\ LoginInv
    /\ RowsInv
    /\ CookieInv
    /\ GrantInv
    /\ RequestsInv
    /\ RefreshInv
    /\ SentInv
    /\ PendingLoginKept

\* Moving a callback to its next step changes nothing else of it.
LEMMA GotoFrame ==
    ASSUME TypeInv, NEW r \in Requests, NEW p \in Phases, Goto(r, p)
    PROVE  /\ \A q \in Requests : q # r => req'[q] = req[q]
           /\ req'[r].phase = p /\ req'[r].err = req[r].err
           /\ req'[r].browser = req[r].browser /\ req'[r].sid = req[r].sid
           /\ req'[r].code = req[r].code /\ req'[r].state = req[r].state
           /\ req'[r].session = req[r].session
<1>1. req[r] \in Request /\ req \in [Requests -> Request]
      BY DEF TypeInv, TypeOK
<1>2. req' = [req EXCEPT ![r] = [req[r] EXCEPT !.phase = p]]
      BY DEF Goto, TypeInv, TypeOK
<1> QED
    BY <1>1, <1>2 DEF Request

\* The IdP accepts a callback's verifier only for a code that was issued for the
\* session the callback has read: the verifiers of two flows differ.
LEMMA AcceptedCode ==
    ASSUME Inv, NEW r \in Requests, req[r].session # None,
           IdPAccepts(req[r].code, req[r].session.verifier)
    PROVE  grant[req[r].code] = AuthorizationURL(req[r].session)
<1> DEFINE s == req[r].sid
           c == req[r].code
<1>1. s \in Flows /\ c \in Codes /\ login[s].session # None /\ req[r].session = login[s].session
      BY DEF Inv, RequestsInv, RequestInv, TypeInv, TypeOK, Request
<1>2. login[s].session.verifier = GenerateVerifier(s)
      BY <1>1 DEF Inv, LoginInv
<1>3. PICK f \in Flows : /\ login[f].session # None
                         /\ grant[c] = AuthorizationURL(login[f].session)
      BY <1>1 DEF Inv, GrantInv, IdPAccepts
<1>4. grant[c].challenge = DeriveChallenge(GenerateVerifier(f))
      BY <1>3 DEF Inv, LoginInv, AuthorizationURL
<1>5. f = s
      BY <1>1, <1>2, <1>4 DEF IdPAccepts, DeriveChallenge, GenerateVerifier
<1> QED
    BY <1>1, <1>3, <1>5

\* A callback past the exchange serves the browser that started its login.
LEMMA AcceptedIsOwn ==
    ASSUME Inv, NEW r \in Requests,
           req[r].phase = "userinfo" \/ (req[r].phase = "done" /\ req[r].err = "none")
    PROVE  StartedBy(req[r].browser, req[r].code)
<1>1. /\ req[r].session # None
      /\ grant[req[r].code] = AuthorizationURL(req[r].session)
      BY DEF Inv, RequestsInv, RequestInv
<1>2. /\ req[r].sid \in Flows
      /\ login[req[r].sid].session # None
      /\ req[r].session = login[req[r].sid].session
      /\ login[req[r].sid].browser = req[r].browser
      BY <1>1 DEF Inv, RequestsInv, RequestInv, TypeInv, TypeOK, Request
<1> QED
    BY <1>1, <1>2 DEF StartedBy

\* A step that only moves one callback, without letting go of the session it
\* has read, preserves everything but perhaps the invariant of that callback.
LEMMA CallbackOnly ==
    ASSUME Inv, TypeInv', NEW r \in Requests,
           UNCHANGED <<now, rows, login, cookie, refresh, grant, sent>>,
           \A q \in Requests : q # r => req'[q] = req[q],
           req'[r].sid = req[r].sid, req'[r].browser = req[r].browser,
           req[r].session # None => req'[r].session # None,
           RequestInv(r)'
    PROVE  Inv'
<1>1. RequestsInv'
      BY DEF Inv, RequestsInv, RequestInv
<1>2. PendingLoginKept'
      BY DEF Inv, PendingLoginKept, Found, IsExpired
<1> QED
    BY <1>1, <1>2 DEF Inv, LoginInv, RowsInv, CookieInv, GrantInv, RefreshInv, StartedBy,
       SentInv

\* A callback that fails keeps its own invariant.
LEMMA FailedCallback ==
    ASSUME Inv, NEW r \in Requests, NEW err \in Errors \ {"none"}, Fail(r, err),
           UNCHANGED <<login, grant>>
    PROVE  RequestInv(r)'
BY FailType DEF Inv, RequestsInv, RequestInv

LEMMA InvInit == Init => Inv
<1> SUFFICES ASSUME Init PROVE Inv
    OBVIOUS
<1>1. TypeInv
      BY TypeInit
<1>2. \A r \in Requests : req[r] = IdleRequest
      BY DEF Init
<1>3. \A f \in Flows : login[f] = IdleLogin
      BY DEF Init
<1>4. RequestsInv
      BY <1>2 DEF RequestsInv, RequestInv, IdleRequest
<1>5. LoginInv /\ PendingLoginKept
      BY <1>3 DEF LoginInv, PendingLoginKept, IdleLogin
<1> QED
    BY <1>1, <1>4, <1>5 DEF Init, Inv, RowsInv, CookieInv, GrantInv, RefreshInv,
       SentInv

\* A login that stores its row.
LEMMA LoginSaveInv ==
    ASSUME Inv, TypeInv', NEW b \in Browsers, NEW f \in Flows, LoginSave(b, f)
    PROVE  Inv'
<1>1. /\ login[f].session = None
      /\ login'[f].session = NewSession(f) /\ login'[f].browser = b
      /\ login'[f].phase = "saved"
      /\ \A g \in Flows : g # f => login'[g] = login[g]
      /\ rows' = rows \cup {NewSession(f)}
      /\ UNCHANGED <<now, cookie, refresh, grant, spent, req, sent>>
      BY DEF LoginSave, Save, Inv, LoginInv, TypeInv, TypeOK
<1>2. /\ NewSession(f) # None
      /\ NewSession(f).id = f
      /\ NewSession(f).state = GenerateState(f)
      /\ NewSession(f).verifier = GenerateVerifier(f)
      BY NewSessionType, NoRecordAssumption DEF NewSession, Inv, TypeInv, TypeOK
<1>3. LoginInv'
      BY <1>1, <1>2 DEF Inv, LoginInv
<1>4. RowsInv'
  <2>1. \A s \in rows : s.id \in Flows /\ s.id # f
        BY <1>1, NoRecordAssumption DEF Inv, RowsInv, TypeInv, TypeOK, Session
  <2> QED
      BY <1>1, <1>2, <2>1 DEF Inv, RowsInv
<1>5. CookieInv'
      BY <1>1 DEF Inv, CookieInv, TypeInv, TypeOK, Cookie
<1>6. GrantInv'
      BY <1>1 DEF Inv, GrantInv
<1>7. RequestsInv'
      BY <1>1 DEF Inv, RequestsInv, RequestInv, TypeInv, TypeOK, Request
<1>8. RefreshInv'
      BY <1>1 DEF Inv, RefreshInv, StartedBy
<1>9. PendingLoginKept'
      BY <1>1, <1>2 DEF Inv, PendingLoginKept, Found, IsExpired
<1> QED
    BY <1>1, <1>3, <1>4, <1>5, <1>6, <1>7, <1>8, <1>9 DEF Inv, SentInv

\* A login that answers, or fails: its session and its browser stay.
LEMMA LoginEndInv ==
    ASSUME Inv, TypeInv', NEW f \in Flows, LoginRespond(f) \/ LoginFail(f)
    PROVE  Inv'
<1>1. /\ \A g \in Flows : login'[g].session = login[g].session
      /\ \A g \in Flows : login'[g].browser = login[g].browser
      /\ \A g \in Flows : login'[g].phase = "idle" => login[g].phase = "idle"
      /\ UNCHANGED <<now, rows, refresh, grant, spent, req, sent>>
      BY DEF LoginRespond, LoginFail, Inv, TypeInv, TypeOK, Login
<1>2. CookieInv'
  <2>1. CASE LoginRespond(f)
        BY <2>1, <1>1, NoRecordAssumption
        DEF LoginRespond, Inv, CookieInv, TypeInv, TypeOK, PhaseInv, Cookie
  <2>2. CASE LoginFail(f)
        BY <2>2, <1>1 DEF LoginFail, Inv, CookieInv, TypeInv, TypeOK, Cookie
  <2> QED
      BY <2>1, <2>2
<1>3. LoginInv'
      BY <1>1 DEF Inv, LoginInv
<1>4. RowsInv'
      BY <1>1 DEF Inv, RowsInv, TypeInv, TypeOK, Session
<1>5. GrantInv'
      BY <1>1 DEF Inv, GrantInv, AuthorizationURL
<1>6. RefreshInv'
  <2> SUFFICES ASSUME NEW b \in Browsers, refresh'[b] # None
               PROVE  StartedBy(b, refresh[b])'
      BY DEF RefreshInv
  <2>1. PICK g \in Flows : /\ login[g].session # None
                           /\ login[g].browser = b
                           /\ grant[refresh[b]] = AuthorizationURL(login[g].session)
        BY <1>1 DEF Inv, RefreshInv, StartedBy
  <2>2. grant'[refresh'[b]] = AuthorizationURL(login'[g].session)
        BY <1>1, <2>1
  <2> QED
      BY <1>1, <2>1, <2>2 DEF StartedBy, AuthorizationURL
<1>7. RequestsInv'
  <2>1. \A r \in Requests : req[r].sid # None => req[r].sid \in Flows
        BY DEF Inv, TypeInv, TypeOK, Request
  <2> QED
      BY <1>1, <2>1 DEF Inv, RequestsInv, RequestInv
<1>8. PendingLoginKept'
      BY <1>1 DEF Inv, PendingLoginKept, Found, IsExpired
<1> QED
    BY <1>1, <1>2, <1>3, <1>4, <1>5, <1>6, <1>7, <1>8 DEF Inv, SentInv

\* The IdP issues a code: codes already issued keep what they were issued for.
LEMMA AuthorizeInv ==
    ASSUME Inv, TypeInv', NEW f \in Flows, NEW c \in Codes, Authorize(f, c)
    PROVE  Inv'
<1>1. /\ grant[c] = None
      /\ grant'[c] = AuthorizationURL(login[f].session)
      /\ \A d \in Codes : d # c => grant'[d] = grant[d]
      /\ login[f].session # None
      /\ UNCHANGED <<now, rows, login, cookie, refresh, spent, req, sent>>
      BY NoRecordAssumption DEF Authorize, Inv, TypeInv, TypeOK, PhaseInv
<1>2. GrantInv'
      BY <1>1 DEF Inv, GrantInv
<1>3. RequestsInv'
  <2> SUFFICES ASSUME NEW r \in Requests
               PROVE  RequestInv(r)'
      BY DEF RequestsInv
  <2>1. RequestInv(r) /\ req[r] \in Request
        BY DEF Inv, RequestsInv, TypeInv, TypeOK
  <2>2. ASSUME req[r].session # None, grant[req[r].code] = AuthorizationURL(req[r].session)
        PROVE  grant'[req[r].code] = grant[req[r].code]
    <3>1. req[r].code \in Codes /\ req[r].session \in Session
          BY <2>1, <2>2 DEF RequestInv, Request
    <3>2. grant[req[r].code] # None
          BY <2>2, <3>1, AuthorizationURLType, NoRecordAssumption
    <3> QED
        BY <1>1, <3>1, <3>2
  <2>3. req'[r] = req[r] /\ login' = login
        BY <1>1
  <2> QED
      BY <2>1, <2>2, <2>3 DEF RequestInv, AuthorizationURL
<1>4. RefreshInv'
  <2>1. \A b \in Browsers : refresh[b] # None => refresh[b] \in Codes /\ refresh[b] # c
    <3>1. \A g \in Flows : login[g].session # None => AuthorizationURL(login[g].session) # None
          BY AuthorizationURLType, NoRecordAssumption DEF Inv, TypeInv, TypeOK, Login
    <3> QED
        BY <1>1, <3>1 DEF Inv, RefreshInv, StartedBy, TypeInv, TypeOK
  <2> QED
      BY <1>1, <2>1 DEF Inv, RefreshInv, StartedBy
<1> QED
    BY <1>1, <1>2, <1>3, <1>4 DEF SentInv, Inv, LoginInv, RowsInv, CookieInv, PendingLoginKept,
       Found, IsExpired

\* A callback starts with its browser's cookie, any code and any state.
LEMMA CallbackStartInv ==
    ASSUME Inv, TypeInv', NEW r \in Requests, NEW b \in Browsers, NEW c \in Codes,
           NEW st \in States \cup {ForgedState}, CallbackStart(r, b, c, st)
    PROVE  Inv'
<1>1. /\ req[r].phase = "idle"
      /\ req'[r] = [phase |-> "get", browser |-> b, sid |-> cookie[b].id, code |-> c,
                    state |-> st, session |-> None, err |-> "none"]
      /\ \A q \in Requests : q # r => req'[q] = req[q]
      /\ cookie[b] # None
      /\ UNCHANGED <<now, rows, login, cookie, refresh, grant, spent, sent>>
      BY DEF CallbackStart, SessionKey, Attached, Inv, TypeInv, TypeOK
<1>2. RequestInv(r)'
      BY <1>1 DEF Inv, CookieInv, RequestInv
<1>3. RequestsInv'
      BY <1>1, <1>2 DEF Inv, RequestsInv, RequestInv
<1>4. PendingLoginKept'
  <2>1. req[r].session = None
        BY <1>1 DEF Inv, RequestsInv, RequestInv
  <2> QED
      BY <1>1, <2>1 DEF Inv, PendingLoginKept, Found, IsExpired
<1> QED
    BY <1>1, <1>3, <1>4 DEF Inv, LoginInv, RowsInv, CookieInv, GrantInv, RefreshInv, StartedBy,
       SentInv

\* A callback that ends with an error and touches nothing else.
LEMMA FailOnlyInv ==
    ASSUME Inv, TypeInv', NEW r \in Requests, NEW err \in Errors \ {"none"}, Fail(r, err),
           UNCHANGED <<now, rows, login, cookie, refresh, grant, sent>>
    PROVE  Inv'
<1>1. RequestInv(r)'
      BY FailedCallback
<1> QED
    BY <1>1, FailType, CallbackOnly DEF Inv

\* The SELECT of a callback.
LEMMA RepoGetInv ==
    ASSUME Inv, TypeInv', NEW r \in Requests, RepoGet(r)
    PROVE  Inv'
<1>1. CASE \E err \in {"session_not_found", "database"} : Fail(r, err)
      BY <1>1, FailOnlyInv DEF RepoGet, Errors
<1>2. ASSUME NEW s \in Found(req[r].sid),
             req' = [req EXCEPT ![r].phase = "delete", ![r].session = s]
      PROVE  Inv'
  <2>1. req[r] \in Request /\ req \in [Requests -> Request]
        BY DEF Inv, TypeInv, TypeOK
  <2>2. req' = [req EXCEPT ![r] = [req[r] EXCEPT !.phase = "delete", !.session = s]]
        BY <1>2, <2>1
  <2>3. /\ \A q \in Requests : q # r => req'[q] = req[q]
        /\ req'[r].phase = "delete" /\ req'[r].session = s
        /\ req'[r].browser = req[r].browser /\ req'[r].sid = req[r].sid
        /\ req'[r].code = req[r].code /\ req'[r].state = req[r].state
        BY <2>1, <2>2 DEF Request
  <2>4. /\ s # None /\ req[r].sid # None /\ s = login[req[r].sid].session
        BY NoRecordAssumption, NoneAssumption
        DEF Found, Inv, RowsInv, TypeInv, TypeOK, Session
  <2>5. UNCHANGED <<now, rows, login, cookie, refresh, grant, sent>>
        BY DEF RepoGet
  <2>6. RequestInv(r)'
        BY <2>3, <2>4, <2>5 DEF Inv, RequestsInv, RequestInv
  <2> QED
      BY <2>3, <2>4, <2>5, <2>6, CallbackOnly
<1> QED
    BY <1>1, <1>2 DEF RepoGet

\* The DELETE of a callback removes at most the row of its own browser's login,
\* which this callback has read.
LEMMA RepoDeleteInv ==
    ASSUME Inv, TypeInv', NEW r \in Requests, RepoDelete(r)
    PROVE  Inv'
<1>1. Goto(r, "verify") /\ req[r].phase = "delete"
      BY DEF RepoDelete
<1>2. /\ \A q \in Requests : q # r => req'[q] = req[q]
      /\ req'[r].phase = "verify"
      /\ req'[r].browser = req[r].browser /\ req'[r].sid = req[r].sid
      /\ req'[r].code = req[r].code /\ req'[r].state = req[r].state
      /\ req'[r].session = req[r].session
      BY <1>1, GotoFrame DEF Inv, Phases
<1>3. /\ UNCHANGED <<now, login, cookie, refresh, grant, sent>>
      /\ rows' \subseteq rows
      /\ \A s \in rows : s.id # req[r].sid => s \in rows'
      BY DEF RepoDelete, DeleteRow
<1>4. /\ req[r].session # None
      /\ req[r].browser = login[req[r].sid].browser
      BY <1>1, NoRecordAssumption DEF Inv, TypeInv, PhaseInv, RequestsInv, RequestInv
<1>5. RequestsInv'
      BY <1>2, <1>3, <1>4 DEF Inv, RequestsInv, RequestInv
<1>6. PendingLoginKept'
      BY <1>2, <1>3, <1>4 DEF Inv, PendingLoginKept, Found, IsExpired
<1> QED
    BY <1>3, <1>5, <1>6 DEF Inv, LoginInv, RowsInv, CookieInv, GrantInv, RefreshInv, StartedBy,
       SentInv

\* The checks of a callback: only a matching state goes on to the exchange.
LEMMA VerifyInv ==
    ASSUME Inv, TypeInv', NEW r \in Requests, Verify(r)
    PROVE  Inv'
<1>1. UNCHANGED <<now, rows, login, cookie, refresh, grant, sent>>
      BY DEF Verify
<1>2. CASE \E err \in {"session_expired", "invalid_state"} : Fail(r, err)
      BY <1>1, <1>2, FailOnlyInv DEF Errors
<1>3. CASE StateMatches(r) /\ Goto(r, "exchange")
  <2>1. /\ \A q \in Requests : q # r => req'[q] = req[q]
        /\ req'[r].phase = "exchange"
        /\ req'[r].browser = req[r].browser /\ req'[r].sid = req[r].sid
        /\ req'[r].code = req[r].code /\ req'[r].state = req[r].state
        /\ req'[r].session = req[r].session
        BY <1>3, GotoFrame DEF Inv, Phases
  <2>2. req[r].session # None
        BY NoRecordAssumption DEF Verify, Inv, TypeInv, PhaseInv
  <2>3. RequestInv(r)'
        BY <1>1, <1>3, <2>1, <2>2 DEF Inv, RequestsInv, RequestInv, StateMatches
  <2> QED
      BY <1>1, <2>1, <2>3, CallbackOnly
<1> QED
    BY <1>2, <1>3 DEF Verify

\* What a callback sends to the IdP is its own login's verifier.
LEMMA SentStep ==
    ASSUME Inv, NEW r \in Requests, req[r].phase = "exchange",
           sent' = sent \cup {ExchangeOf(r)}, UNCHANGED login
    PROVE  SentInv'
<1>1. req[r].session # None /\ req[r].session.state = req[r].state
      BY DEF Inv, RequestsInv, RequestInv
<1>2. /\ req[r].sid \in Flows
      /\ login[req[r].sid].session # None
      /\ req[r].session = login[req[r].sid].session
      /\ login[req[r].sid].browser = req[r].browser
      BY <1>1 DEF Inv, RequestsInv, RequestInv, TypeInv, TypeOK, Request
<1>3. /\ req[r].session.state = GenerateState(req[r].sid)
      /\ req[r].session.verifier = GenerateVerifier(req[r].sid)
      BY <1>2 DEF Inv, LoginInv
<1>4. /\ login'[req[r].sid].browser = ExchangeOf(r).browser
      /\ ExchangeOf(r).state = GenerateState(req[r].sid)
      /\ ExchangeOf(r).verifier = GenerateVerifier(req[r].sid)
      BY <1>1, <1>2, <1>3 DEF ExchangeOf
<1> QED
    BY <1>2, <1>4 DEF Inv, SentInv

\* The steps of the code exchange that reach the IdP.
LEMMA ExchangeInv ==
    ASSUME Inv, TypeInv', NEW r \in Requests, ExchangeRejected(r) \/ ExchangeAccepted(r)
    PROVE  Inv'
<1>1. /\ req[r].phase = "exchange" /\ sent' = sent \cup {ExchangeOf(r)}
      /\ UNCHANGED <<now, rows, login, cookie, refresh, grant>>
      /\ Fail(r, "exchange") \/ Goto(r, "userinfo")
      BY DEF ExchangeRejected, ExchangeAccepted
<1>2. /\ \A q \in Requests : q # r => req'[q] = req[q]
      /\ req'[r].browser = req[r].browser /\ req'[r].sid = req[r].sid
      /\ req'[r].session = req[r].session
      BY <1>1, FailType, GotoFrame DEF Inv, Phases, Errors
<1>3. RequestInv(r)'
  <2>1. CASE Fail(r, "exchange")
        BY <1>1, <2>1, FailedCallback DEF Errors
  <2>2. CASE Goto(r, "userinfo")
    <3>1. /\ req'[r].phase = "userinfo"
          /\ req'[r].code = req[r].code /\ req'[r].state = req[r].state
          BY <2>2, GotoFrame DEF Phases, Inv
    <3>2. req[r].session # None
          BY <1>1 DEF Inv, RequestsInv, RequestInv
    <3>3. IdPAccepts(req[r].code, req[r].session.verifier)
      <4>1. req'[r].phase # "done"
            BY <3>1
      <4>2. ~Fail(r, "exchange")
            BY <4>1, FailType DEF Inv, Errors
      <4> QED
          BY <4>2 DEF ExchangeRejected, ExchangeAccepted
    <3>4. grant[req[r].code] = AuthorizationURL(req[r].session)
          BY <3>2, <3>3, AcceptedCode
    <3>5. grant'[req'[r].code] = AuthorizationURL(req'[r].session)
          BY <1>1, <1>2, <3>1, <3>4
    <3> QED
        BY <1>1, <1>2, <3>1, <3>2, <3>5 DEF Inv, RequestsInv, RequestInv, AuthorizationURL
  <2> QED
      BY <1>1, <2>1, <2>2
<1>4. RequestsInv'
      BY <1>1, <1>2, <1>3 DEF Inv, RequestsInv, RequestInv
<1>5. PendingLoginKept'
      BY <1>1, <1>2 DEF Inv, PendingLoginKept, Found, IsExpired
<1>6. SentInv'
      BY <1>1, SentStep
<1> QED
    BY <1>1, <1>4, <1>5, <1>6 DEF Inv, LoginInv, RowsInv, CookieInv, GrantInv, RefreshInv,
       StartedBy

\* The 200: the browser that gets the refresh cookie started the login.
LEMMA CallbackRespondInv ==
    ASSUME Inv, TypeInv', NEW r \in Requests, CallbackRespond(r)
    PROVE  Inv'
<1>1. /\ Goto(r, "done") /\ req[r].phase = "userinfo"
      /\ cookie' = [cookie EXCEPT ![req[r].browser] = None]
      /\ refresh' = [refresh EXCEPT ![req[r].browser] = req[r].code] \/ refresh' = refresh
      /\ UNCHANGED <<now, rows, login, grant, sent>>
      BY DEF CallbackRespond
<1>2. /\ \A q \in Requests : q # r => req'[q] = req[q]
      /\ req'[r].phase = "done"
      /\ req'[r].browser = req[r].browser /\ req'[r].sid = req[r].sid
      /\ req'[r].code = req[r].code /\ req'[r].state = req[r].state
      /\ req'[r].session = req[r].session
      BY <1>1, GotoFrame DEF Inv, Phases
<1>3. RequestsInv'
      BY <1>1, <1>2 DEF Inv, RequestsInv, RequestInv
<1>4. PendingLoginKept'
      BY <1>1, <1>2 DEF Inv, PendingLoginKept, Found, IsExpired
<1>5. CookieInv'
      BY <1>1 DEF Inv, CookieInv, TypeInv, TypeOK
<1>6. RefreshInv'
  <2>1. StartedBy(req[r].browser, req[r].code)
        BY <1>1, AcceptedIsOwn
  <2>2. \A b \in Browsers : \/ refresh'[b] = refresh[b]
                            \/ b = req[r].browser /\ refresh'[b] = req[r].code
        BY <1>1 DEF Inv, TypeInv, TypeOK
  <2>3. \A b \in Browsers : refresh'[b] # None => StartedBy(b, refresh'[b])
        BY <2>1, <2>2 DEF Inv, RefreshInv
  <2> QED
      BY <1>1, <2>3 DEF RefreshInv, StartedBy
<1> QED
    BY <1>1, <1>3, <1>4, <1>5, <1>6 DEF Inv, LoginInv, RowsInv, GrantInv, SentInv

\* The sweeper deletes only rows whose session has expired, and time only
\* expires more of them.
LEMMA BackgroundInv ==
    ASSUME Inv, TypeInv', DeleteExpired \/ Tick
    PROVE  Inv'
<1>1. /\ UNCHANGED <<login, cookie, refresh, grant, req, sent>>
      /\ rows' \subseteq rows
      /\ now \in Nat /\ now' \in Nat /\ now <= now'
      /\ \A s \in rows : s \in rows' \/ s.expiresAt < now'
      BY DEF DeleteExpired, SweepRows, Tick, Inv, TypeInv, TypeOK
<1>2. PendingLoginKept'
  <2> SUFFICES ASSUME NEW f \in Flows, login[f].session # None, Found(f)' = {},
                      ~(login[f].session.expiresAt < now')
               PROVE  \E r \in Requests : /\ req[r].sid = f
                                          /\ req[r].session # None
                                          /\ req[r].browser = login[f].browser
      BY <1>1 DEF PendingLoginKept, IsExpired, Inv, TypeInv, TypeOK, Login, Session
  <2>1. login[f].session.expiresAt \in Nat
        BY DEF Inv, TypeInv, TypeOK, Login, Session
  <2>2. Found(f) = {}
    <3> SUFFICES ASSUME NEW s \in rows, s.id = f
                 PROVE  FALSE
        BY DEF Found
    <3>1. s = login[f].session
          BY DEF Inv, RowsInv
    <3>2. s \in rows'
          BY <1>1, <3>1
    <3> QED
        BY <3>2 DEF Found
  <2>3. ~IsExpired(login[f].session)
        BY <1>1, <2>1 DEF IsExpired
  <2> QED
      BY <2>2, <2>3 DEF Inv, PendingLoginKept
<1>3. RequestsInv'
      BY <1>1 DEF Inv, RequestsInv, RequestInv
<1> QED
    BY <1>1, <1>2, <1>3 DEF Inv, LoginInv, RowsInv, CookieInv, GrantInv, RefreshInv, StartedBy,
       SentInv

LEMMA InvStep == Inv /\ [Next]_vars => Inv'
<1> SUFFICES ASSUME Inv, [Next]_vars
             PROVE  Inv'
    OBVIOUS
<1>1. TypeInv'
      BY TypeStep DEF Inv
<1>2. ASSUME NEW r \in Requests,
             \/ CallbackBadRequest(r) \/ ExchangeRefused(r) \/ UserInfoFail(r) \/ Cancel(r)
      PROVE  Inv'
      BY <1>1, <1>2, FailOnlyInv
      DEF CallbackBadRequest, ExchangeRefused, UserInfoFail, Cancel, Errors
<1>3. ASSUME UNCHANGED vars
      PROVE  Inv'
      BY <1>1, <1>3 DEF vars, Inv, LoginInv, RowsInv, CookieInv, GrantInv, RequestsInv,
         RequestInv, RefreshInv, StartedBy, SentInv, PendingLoginKept, Found,
         IsExpired
<1>4. ASSUME NEW r \in Requests, HandlerStep(r)
      PROVE  Inv'
      BY <1>1, <1>2, <1>4, RepoGetInv, RepoDeleteInv, VerifyInv, ExchangeInv,
         CallbackRespondInv DEF HandlerStep
<1> QED
    BY <1>1, <1>2, <1>3, <1>4, LoginSaveInv, LoginEndInv, AuthorizeInv, CallbackStartInv,
       BackgroundInv DEF Next

LEMMA Invariant == Spec => []Inv
BY InvInit, InvStep, PTL DEF Spec

-----------------------------------------------------------------------------
(* The properties.                                                           *)

\* A browser is only ever logged in with a code of a login it started itself.
THEOREM LoginIsBound == Spec => []LoginBinding
<1>1. Inv => LoginBinding
  <2> SUFFICES ASSUME Inv, NEW r \in Requests, req[r].phase = "done", req[r].err = "none"
               PROVE  StartedBy(req[r].browser, req[r].code)
      BY DEF LoginBinding, Inv, RefreshInv
  <2> QED
      BY AcceptedIsOwn
<1> QED
    BY <1>1, Invariant, PTL

\* A verifier goes to the IdP only for the browser whose login drew it and only
\* on a redirect with that login's state; a code issued under that state is then
\* checked against its own challenge.
THEOREM VerifiersServeTheirLogin == Spec => []VerifierServesItsLogin
<1>1. Inv => VerifierServesItsLogin
  <2> SUFFICES ASSUME Inv, NEW e \in sent
               PROVE  \E f \in Flows :
                         /\ login[f].browser = e.browser
                         /\ e.state = GenerateState(f) /\ e.verifier = GenerateVerifier(f)
                         /\ grant[e.code] # None /\ grant[e.code].state = e.state =>
                               grant[e.code].challenge = DeriveChallenge(e.verifier)
      BY DEF VerifierServesItsLogin
  <2>1. PICK f \in Flows : /\ login[f].session # None
                           /\ login[f].browser = e.browser
                           /\ e.state = GenerateState(f) /\ e.verifier = GenerateVerifier(f)
        BY DEF Inv, SentInv
  <2>2. ASSUME grant[e.code] # None, grant[e.code].state = e.state
        PROVE  grant[e.code].challenge = DeriveChallenge(e.verifier)
    <3>1. e.code \in Codes
          BY DEF Inv, TypeInv, TypeOK, Exchange
    <3>2. PICK g \in Flows : /\ login[g].session # None
                             /\ grant[e.code] = AuthorizationURL(login[g].session)
          BY <2>2, <3>1 DEF Inv, GrantInv
    <3>3. /\ grant[e.code].state = GenerateState(g)
          /\ grant[e.code].challenge = DeriveChallenge(GenerateVerifier(g))
          BY <3>2 DEF Inv, LoginInv, AuthorizationURL
    <3>4. f = g
          BY <2>1, <2>2, <3>3 DEF GenerateState
    <3> QED
        BY <2>1, <3>3, <3>4
  <2> QED
      BY <2>1, <2>2
<1> QED
    BY <1>1, Invariant, PTL

\* A pending login is ended only by its expiry or by its own browser's callback.
THEOREM PendingLoginsAreKept == Spec => []PendingLoginKept
<1>1. Inv => PendingLoginKept
      BY DEF Inv
<1> QED
    BY <1>1, Invariant, PTL

-----------------------------------------------------------------------------
(* A callback on a dead session.                                             *)

\* Request r is over, or it has still to find out that its session is gone, or
\* it holds a session that has expired and has not been verified yet.
Doomed(r) ==
    \/ req[r].phase = "done"
    \/ req[r].phase = "get" /\ Found(req[r].sid) = {}
    \/ /\ req[r].phase \in {"get", "delete", "verify"}
       /\ IsExpired(login[req[r].sid].session)

\* A step of another part of the system cannot bring a dead session back.
LEMMA DoomedByOthers ==
    ASSUME Inv, Inv', NEW r \in Requests, Doomed(r), req'[r] = req[r], now <= now',
           \A f \in Flows : login[f].session # None => login'[f].session = login[f].session,
           \A s \in rows' : s \in rows \/ login[s.id].session = None
    PROVE  Doomed(r)'
<1>1. CASE req[r].phase = "done"
      BY <1>1 DEF Doomed
<1>2. ASSUME req[r].phase \in {"get", "delete", "verify"}
      PROVE  /\ req[r].sid \in Flows
             /\ login[req[r].sid].session \in Session
             /\ login[req[r].sid].session # None
      BY <1>2, NoneAssumption
      DEF Inv, TypeInv, TypeOK, PhaseInv, RequestsInv, RequestInv, Login
<1>3. CASE req[r].phase = "get" /\ Found(req[r].sid) = {}
      BY <1>2, <1>3 DEF Doomed, Found
<1>4. CASE /\ req[r].phase \in {"get", "delete", "verify"}
           /\ IsExpired(login[req[r].sid].session)
  <2>1. /\ now < now' \/ now = now'
        /\ now \in Nat /\ now' \in Nat
        BY DEF Inv, TypeInv, TypeOK
  <2>2. login'[req'[r].sid].session = login[req[r].sid].session
        BY <1>2, <1>4
  <2>3. login[req[r].sid].session.expiresAt \in Nat
        BY <1>2, <1>4 DEF Session
  <2> QED
      BY <1>4, <2>1, <2>2, <2>3 DEF Doomed, IsExpired
<1> QED
    BY <1>1, <1>3, <1>4 DEF Doomed

\* Its own steps end a doomed callback or keep it doomed.
LEMMA DoomedByItself ==
    ASSUME Inv, NEW r \in Requests, Doomed(r), HandlerStep(r)
    PROVE  Doomed(r)'
<1>1. ASSUME NEW err \in Errors, Fail(r, err)
      PROVE  Doomed(r)'
      BY <1>1, FailType DEF Doomed, Inv
<1>2. CASE RepoGet(r)
  <2>1. CASE \E err \in {"session_not_found", "database"} : Fail(r, err)
        BY <1>1, <2>1 DEF Errors
  <2>2. ASSUME NEW s \in Found(req[r].sid),
               req' = [req EXCEPT ![r].phase = "delete", ![r].session = s]
        PROVE  Doomed(r)'
    <3>1. req[r].phase = "get" /\ IsExpired(login[req[r].sid].session)
          BY <1>2 DEF RepoGet, Doomed, Found
    <3>2. req' = [req EXCEPT ![r] = [req[r] EXCEPT !.phase = "delete", !.session = s]]
          BY <2>2 DEF Inv, TypeInv, TypeOK
    <3>3. req'[r].phase = "delete" /\ req'[r].sid = req[r].sid
          BY <3>2 DEF Inv, TypeInv, TypeOK, Request
    <3> QED
        BY <1>2, <3>1, <3>3 DEF RepoGet, Doomed, IsExpired
  <2> QED
      BY <1>2, <2>1, <2>2 DEF RepoGet
<1>3. CASE RepoDelete(r)
  <2>1. req'[r].phase = "verify" /\ req'[r].sid = req[r].sid
        BY <1>3, GotoFrame DEF RepoDelete, Phases, Inv
  <2> QED
      BY <1>3, <2>1 DEF RepoDelete, Doomed, IsExpired
<1>4. CASE Verify(r)
  <2>1. IsExpired(req[r].session)
        BY <1>4, NoRecordAssumption
        DEF Verify, Doomed, Inv, TypeInv, PhaseInv, RequestsInv, RequestInv
  <2> QED
      BY <1>1, <1>4, <2>1 DEF Verify, Errors
<1> QED
    BY <1>2, <1>3, <1>4 DEF HandlerStep, Doomed, ExchangeRefused, ExchangeRejected,
       ExchangeAccepted, UserInfoFail, CallbackRespond

LEMMA DoomedStep ==
    ASSUME NEW r \in Requests
    PROVE  Inv /\ Doomed(r) /\ [Next]_vars => Doomed(r)'
<1> SUFFICES ASSUME Inv, Doomed(r), [Next]_vars
             PROVE  Doomed(r)'
    OBVIOUS
<1>1. Inv'
      BY InvStep
<1>2. req \in [Requests -> Request] /\ login \in [Flows -> Login] /\ now \in Nat
      BY DEF Inv, TypeInv, TypeOK
<1>3. ASSUME NEW b \in Browsers, NEW f \in Flows, LoginSave(b, f)
      PROVE  Doomed(r)'
  <2>1. /\ login[f].session = None
        /\ \A g \in Flows : g # f => login'[g] = login[g]
        /\ \A s \in rows' : s \in rows \/ s.id = f
        /\ req' = req /\ now' = now
        BY <1>2, <1>3 DEF LoginSave, Save, NewSession, Inv, LoginInv
  <2> QED
      BY <1>1, <1>2, <2>1, DoomedByOthers
<1>4. ASSUME NEW f \in Flows, LoginRespond(f) \/ LoginFail(f)
      PROVE  Doomed(r)'
  <2>1. /\ \A g \in Flows : login'[g].session = login[g].session
        /\ req' = req /\ now' = now /\ rows' = rows
        BY <1>2, <1>4 DEF LoginRespond, LoginFail, Login
  <2> QED
      BY <1>1, <1>2, <2>1, DoomedByOthers
<1>5. ASSUME DeleteExpired \/ Tick \/ \E f \in Flows, c \in Codes : Authorize(f, c)
      PROVE  Doomed(r)'
  <2>1. login' = login /\ req' = req /\ now <= now' /\ rows' \subseteq rows
        BY <1>2, <1>5 DEF DeleteExpired, SweepRows, Tick, Authorize
  <2> QED
      BY <1>1, <2>1, DoomedByOthers
<1>6. ASSUME NEW q \in Requests, q # r,
             \/ HandlerStep(q) \/ Cancel(q) \/ CallbackBadRequest(q)
             \/ \E b \in Browsers, c \in Codes, st \in States \cup {ForgedState} :
                   CallbackStart(q, b, c, st)
      PROVE  Doomed(r)'
  <2>1. req'[r] = req[r] /\ login' = login /\ now' = now /\ rows' \subseteq rows
        BY <1>2, <1>6 DEF HandlerStep, RepoGet, RepoDelete, Verify, ExchangeRefused,
           ExchangeRejected, ExchangeAccepted, UserInfoFail, CallbackRespond, Cancel,
           CallbackBadRequest, CallbackStart, Fail, Goto, DeleteRow
  <2> QED
      BY <1>1, <1>2, <2>1, DoomedByOthers
<1>7. ASSUME \/ Cancel(r) \/ CallbackBadRequest(r)
             \/ \E b \in Browsers, c \in Codes, st \in States \cup {ForgedState} :
                   CallbackStart(r, b, c, st)
      PROVE  Doomed(r)'
      BY <1>7, FailType DEF Cancel, CallbackBadRequest, CallbackStart, Doomed, Errors, Inv
<1>8. ASSUME UNCHANGED vars
      PROVE  Doomed(r)'
      BY <1>8 DEF vars, Doomed, Found, IsExpired
<1> QED
    BY <1>3, <1>4, <1>5, <1>6, <1>7, <1>8, DoomedByItself DEF Next

\* A callback that finds its session consumed, swept or expired never reaches
\* the exchange, whatever runs beside it.
THEOREM DeadSessionsAreRefused == Spec => DeadSessionRefused
<1> SUFFICES ASSUME NEW r \in Requests
             PROVE  Spec => [](DeadSession(r) =>
                                 [](req[r].phase \notin {"exchange", "userinfo"}))
    BY DEF DeadSessionRefused
<1>1. DeadSession(r) => Doomed(r)
      BY DEF DeadSession, Doomed, IsExpired
<1>2. Doomed(r) => req[r].phase \notin {"exchange", "userinfo"}
      BY DEF Doomed
<1>3. Inv /\ Doomed(r) /\ [Next]_vars => Doomed(r)'
      BY DoomedStep
<1> QED
    BY <1>1, <1>2, <1>3, Invariant, PTL DEF Spec

=============================================================================
