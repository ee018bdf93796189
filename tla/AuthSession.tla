---------------------------- MODULE AuthSession ----------------------------
(* The PKCE login of the gateway: GET /login stores a transient session and  *)
(* redirects the browser to the identity provider (IdP); GET /callback reads *)
(* that session, deletes it, verifies it and exchanges the code for tokens.  *)
(* Handlers run concurrently, so every database statement and every call to  *)
(* the IdP is a step of its own.  The session table may fail on any          *)
(* statement, the IdP may refuse, fail or answer into a lost connection, a   *)
(* request may be cancelled or die with the process between any two steps,   *)
(* and expired rows may be deleted meanwhile.                                *)
EXTENDS Naturals

CONSTANTS
    Browsers,    \* cookie jars
    Flows,       \* calls of InitiateAuth: each draws its own id, state, verifier
    Codes,       \* authorization codes the IdP may issue
    Requests,    \* GET /callback requests
    SessionTTL,  \* life of a row of auth_sessions (5 minutes in the code)
    CookieTTL,   \* life of the session_id cookie (10 minutes in the code)
    Horizon,     \* bound of the clock
    None         \* no session, no cookie, no browser, no code

ASSUME NoneAssumption ==
    /\ None \notin Browsers
    /\ None \notin Flows
    /\ None \notin Codes

ASSUME TimeAssumption ==
    /\ SessionTTL \in Nat
    /\ CookieTTL \in Nat
    /\ Horizon \in Nat

VARIABLES
    now,      \* the gateway's clock
    rows,     \* the table auth_sessions
    login,    \* login[f]: the GET /login request that drew flow f
    cookie,   \* cookie[b]: the session_id cookie of browser b
    refresh,  \* refresh[b]: the code whose refresh token browser b holds
    grant,    \* grant[c]: what the IdP recorded when it issued code c
    spent,    \* codes the IdP has already exchanged
    req,      \* req[r]: the GET /callback request r
    sent      \* history: every code exchange that reached the IdP

vars == <<now, rows, login, cookie, refresh, grant, spent, req, sent>>

-----------------------------------------------------------------------------
(* Values.  A flow names one draw from crypto/rand; distinct flows never     *)
(* collide.  The id of a session is public to its browser's cookie, its      *)
(* state to the redirect, its verifier only to the table and the IdP.        *)

GenerateState(f) == <<"state", f>>
ForgedState == <<"state", None>>      \* a state parameter nobody drew
States == {GenerateState(f) : f \in Flows}

GenerateVerifier(f) == <<"verifier", f>>
Verifiers == {GenerateVerifier(f) : f \in Flows}

DeriveChallenge(v) == <<"S256", v>>
Challenges == {DeriveChallenge(v) : v \in Verifiers}

Session == [id: Flows, state: States, verifier: Verifiers, expiresAt: Nat]

\* The session InitiateAuth builds for a flow.
NewSession(f) ==
    [id |-> f, state |-> GenerateState(f), verifier |-> GenerateVerifier(f),
     expiresAt |-> now + SessionTTL]

\* Variant: the copy of the session keeps its verifier.
AuthorizationURLWithVerifier(s) == [state |-> s.state, challenge |-> s.verifier]

\* What the redirect to the IdP carries: the challenge, never the verifier.
AuthorizationURL(s) == [state |-> s.state, challenge |-> DeriveChallenge(s.verifier)]

\* Variant: the expiry of the row is not consulted.
NeverExpired(s) == FALSE

\* time.Now().After(ExpiresAt): strict, the instant of expiry is still valid.
IsExpired(s) == now > s.expiresAt

LoginPhases == {"idle", "saved", "redirected", "failed"}
Login == [phase: LoginPhases, browser: Browsers \cup {None},
          session: Session \cup {None}]

Cookie == [id: Flows, expires: Nat]

Grant == [state: States, challenge: Challenges]

ASSUME NoRecordAssumption ==
    /\ None \notin Session
    /\ None \notin Cookie
    /\ None \notin Grant

\* A request is idle, at one of the steps of the callback, or done.
Phases == {"idle", "get", "delete", "verify", "exchange", "userinfo", "done"}
Errors == {"none", "bad_request", "database", "session_not_found",
           "session_expired", "invalid_state", "exchange", "userinfo", "cancelled"}

Request == [phase: Phases, browser: Browsers \cup {None}, sid: Flows \cup {None},
            code: Codes \cup {None}, state: States \cup {ForgedState},
            session: Session \cup {None}, err: Errors]

IdleLogin == [phase |-> "idle", browser |-> None, session |-> None]
IdleRequest == [phase |-> "idle", browser |-> None, sid |-> None, code |-> None,
                state |-> ForgedState, session |-> None, err |-> "none"]

\* code and verifier reach the IdP; the rest tells which callback sent them.
Exchange == [req: Requests, browser: Browsers, state: States \cup {ForgedState},
             code: Codes, verifier: Verifiers]

\* The status the callback handler answers with, by the error of the service
\* (0: the requester is gone).
Status(err) ==
    CASE err = "none" -> 200
      [] err = "bad_request" -> 400
      [] err \in {"session_expired", "invalid_state"} -> 401
      [] err = "cancelled" -> 0
      [] OTHER -> 500

-----------------------------------------------------------------------------
(* The table auth_sessions, one operator per SQL statement.                  *)

Save(s) == rows' = rows \cup {s}
Found(id) == {s \in rows : s.id = id}
DeleteRow(id) == rows' = {s \in rows : s.id # id}

\* Variant: expires_at <= now.
SweepRowsEarly == rows' = {s \in rows : ~(s.expiresAt <= now)}

\* DELETE ... WHERE expires_at < now.
SweepRows == rows' = {s \in rows : ~(s.expiresAt < now)}

-----------------------------------------------------------------------------
Init ==
    /\ now = 0
    /\ rows = {}
    /\ login = [f \in Flows |-> IdleLogin]
    /\ cookie = [b \in Browsers |-> None]
    /\ refresh = [b \in Browsers |-> None]
    /\ grant = [c \in Codes |-> None]
    /\ spent = {}
    /\ req = [r \in Requests |-> IdleRequest]
    /\ sent = {}

(* GET /login ---------------------------------------------------------------*)

\* InitiateAuth draws the secrets and inserts the row.  The bound leaves every
\* session time to expire before the clock stops.
LoginSave(b, f) ==
    /\ login[f].phase = "idle"
    /\ now + SessionTTL < Horizon
    /\ Save(NewSession(f))
    /\ login' = [login EXCEPT ![f] = [phase |-> "saved", browser |-> b,
                                      session |-> NewSession(f)]]
    /\ UNCHANGED <<now, cookie, refresh, grant, spent, req, sent>>

\* The browser receives the 302: the cookie, overwriting the one of an earlier
\* login, and the authorization URL.
LoginRespond(f) ==
    /\ login[f].phase = "saved"
    /\ login' = [login EXCEPT ![f].phase = "redirected"]
    /\ cookie' = [cookie EXCEPT ![login[f].browser] =
                     [id |-> f, expires |-> now + CookieTTL]]
    /\ UNCHANGED <<now, rows, refresh, grant, spent, req, sent>>

\* A missing redirect_uri, a failed draw or a failed insert before the row is
\* there; an insert that commits but reports an error, or a lost response,
\* after it.
LoginFail(f) ==
    /\ login[f].phase \in {"idle", "saved"}
    /\ login' = [login EXCEPT ![f].phase = "failed"]
    /\ UNCHANGED <<now, rows, cookie, refresh, grant, spent, req, sent>>

(* The IdP (external) -------------------------------------------------------*)

\* The user signs in at the authorization URL; reloading the URL gives another
\* code for the same flow.
Authorize(f, c) ==
    /\ login[f].phase = "redirected"
    /\ grant[c] = None
    /\ grant' = [grant EXCEPT ![c] = AuthorizationURL(login[f].session)]
    /\ UNCHANGED <<now, rows, login, cookie, refresh, spent, req, sent>>

\* A code that was issued is exchanged at most once, against the verifier of its
\* challenge.
IdPAccepts(c, v) ==
    grant[c] # None /\ c \notin spent /\ grant[c].challenge = DeriveChallenge(v)

(* GET /callback ------------------------------------------------------------*)

Goto(r, phase) == req' = [req EXCEPT ![r].phase = phase]
Fail(r, err) == req' = [req EXCEPT ![r].phase = "done", ![r].err = err]

\* A browser attaches its session_id cookie until the cookie expires.
Attached(b) == cookie[b] # None /\ now < cookie[b].expires

\* Variant: the session is found by the state parameter.
SessionKeyByState(b, st) == IF st = ForgedState THEN cookie[b].id ELSE st[2]

\* The key HandleCallback looks the session up by: the cookie, not the state.
SessionKey(b, st) == cookie[b].id

\* A browser follows a redirect, as often as it likes, with any code and any
\* state: of one redirect of the IdP or of two, meant for this browser or for
\* another, or a code that was never issued and a state that nobody drew.
CallbackStart(r, b, c, st) ==
    /\ req[r].phase = "idle"
    /\ Attached(b)
    /\ req' = [req EXCEPT ![r] = [phase |-> "get", browser |-> b,
                                  sid |-> SessionKey(b, st), code |-> c,
                                  state |-> st, session |-> None, err |-> "none"]]
    /\ UNCHANGED <<now, rows, login, cookie, refresh, grant, spent, sent>>

\* No cookie arrives (expired, withheld by SameSite=Strict, never set), or the
\* redirect has no code or no state (the user declined at the IdP).
CallbackBadRequest(r) ==
    /\ req[r].phase = "idle"
    /\ Fail(r, "bad_request")
    /\ UNCHANGED <<now, rows, login, cookie, refresh, grant, spent, sent>>

RepoGet(r) ==
    /\ req[r].phase = "get"
    /\ \/ \E s \in Found(req[r].sid) :
             req' = [req EXCEPT ![r].phase = "delete", ![r].session = s]
       \/ Found(req[r].sid) = {} /\ Fail(r, "session_not_found")
       \/ Fail(r, "database")
    /\ UNCHANGED <<now, rows, login, cookie, refresh, grant, spent, sent>>

\* The error of Delete is ignored: the callback goes on when the statement
\* failed and the row is still there, and when another request removed it first.
RepoDelete(r) ==
    /\ req[r].phase = "delete"
    /\ DeleteRow(req[r].sid) \/ UNCHANGED rows
    /\ Goto(r, "verify")
    /\ UNCHANGED <<now, login, cookie, refresh, grant, spent, sent>>

\* Variant: the state parameter is not compared.
StateUnchecked(r) == TRUE

StateMatches(r) == req[r].session.state = req[r].state

Verify(r) ==
    /\ req[r].phase = "verify"
    /\ \/ IsExpired(req[r].session) /\ Fail(r, "session_expired")
       \/ /\ ~IsExpired(req[r].session)
          /\ \/ ~StateMatches(r) /\ Fail(r, "invalid_state")
             \/ StateMatches(r) /\ Goto(r, "exchange")
    /\ UNCHANGED <<now, rows, login, cookie, refresh, grant, spent, sent>>

\* The POST /oauth/token of a request: its code with the verifier of its session.
ExchangeOf(r) == [req |-> r, browser |-> req[r].browser, state |-> req[r].state,
                  code |-> req[r].code, verifier |-> req[r].session.verifier]

\* The circuit breaker is open, or no connection: nothing reaches the IdP.
ExchangeRefused(r) ==
    /\ req[r].phase = "exchange"
    /\ Fail(r, "exchange")
    /\ UNCHANGED <<now, rows, login, cookie, refresh, grant, spent, sent>>

\* The IdP rejects the exchange, or fails before it has processed it.
ExchangeRejected(r) ==
    /\ req[r].phase = "exchange"
    /\ sent' = sent \cup {ExchangeOf(r)}
    /\ Fail(r, "exchange")
    /\ UNCHANGED <<now, rows, login, cookie, refresh, grant, spent>>

\* The IdP accepts; its answer arrives, or is lost and the code is burnt.
ExchangeAccepted(r) ==
    /\ req[r].phase = "exchange"
    /\ IdPAccepts(req[r].code, req[r].session.verifier)
    /\ sent' = sent \cup {ExchangeOf(r)}
    /\ spent' = spent \cup {req[r].code}
    /\ Goto(r, "userinfo") \/ Fail(r, "exchange")
    /\ UNCHANGED <<now, rows, login, cookie, refresh, grant>>

\* GET /userinfo fails after a successful exchange: the tokens are dropped.
UserInfoFail(r) ==
    /\ req[r].phase = "userinfo"
    /\ Fail(r, "userinfo")
    /\ UNCHANGED <<now, rows, login, cookie, refresh, grant, spent, sent>>

\* The 200 reaches the browser: it drops whatever session cookie it holds by
\* now and, if the IdP issued a refresh token, keeps that.
CallbackRespond(r) ==
    LET b == req[r].browser IN
    /\ req[r].phase = "userinfo"
    /\ Goto(r, "done")
    /\ cookie' = [cookie EXCEPT ![b] = None]
    /\ refresh' = [refresh EXCEPT ![b] = req[r].code] \/ UNCHANGED refresh
    /\ UNCHANGED <<now, rows, login, grant, spent, sent>>

\* The context is cancelled, the process dies or the response is lost.
Cancel(r) ==
    /\ req[r].phase \notin {"idle", "done"}
    /\ Fail(r, "cancelled")
    /\ UNCHANGED <<now, rows, login, cookie, refresh, grant, spent, sent>>

(* Background ---------------------------------------------------------------*)

\* The sweep, which nothing in the repository calls ("a batch background task",
\* ports/session_repo.go:19): it may run or not, and rows may stay for good.
DeleteExpired ==
    /\ SweepRows
    /\ UNCHANGED <<now, login, cookie, refresh, grant, spent, req, sent>>

Tick ==
    /\ now < Horizon
    /\ now' = now + 1
    /\ UNCHANGED <<rows, login, cookie, refresh, grant, spent, req, sent>>

HandlerStep(r) ==
    \/ RepoGet(r)
    \/ RepoDelete(r)
    \/ Verify(r)
    \/ ExchangeRefused(r)
    \/ ExchangeRejected(r)
    \/ ExchangeAccepted(r)
    \/ UserInfoFail(r)
    \/ CallbackRespond(r)

Next ==
    \/ \E b \in Browsers, f \in Flows : LoginSave(b, f)
    \/ \E f \in Flows : LoginRespond(f)
    \/ \E f \in Flows : LoginFail(f)
    \/ \E f \in Flows, c \in Codes : Authorize(f, c)
    \/ \E r \in Requests, b \in Browsers, c \in Codes, st \in States \cup {ForgedState} :
          CallbackStart(r, b, c, st)
    \/ \E r \in Requests : CallbackBadRequest(r)
    \/ \E r \in Requests : HandlerStep(r)
    \/ \E r \in Requests : Cancel(r)
    \/ DeleteExpired
    \/ Tick

Spec == Init /\ [][Next]_vars

-----------------------------------------------------------------------------
(* Properties.                                                               *)

\* Every variable stays in the domain the code's types give it.
TypeOK ==
    /\ now \in Nat
    /\ rows \in SUBSET Session
    /\ login \in [Flows -> Login]
    /\ cookie \in [Browsers -> Cookie \cup {None}]
    /\ refresh \in [Browsers -> Codes \cup {None}]
    /\ grant \in [Codes -> Grant \cup {None}]
    /\ spent \in SUBSET Codes
    /\ req \in [Requests -> Request]
    /\ sent \in SUBSET Exchange

\* Code c was issued for a login that browser b started.
StartedBy(b, c) ==
    \E f \in Flows : /\ login[f].session # None
                     /\ login[f].browser = b
                     /\ grant[c] = AuthorizationURL(login[f].session)

\* A browser is logged in (a 200 from Callback, a refresh cookie) only with a
\* code of a login that this same browser started, whatever redirects it was
\* made to follow and however its requests interleave.
LoginBinding ==
    /\ \A r \in Requests :
          req[r].phase = "done" /\ req[r].err = "none" => StartedBy(req[r].browser, req[r].code)
    /\ \A b \in Browsers : refresh[b] # None => StartedBy(b, refresh[b])

\* HandleCallback sends a verifier only for the browser whose login drew it, and
\* only when the redirect brought that login's own state.  So a code that comes
\* with the state it was issued under meets its own verifier, whichever tab or
\* browser the redirect was meant for; a code that comes with the state of
\* another redirect is left to the IdP to refuse.
VerifierServesItsLogin ==
    \A e \in sent :
       \E f \in Flows :
          /\ login[f].browser = e.browser
          /\ e.state = GenerateState(f) /\ e.verifier = GenerateVerifier(f)
          /\ grant[e.code] # None /\ grant[e.code].state = e.state =>
                grant[e.code].challenge = DeriveChallenge(e.verifier)

\* A stored login session disappears only because it expired or because a
\* callback of the browser that started it had read it: neither the sweeper nor
\* another browser's callback ends a login that is still pending.
PendingLoginKept ==
    \A f \in Flows :
       login[f].session # None /\ Found(f) = {} =>
          \/ IsExpired(login[f].session)
          \/ \E r \in Requests : /\ req[r].sid = f
                                 /\ req[r].session # None
                                 /\ req[r].browser = login[f].browser

\* The session a callback is about to read was consumed, swept or has expired.
DeadSession(r) ==
    /\ req[r].phase = "get"
    /\ Found(req[r].sid) = {} \/ now > login[req[r].sid].session.expiresAt

\* A callback whose session is dead before it is read never gets as far as the
\* IdP: a replay after the delete took effect, or a late redirect, is refused.
DeadSessionRefused ==
    \A r \in Requests :
       [](DeadSession(r) => [](req[r].phase \notin {"exchange", "userinfo"}))

(* What the documents say and the code does not do.                          *)

\* The verifier of a session is sent to the IdP at most once: "Database
\* guarantees guarantee immediate deletion upon exchange callback, preventing
\* verifier reuse" (ADR-001); HandleCallback reads and deletes in two
\* statements and ignores the error of the second.
VerifierSentOnce == \A e1, e2 \in sent : e1.verifier = e2.verifier => e1 = e2

=============================================================================
