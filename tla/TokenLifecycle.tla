--------------------------- MODULE TokenLifecycle ---------------------------
(* What happens to a login after the callback: POST /refresh rotates the     *)
(* refresh token a browser keeps in its cookie, POST /logout revokes it.     *)
(* The tabs of a browser share the cookie and their requests overlap, so a   *)
(* handler works with the token that was in the cookie when it started, and  *)
(* the answers are applied in the order they arrive.  Calls to the identity  *)
(* provider (IdP) fail before or after they took effect.                     *)
EXTENDS Naturals

CONSTANTS
    Browsers,  \* cookie jars
    Sessions,  \* grants of the IdP, one for each login
    Tokens,    \* refresh tokens the IdP may issue
    Requests,  \* requests of the browsers
    None

ASSUME NoneAssumption ==
    /\ None \notin Browsers
    /\ None \notin Sessions
    /\ None \notin Tokens

VARIABLES
    cookie,   \* cookie[b]: the refresh_token cookie of browser b
    tok,      \* tok[t]: what the IdP knows of token t
    owner,    \* owner[s]: the browser whose login created session s
    revoked,  \* sessions the IdP has ended
    req,      \* req[r]: the request r and its handler
    excused   \* history: sessions whose token was lost on the way or given up

vars == <<cookie, tok, owner, revoked, req, excused>>

-----------------------------------------------------------------------------
Maybe(S) == S \cup {None}

Token == [status: {"unissued", "live", "spent"}, session: Maybe(Sessions)]

Kinds == {"none", "login", "refresh", "logout"}
Phases == {"idle", "idp", "respond", "done"}
Statuses == {0, 200, 204, 400, 401}

\* History: the revocation had no effect, whatever its status said; a refresh of
\* the session was under way at the 204.
Marks == SUBSET {"failed", "raced"}

\* token: from the cookie; answer: the new token for the cookie.
Request == [kind: Kinds, phase: Phases, browser: Maybe(Browsers), token: Maybe(Tokens),
            answer: Maybe(Tokens), status: Statuses, marks: Marks]

IdleRequest == [kind |-> "none", phase |-> "idle", browser |-> None, token |-> None,
                answer |-> None, status |-> 0, marks |-> {}]

Started(kind, phase, b, token, answer) ==
    [kind |-> kind, phase |-> phase, browser |-> b, token |-> token,
     answer |-> answer, status |-> 0, marks |-> {}]

SessionOf(t) == tok[t].session

\* The IdP accepts a token once, and none of a session that has ended.
Live(t) == tok[t].status = "live" /\ SessionOf(t) \notin revoked

Init ==
    /\ cookie = [b \in Browsers |-> None]
    /\ tok = [t \in Tokens |-> [status |-> "unissued", session |-> None]]
    /\ owner = [s \in Sessions |-> None]
    /\ revoked = {}
    /\ req = [r \in Requests |-> IdleRequest]
    /\ excused = {}

Done(r, status) == req' = [req EXCEPT ![r].phase = "done", ![r].status = status]

\* The browser applies a Set-Cookie: t replaces whatever is there by now.  The
\* session of the token that goes is given up, unless t is its next token.
SetCookie(b, t) ==
    /\ cookie' = [cookie EXCEPT ![b] = t]
    /\ excused' = excused \cup
          {s \in Sessions : /\ cookie[b] # None
                            /\ SessionOf(cookie[b]) = s
                            /\ t # None => SessionOf(t) # s}

-----------------------------------------------------------------------------
(* Login: the end of GET /callback, whose beginning is module AuthSession.   *)

LoginIssue(r, b, s, t) ==
    /\ req[r].phase = "idle"
    /\ owner[s] = None
    /\ tok[t].status = "unissued"
    /\ owner' = [owner EXCEPT ![s] = b]
    /\ tok' = [tok EXCEPT ![t] = [status |-> "live", session |-> s]]
    /\ req' = [req EXCEPT ![r] = Started("login", "respond", b, None, t)]
    /\ UNCHANGED <<cookie, revoked, excused>>

\* Without a refresh token in the answer there is no cookie to set.
LoginWithoutToken(r, b) ==
    /\ req[r].phase = "idle"
    /\ req' = [req EXCEPT ![r] = Started("login", "respond", b, None, None)]
    /\ UNCHANGED <<cookie, tok, owner, revoked, excused>>

(* POST /refresh ------------------------------------------------------------*)

\* Variant: the handler works with the cookie of whichever request came last.
RequestCookieShared(b) ==
    IF \A c \in Browsers : cookie[c] = None THEN None
    ELSE cookie[CHOOSE c \in Browsers : cookie[c] # None]

\* The refresh_token cookie a request of browser b carries.
RequestCookie(b) == cookie[b]

RefreshStart(r, b) ==
    /\ req[r].phase = "idle"
    /\ RequestCookie(b) # None
    /\ req' = [req EXCEPT ![r] = Started("refresh", "idp", b, RequestCookie(b), None)]
    /\ UNCHANGED <<cookie, tok, owner, revoked, excused>>

\* No cookie: 400.
RefreshBadRequest(r, b) ==
    /\ req[r].phase = "idle"
    /\ RequestCookie(b) = None
    /\ req' = [req EXCEPT ![r] = [Started("refresh", "done", b, None, None)
                                    EXCEPT !.status = 400]]
    /\ UNCHANGED <<cookie, tok, owner, revoked, excused>>

\* The IdP takes the token and answers with the next one, or without one when
\* rotation is off.
RefreshAccepted(r, next) ==
    /\ req[r].kind = "refresh" /\ req[r].phase = "idp"
    /\ Live(req[r].token)
    /\ IF next = None THEN UNCHANGED tok
       ELSE /\ tok[next].status = "unissued"
            /\ tok' = [tok EXCEPT ![req[r].token].status = "spent",
                                  ![next] = [status |-> "live",
                                             session |-> SessionOf(req[r].token)]]
    /\ req' = [req EXCEPT ![r].phase = "respond", ![r].answer = next]
    /\ UNCHANGED <<cookie, owner, revoked, excused>>

\* The answer of an IdP that has taken the token is lost, and with it the next.
RefreshLost(r, next) ==
    /\ req[r].kind = "refresh" /\ req[r].phase = "idp"
    /\ Live(req[r].token)
    /\ tok[next].status = "unissued"
    /\ tok' = [tok EXCEPT ![req[r].token].status = "spent",
                          ![next] = [status |-> "live", session |-> SessionOf(req[r].token)]]
    /\ excused' = excused \cup {SessionOf(req[r].token)}
    /\ Done(r, 401)
    /\ UNCHANGED <<cookie, owner, revoked>>

\* Variant: a 401 clears the cookie.
RefreshErrorClears(r) ==
    /\ Done(r, 401)
    /\ cookie' = [cookie EXCEPT ![req[r].browser] = None]

\* Variant: an IdP out of reach is a 500.
RefreshErrorInternal(r) == Done(r, 500) /\ UNCHANGED cookie

\* Every error is a 401, and the cookie stays as it is.
RefreshError(r) == Done(r, 401) /\ UNCHANGED cookie

\* The breaker is open, the IdP is out of reach or refuses the token.  A token
\* that comes twice may make the IdP end its session.
RefreshFailed(r) ==
    /\ req[r].kind = "refresh" /\ req[r].phase = "idp"
    /\ \/ UNCHANGED revoked
       \/ /\ tok[req[r].token].status = "spent"
          /\ revoked' = revoked \cup {SessionOf(req[r].token)}
    /\ RefreshError(r)
    /\ UNCHANGED <<tok, owner, excused>>

\* The cookie is only set when a token came.
TokenCookie(b, t) == IF t = None THEN UNCHANGED <<cookie, excused>> ELSE SetCookie(b, t)

\* The 200 of a login or of a refresh reaches the browser.
TokenRespond(r) ==
    /\ req[r].kind \in {"login", "refresh"} /\ req[r].phase = "respond"
    /\ TokenCookie(req[r].browser, req[r].answer)
    /\ Done(r, 200)
    /\ UNCHANGED <<tok, owner, revoked>>

(* POST /logout -------------------------------------------------------------*)

\* The access token passes; without a cookie there is nothing to revoke.
LogoutStart(r, b) ==
    /\ req[r].phase = "idle"
    /\ req' = [req EXCEPT ![r] =
                 Started("logout", IF RequestCookie(b) = None THEN "respond" ELSE "idp",
                         b, RequestCookie(b), None)]
    /\ UNCHANGED <<cookie, tok, owner, revoked, excused>>

\* The access token has expired: the handler is not reached, nothing is revoked.
LogoutUnauthorized(r, b) ==
    /\ req[r].phase = "idle"
    /\ req' = [req EXCEPT ![r] = [Started("logout", "done", b, None, None)
                                    EXCEPT !.status = 401]]
    /\ UNCHANGED <<cookie, tok, owner, revoked, excused>>

\* The IdP ends the session of the token; its answer arrives or is lost.  It may
\* do so for a token that is spent: that is up to the IdP, which has the choice
\* between this step and the next for every token.
RevokeDone(r) ==
    /\ req[r].kind = "logout" /\ req[r].phase = "idp"
    /\ revoked' = revoked \cup {SessionOf(req[r].token)}
    /\ req' = [req EXCEPT ![r].phase = "respond"]
    /\ UNCHANGED <<cookie, tok, owner, excused>>

\* The session goes on: the breaker is open, the IdP fails (Logout drops the
\* error), or it answers 200 all the same, as it may for a token it no longer
\* takes (RevokeToken looks at nothing but the status).
RevokeFailed(r) ==
    /\ req[r].kind = "logout" /\ req[r].phase = "idp"
    /\ req' = [req EXCEPT ![r].phase = "respond", ![r].marks = {"failed"}]
    /\ UNCHANGED <<cookie, tok, owner, revoked, excused>>

\* A refresh of the session of token t has been sent and not been answered.
Refreshing(t) ==
    \E q \in Requests : /\ req[q].kind = "refresh"
                        /\ req[q].phase \in {"idp", "respond"}
                        /\ SessionOf(req[q].token) = SessionOf(t)

\* Variant: only a cookie whose token was revoked is cleared.
ClearedCookieIfRevoked(r) == IF "failed" \in req[r].marks THEN cookie[req[r].browser] ELSE None

\* The cookie is cleared whatever became of the revocation.
ClearedCookie(r) == None

\* The 204 reaches the browser.
LogoutRespond(r) ==
    /\ req[r].kind = "logout" /\ req[r].phase = "respond"
    /\ SetCookie(req[r].browser, ClearedCookie(r))
    /\ req' = [req EXCEPT ![r].phase = "done", ![r].status = 204,
                          ![r].marks = IF req[r].token # None /\ Refreshing(req[r].token)
                                       THEN @ \cup {"raced"} ELSE @]
    /\ UNCHANGED <<tok, owner, revoked>>

(* A request is cancelled, its handler dies or its response is lost.         *)
Cancel(r) ==
    /\ req[r].phase \in {"idp", "respond"}
    /\ Done(r, 0)
    /\ excused' = IF req[r].answer = None THEN excused
                  ELSE excused \cup {SessionOf(req[r].answer)}
    /\ UNCHANGED <<cookie, tok, owner, revoked>>

Next ==
    \/ \E r \in Requests, b \in Browsers, s \in Sessions, t \in Tokens : LoginIssue(r, b, s, t)
    \/ \E r \in Requests, b \in Browsers : \/ LoginWithoutToken(r, b)
                                           \/ RefreshStart(r, b)
                                           \/ RefreshBadRequest(r, b)
    \/ \E r \in Requests, t \in Maybe(Tokens) : RefreshAccepted(r, t)
    \/ \E r \in Requests, t \in Tokens : RefreshLost(r, t)
    \/ \E r \in Requests : RefreshFailed(r) \/ TokenRespond(r)
    \/ \E r \in Requests, b \in Browsers : LogoutStart(r, b) \/ LogoutUnauthorized(r, b)
    \/ \E r \in Requests : RevokeDone(r) \/ RevokeFailed(r) \/ LogoutRespond(r) \/ Cancel(r)

Spec == Init /\ [][Next]_vars

-----------------------------------------------------------------------------
(* Properties.                                                               *)

\* Every variable stays in the domain the code's types give it.
TypeOK ==
    /\ cookie \in [Browsers -> Maybe(Tokens)]
    /\ tok \in [Tokens -> Token]
    /\ owner \in [Sessions -> Maybe(Browsers)]
    /\ revoked \in SUBSET Sessions
    /\ req \in [Requests -> Request]
    /\ excused \in SUBSET Sessions

\* Browser b has, or is about to be sent, a token of session s that works.
Reaches(b, s) ==
    \E t \in Tokens :
       /\ tok[t].status = "live" /\ SessionOf(t) = s
       /\ \/ cookie[b] = t
          \/ \E r \in Requests : /\ req[r].phase = "respond"
                                 /\ req[r].browser = b
                                 /\ req[r].answer = t

\* The answers of overlapping refreshes do not cost a browser its token: as long
\* as the IdP has not ended a session, its working token is in the cookie of the
\* browser that logged in, or on its way there, unless an answer that carried it
\* was lost or the browser logged out or logged in anew.  An IdP that ends the
\* session because one token came twice, from two tabs, is excepted.
SessionKept ==
    \A s \in Sessions :
       owner[s] # None /\ s \notin revoked /\ s \notin excused => Reaches(owner[s], s)

\* A browser never has a token of another browser's login, whatever answers
\* cross on the way.
CookieBinding ==
    \A b \in Browsers : cookie[b] # None => owner[SessionOf(cookie[b])] = b

\* After the 204 of a logout the browser no longer holds a working token of the
\* session it logged out of: a revocation without effect, its error dropped, does
\* not bring it back by itself, and a refresh that was under way does not either.
LogoutSticks ==
    \A r \in Requests :
       LET b == req[r].browser
           t == req[r].token
       IN  /\ req[r].kind = "logout" /\ req[r].status = 204 /\ t # None
           /\ cookie[b] # None /\ SessionOf(cookie[b]) = SessionOf(t)
           /\ Live(cookie[b])
           => req[r].marks = {"failed", "raced"}

=============================================================================
