------------------------ MODULE TokenLifecycleProofs ------------------------
(* Proofs about TokenLifecycle for any number of browsers, sessions, tokens  *)
(* and overlapping requests.                                                 *)
EXTENDS TokenLifecycle, TLAPS

-----------------------------------------------------------------------------
(* The inductive invariant.                                                  *)

Issued(t) == tok[t].status # "unissued"

\* An answer with a token is on its way to a browser.
Sending(r) == req[r].phase = "respond" /\ req[r].answer # None

\* Every token that was issued belongs to the session of some browser's login.
TokenInv ==
    \A t \in Tokens : Issued(t) => SessionOf(t) \in Sessions /\ owner[SessionOf(t)] \in Browsers

\* A cookie holds an issued token of the browser's own login.
CookieInv ==
    \A b \in Browsers :
       cookie[b] # None => Issued(cookie[b]) /\ owner[SessionOf(cookie[b])] = b

\* What the phase of a handler says about the rest of it.
Shape(r) ==
    /\ req[r].phase = "idp" => /\ req[r].kind \in {"refresh", "logout"}
                               /\ req[r].token \in Tokens
                               /\ req[r].answer = None
    /\ req[r].phase = "respond" /\ req[r].kind = "refresh" => req[r].token \in Tokens
    /\ req[r].phase \in {"idp", "respond"} => req[r].browser \in Browsers
    /\ req[r].status = 204 => req[r].phase = "done" /\ req[r].browser \in Browsers
    /\ req[r].kind = "logout" => req[r].answer = None
    /\ req[r].phase = "idle" => req[r].token = None

\* A handler works with an issued token of its browser's own login.
Carries(r) ==
    req[r].token # None =>
       Issued(req[r].token) /\ owner[SessionOf(req[r].token)] = req[r].browser

\* A token that is on its way works, and nobody else has it yet; that of a login
\* is the only one of its session.
Delivers(r) ==
    Sending(r) =>
       LET t == req[r].answer
       IN  /\ tok[t].status = "live"
           /\ owner[SessionOf(t)] = req[r].browser
           /\ \A b \in Browsers : cookie[b] # t
           /\ \A q \in Requests : req[q].token # t
           /\ \A q \in Requests : q # r /\ Sending(q) => req[q].answer # t
           /\ req[r].kind \in {"login", "refresh"}
           /\ req[r].kind = "refresh" => SessionOf(t) = SessionOf(req[r].token)
           /\ req[r].kind = "login" =>
                 \A u \in Tokens : Issued(u) /\ SessionOf(u) = SessionOf(t) => u = t

\* A logout has got this far.
LoggingOut(r) == req[r].kind = "logout" /\ req[r].token # None

\* A revocation that did not fail ended the session.
Revokes(r) ==
    LoggingOut(r) /\ "failed" \notin req[r].marks /\ (req[r].phase = "respond" \/ req[r].status = 204)
       => SessionOf(req[r].token) \in revoked

\* No token of session s is in a cookie or on its way to one.
Quiet(s) ==
    /\ \A b \in Browsers : cookie[b] # None => SessionOf(cookie[b]) # s
    /\ \A q \in Requests :
          /\ Sending(q) => SessionOf(req[q].answer) # s
          /\ req[q].kind = "refresh" /\ req[q].phase \in {"idp", "respond"} =>
                SessionOf(req[q].token) # s

\* A logout that met no refresh leaves its session quiet.
Silences(r) ==
    LoggingOut(r) /\ req[r].status = 204 /\ "raced" \notin req[r].marks => Quiet(SessionOf(req[r].token))

Handlers ==
    \A r \in Requests : Shape(r) /\ Carries(r) /\ Delivers(r) /\ Revokes(r) /\ Silences(r)

Inv == TypeOK /\ TokenInv /\ CookieInv /\ Handlers /\ SessionKept

-----------------------------------------------------------------------------
(* What the actions do to the handler of a request.                          *)

\* Only the handler of r moves; it stays well typed.
Moves(r) ==
    /\ req' \in [Requests -> Request]
    /\ \A q \in Requests : q # r => req'[q] = req[q]

\* What a handler may be set to.
LEMMA Values ==
    /\ "refresh" \in Kinds /\ "login" \in Kinds /\ "logout" \in Kinds
    /\ "idp" \in Phases /\ "respond" \in Phases /\ "done" \in Phases
    /\ None \in Maybe(Tokens)
    /\ 0 \in Statuses /\ 200 \in Statuses /\ 204 \in Statuses
    /\ 400 \in Statuses /\ 401 \in Statuses
    /\ {} \in Marks /\ {"failed"} \in Marks
BY DEF Kinds, Phases, Maybe, Statuses, Marks

LEMMA MaybeBrowser ==
    ASSUME NEW b \in Browsers
    PROVE  b \in Maybe(Browsers)
BY DEF Maybe

LEMMA MaybeToken ==
    ASSUME NEW t \in Tokens
    PROVE  t \in Maybe(Tokens)
BY DEF Maybe

LEMMA ReplaceFrame ==
    ASSUME Inv, NEW r \in Requests, NEW e \in Request, req' = [req EXCEPT ![r] = e]
    PROVE  Moves(r) /\ req'[r] = e
BY DEF Inv, TypeOK, Moves

\* A request starts.
LEMMA StartFrame ==
    ASSUME Inv, NEW r \in Requests, NEW kind \in Kinds, NEW phase \in Phases,
           NEW b \in Browsers, NEW t \in Maybe(Tokens), NEW a \in Maybe(Tokens),
           req' = [req EXCEPT ![r] = Started(kind, phase, b, t, a)]
    PROVE  Moves(r) /\ req'[r] = Started(kind, phase, b, t, a)
<1>1. Started(kind, phase, b, t, a) \in Request
      BY Values, MaybeBrowser DEF Started, Request
<1> QED
    BY <1>1, ReplaceFrame

\* A request is refused before it does anything.
LEMMA EarlyFrame ==
    ASSUME Inv, NEW r \in Requests, NEW kind \in Kinds, NEW b \in Browsers,
           NEW st \in Statuses,
           req' = [req EXCEPT ![r] = [Started(kind, "done", b, None, None) EXCEPT !.status = st]]
    PROVE  /\ Moves(r)
           /\ req'[r].kind = kind /\ req'[r].phase = "done"
           /\ req'[r].token = None /\ req'[r].answer = None /\ req'[r].status = st
<1> DEFINE e == [Started(kind, "done", b, None, None) EXCEPT !.status = st]
<1>1. /\ e \in Request
      /\ e.kind = kind /\ e.phase = "done" /\ e.token = None /\ e.answer = None
      /\ e.status = st
      BY Values, MaybeBrowser DEF Started, Request
<1> HIDE DEF e
<1>2. Moves(r) /\ req'[r] = e
      BY <1>1, ReplaceFrame DEF e
<1> QED
    BY <1>1, <1>2

\* The request ends.
LEMMA DoneFrame ==
    ASSUME Inv, NEW r \in Requests, NEW st \in Statuses, Done(r, st)
    PROVE  /\ Moves(r)
           /\ req'[r].kind = req[r].kind /\ req'[r].phase = "done"
           /\ req'[r].browser = req[r].browser /\ req'[r].token = req[r].token
           /\ req'[r].answer = req[r].answer /\ req'[r].status = st
<1> DEFINE e == [req[r] EXCEPT !.phase = "done", !.status = st]
<1>1. req[r] \in Request /\ req \in [Requests -> Request]
      BY DEF Inv, TypeOK
<1>2. /\ e \in Request
      /\ e.kind = req[r].kind /\ e.phase = "done" /\ e.browser = req[r].browser
      /\ e.token = req[r].token /\ e.answer = req[r].answer /\ e.status = st
      BY <1>1, Values DEF Request
<1>3. req' = [req EXCEPT ![r] = e]
      BY <1>1 DEF Done
<1> HIDE DEF e
<1>4. Moves(r) /\ req'[r] = e
      BY <1>2, <1>3, ReplaceFrame
<1> QED
    BY <1>2, <1>4

\* The IdP has accepted a refresh.
LEMMA AcceptedFrame ==
    ASSUME Inv, NEW r \in Requests, NEW next \in Maybe(Tokens),
           req' = [req EXCEPT ![r].phase = "respond", ![r].answer = next]
    PROVE  /\ Moves(r)
           /\ req'[r].kind = req[r].kind /\ req'[r].phase = "respond"
           /\ req'[r].browser = req[r].browser /\ req'[r].token = req[r].token
           /\ req'[r].answer = next /\ req'[r].status = req[r].status
<1> DEFINE e == [req[r] EXCEPT !.phase = "respond", !.answer = next]
<1>1. req[r] \in Request /\ req \in [Requests -> Request]
      BY DEF Inv, TypeOK
<1>2. /\ e \in Request
      /\ e.kind = req[r].kind /\ e.phase = "respond" /\ e.browser = req[r].browser
      /\ e.token = req[r].token /\ e.answer = next /\ e.status = req[r].status
      BY <1>1, Values DEF Request
<1>3. req' = [req EXCEPT ![r] = e]
      BY <1>1
<1> HIDE DEF e
<1>4. Moves(r) /\ req'[r] = e
      BY <1>2, <1>3, ReplaceFrame
<1> QED
    BY <1>2, <1>4

\* The IdP has answered a revocation, or failed to.
LEMMA RevokeFrame ==
    ASSUME Inv, NEW r \in Requests, RevokeDone(r) \/ RevokeFailed(r)
    PROVE  /\ Moves(r)
           /\ req'[r].kind = req[r].kind /\ req'[r].phase = "respond"
           /\ req'[r].browser = req[r].browser /\ req'[r].token = req[r].token
           /\ req'[r].answer = req[r].answer /\ req'[r].status = req[r].status
           /\ RevokeFailed(r) => "failed" \in req'[r].marks
<1>1. req[r] \in Request /\ req \in [Requests -> Request]
      BY DEF Inv, TypeOK
<1>2. PICK marks \in {req[r].marks, {"failed"}} :
         /\ req' = [req EXCEPT ![r] = [req[r] EXCEPT !.phase = "respond", !.marks = marks]]
         /\ RevokeFailed(r) => marks = {"failed"}
  <2>1. CASE RevokeFailed(r)
        BY <1>1, <2>1 DEF RevokeFailed
  <2>2. CASE RevokeDone(r) /\ ~RevokeFailed(r)
    <3>1. [req[r] EXCEPT !.phase = "respond", !.marks = req[r].marks]
             = [req[r] EXCEPT !.phase = "respond"]
          BY <1>1, Values DEF Request
    <3> QED
        BY <1>1, <2>2, <3>1 DEF RevokeDone
  <2> QED
      BY <2>1, <2>2
<1> DEFINE e == [req[r] EXCEPT !.phase = "respond", !.marks = marks]
<1>3. /\ e \in Request
      /\ e.kind = req[r].kind /\ e.phase = "respond" /\ e.browser = req[r].browser
      /\ e.token = req[r].token /\ e.answer = req[r].answer /\ e.status = req[r].status
      /\ e.marks = marks
      BY <1>1, <1>2, Values DEF Request
<1>4. req' = [req EXCEPT ![r] = e]
      BY <1>2
<1> HIDE DEF e
<1>5. Moves(r) /\ req'[r] = e
      BY <1>3, <1>4, ReplaceFrame
<1> QED
    BY <1>2, <1>3, <1>5

\* The 204 has been sent.
LEMMA LogoutFrame ==
    ASSUME Inv, NEW r \in Requests, LogoutRespond(r)
    PROVE  /\ Moves(r)
           /\ req'[r].kind = req[r].kind /\ req'[r].phase = "done"
           /\ req'[r].browser = req[r].browser /\ req'[r].token = req[r].token
           /\ req'[r].answer = req[r].answer /\ req'[r].status = 204
           /\ "failed" \in req[r].marks => "failed" \in req'[r].marks
           /\ "raced" \notin req'[r].marks /\ req[r].token # None => ~Refreshing(req[r].token)
<1>1. req[r] \in Request /\ req \in [Requests -> Request]
      BY DEF Inv, TypeOK
<1> DEFINE marks == IF req[r].token # None /\ Refreshing(req[r].token)
                    THEN req[r].marks \cup {"raced"} ELSE req[r].marks
           e == [req[r] EXCEPT !.phase = "done", !.status = 204, !.marks = marks]
<1>2. req' = [req EXCEPT ![r] = e]
      BY <1>1 DEF LogoutRespond
<1>3. marks \in Marks
      BY <1>1 DEF Request, Marks
<1>4. /\ "failed" \in req[r].marks => "failed" \in marks
      /\ "raced" \notin marks /\ req[r].token # None => ~Refreshing(req[r].token)
      OBVIOUS
<1> HIDE DEF marks
<1>5. "done" \in Phases /\ 204 \in Statuses
      BY Values
<1>6. e \in Request
      BY <1>1, <1>3, <1>5 DEF Request
<1>7. /\ e.kind = req[r].kind /\ e.phase = "done" /\ e.browser = req[r].browser
      /\ e.token = req[r].token /\ e.answer = req[r].answer /\ e.status = 204
      /\ e.marks = marks
      BY <1>1, <1>3 DEF Request
<1> HIDE DEF e
<1>8. Moves(r) /\ req'[r] = e
      BY <1>2, <1>6, ReplaceFrame
<1> QED
    BY <1>4, <1>7, <1>8

-----------------------------------------------------------------------------
(* What the invariant says of the tokens that are in use.                    *)

LEMMA InUse ==
    ASSUME Inv
    PROVE  /\ \A t \in Tokens : Issued(t) => SessionOf(t) \in Sessions
           /\ \A b \in Browsers : cookie[b] # None => cookie[b] \in Tokens
           /\ \A q \in Requests : req[q].token # None => req[q].token \in Tokens
           /\ \A q \in Requests : Sending(q) => req[q].answer \in Tokens
<1>1. \A q \in Requests : req[q] \in Request
      BY DEF Inv, TypeOK
<1>2. \A q \in Requests : req[q].token \in Maybe(Tokens) /\ req[q].answer \in Maybe(Tokens)
      BY <1>1 DEF Request
<1> QED
    BY <1>2 DEF Inv, TypeOK, TokenInv, Sending, Maybe

LEMMA Unmoved ==
    ASSUME NEW r, NEW q \in Requests, Moves(r), q # r
    PROVE  /\ Shape(q) => Shape(q)'
           /\ Sending(q)' <=> Sending(q)
           /\ req'[q] = req[q]
BY DEF Moves, Shape, Sending

\* A step of one handler that sends no token and changes no cookie.
HandlerMoves(r) ==
    /\ Moves(r)
    /\ UNCHANGED <<cookie, tok, owner>>
    /\ revoked \subseteq revoked' /\ revoked' \subseteq Sessions
    /\ excused \subseteq excused' /\ excused' \subseteq Sessions
    /\ Shape(r)' /\ ~Sending(r)' /\ Revokes(r)'
    /\ req'[r].status # 204
    /\ \/ req'[r].token = None
       \/ req'[r].token = req[r].token /\ req'[r].browser = req[r].browser
       \/ req'[r].browser \in Browsers /\ req'[r].token = cookie[req'[r].browser]
    /\ req'[r].kind = "refresh" /\ req'[r].phase \in {"idp", "respond"} =>
          \/ /\ req[r].kind = "refresh" /\ req[r].phase \in {"idp", "respond"}
             /\ req'[r].token = req[r].token
          \/ \E b \in Browsers : cookie[b] # None /\ req'[r].token = cookie[b]
    /\ Sending(r) => SessionOf(req[r].answer) \in excused'

LEMMA HandlerStep ==
    ASSUME Inv, NEW r \in Requests, HandlerMoves(r)
    PROVE  Inv'
<1> USE DEF HandlerMoves
<1>1. TypeOK' /\ TokenInv' /\ CookieInv'
      BY DEF Inv, TypeOK, TokenInv, CookieInv, Moves, Issued, SessionOf
<1>2. ASSUME NEW q \in Requests
      PROVE  Shape(q)' /\ Carries(q)'
  <2>1. Shape(q)'
        BY Unmoved DEF Inv, Handlers
  <2>2. CASE q # r
        BY <2>1, <2>2, Unmoved DEF Inv, Handlers, Carries, Issued, SessionOf
  <2>3. CASE q = r
        BY <2>1, <2>3 DEF Inv, Handlers, CookieInv, Carries, Issued, SessionOf
  <2> QED
      BY <2>2, <2>3
<1>3. ASSUME NEW q \in Requests, Sending(q)'
      PROVE  Delivers(q)'
  <2>1. q # r /\ Sending(q) /\ req'[q] = req[q] /\ Delivers(q)
        BY <1>3, Unmoved DEF Inv, Handlers
  <2>2. \A p \in Requests : req'[p].token # req[q].answer
    <3>1. /\ \A b \in Browsers : cookie[b] # req[q].answer
          /\ \A p \in Requests : req[p].token # req[q].answer
          /\ req[q].answer # None
          BY <2>1 DEF Delivers, Sending
    <3> QED
        BY <3>1 DEF Moves
  <2>3. \A p \in Requests : p # q /\ Sending(p)' => req'[p].answer # req[q].answer
        BY <2>1, Unmoved DEF Delivers
  <2> QED
      BY <2>1, <2>2, <2>3 DEF Delivers, Issued, SessionOf
<1>4. ASSUME NEW q \in Requests
      PROVE  Revokes(q)' /\ Delivers(q)'
      BY <1>3, Unmoved DEF Inv, Handlers, Revokes, LoggingOut, SessionOf, Moves, Delivers
<1>5. ASSUME NEW q \in Requests
      PROVE  Silences(q)'
  <2> SUFFICES ASSUME q # r, Silences(q), req'[q] = req[q],
                      NEW s, s = SessionOf(req[q].token), Quiet(s)
               PROVE  Quiet(s)'
      BY Unmoved DEF Inv, Handlers, Silences, LoggingOut, SessionOf
  <2>1. \A p \in Requests : Sending(p)' => SessionOf(req[p].answer) # s /\ p # r
        BY Unmoved DEF Quiet
  <2>2. \A p \in Requests : req'[p].kind = "refresh" /\ req'[p].phase \in {"idp", "respond"}
                             => SessionOf(req'[p].token) # s
        BY Unmoved DEF Quiet
  <2> QED
      BY <2>1, <2>2, Unmoved DEF Quiet, SessionOf
<1>6. SessionKept'
  <2> SUFFICES ASSUME NEW s \in Sessions, owner[s] # None, s \notin revoked', s \notin excused',
                      Reaches(owner[s], s)
               PROVE  Reaches(owner[s], s)'
      BY DEF Inv, SessionKept, Reaches, SessionOf
  <2>1. PICK t \in Tokens :
           /\ tok[t].status = "live" /\ SessionOf(t) = s
           /\ \/ cookie[owner[s]] = t
              \/ \E p \in Requests : /\ req[p].phase = "respond"
                                     /\ req[p].browser = owner[s]
                                     /\ req[p].answer = t
        BY DEF Reaches
  <2>2. ASSUME NEW p \in Requests, req[p].phase = "respond", req[p].answer = t
        PROVE  p # r
        BY <2>1, <2>2, NoneAssumption DEF Sending
  <2> QED
      BY <2>1, <2>2, Unmoved DEF Reaches, SessionOf
<1> QED
    BY <1>1, <1>2, <1>4, <1>5, <1>6 DEF Inv, Handlers

-----------------------------------------------------------------------------
(* The IdP issues a token.                                                   *)

\* Token t is issued to session s; no other token is, or changes its session.
Issues(t, s) ==
    /\ tok' \in [Tokens -> Token]
    /\ ~Issued(t) /\ tok'[t].status = "live" /\ tok'[t].session = s
    /\ \A u \in Tokens : u # t => /\ tok'[u].session = tok[u].session
                                  /\ Issued(u)' <=> Issued(u)

LEMMA LoginStep ==
    ASSUME Inv, NEW r \in Requests, NEW b \in Browsers, NEW s \in Sessions, NEW t \in Tokens,
           LoginIssue(r, b, s, t)
    PROVE  Inv'
<1>1. /\ Moves(r)
      /\ req'[r].kind = "login" /\ req'[r].phase = "respond" /\ req'[r].browser = b
      /\ req'[r].token = None /\ req'[r].answer = t /\ req'[r].status = 0
  <2>1. req' = [req EXCEPT ![r] = Started("login", "respond", b, None, t)]
        BY DEF LoginIssue
  <2>2. /\ "login" \in Kinds /\ "respond" \in Phases
        /\ None \in Maybe(Tokens) /\ t \in Maybe(Tokens)
        BY Values, MaybeToken
  <2>3. Moves(r) /\ req'[r] = Started("login", "respond", b, None, t)
        BY <2>1, <2>2, StartFrame
  <2> QED
      BY <2>3 DEF Started
<1>2. Issues(t, s) /\ \A u \in Tokens : u # t => tok'[u] = tok[u]
      BY DEF LoginIssue, Issues, Issued, Inv, TypeOK, Token, Maybe
<1>3. /\ owner' \in [Sessions -> Maybe(Browsers)] /\ owner'[s] = b
      /\ \A x \in Sessions : x # s => owner'[x] = owner[x]
      BY MaybeBrowser DEF LoginIssue, Inv, TypeOK
<1>4. UNCHANGED <<cookie, revoked, excused>> /\ owner[s] = None /\ req[r].phase = "idle"
      BY DEF LoginIssue
\* No token in use is t, and none is of session s.
<1>5. \A u \in Tokens : Issued(u) => u # t /\ SessionOf(u) # s
      BY <1>2, <1>4, NoneAssumption DEF Issues, Inv, TokenInv
<1>6. \A u \in Tokens : Issued(u) => /\ Issued(u)' /\ SessionOf(u)' = SessionOf(u)
                                     /\ owner'[SessionOf(u)] = owner[SessionOf(u)]
      BY <1>2, <1>3, <1>5, InUse DEF Issues, SessionOf
<1>7. /\ \A c \in Browsers : cookie[c] # None => cookie[c] \in Tokens /\ Issued(cookie[c])
      /\ \A q \in Requests : req[q].token # None => req[q].token \in Tokens /\ Issued(req[q].token)
      /\ \A q \in Requests : Sending(q) => req[q].answer \in Tokens /\ Issued(req[q].answer)
      BY InUse DEF Inv, CookieInv, Handlers, Carries, Delivers, Issued
<1>8. TypeOK'
      BY <1>1, <1>2, <1>3, <1>4 DEF Inv, TypeOK, Moves, Issues
<1>9. TokenInv'
  <2> SUFFICES ASSUME NEW u \in Tokens, Issued(u)'
               PROVE  SessionOf(u)' \in Sessions /\ owner'[SessionOf(u)'] \in Browsers
      BY DEF TokenInv
  <2>1. CASE u = t
        BY <2>1, <1>2, <1>3 DEF Issues, SessionOf
  <2>2. CASE u # t
        BY <2>2, <1>2, <1>6 DEF Issues, Inv, TokenInv
  <2> QED
      BY <2>1, <2>2
<1>10. CookieInv'
       BY <1>4, <1>6, <1>7 DEF Inv, CookieInv, SessionOf
<1>11. ASSUME NEW q \in Requests
       PROVE  Shape(q)' /\ Carries(q)'
  <2>1. CASE q = r
        BY <2>1, <1>1 DEF Shape, Carries
  <2>2. CASE q # r
        BY <2>2, <1>1, <1>6, <1>7, Unmoved DEF Inv, Handlers, Carries, SessionOf
  <2> QED
      BY <2>1, <2>2
<1>12. ASSUME NEW q \in Requests, q # r, Sending(q)
       PROVE  Delivers(q)'
  <2> DEFINE a == req[q].answer
  <2>1. /\ Delivers(q) /\ req'[q] = req[q] /\ a \in Tokens /\ Issued(a) /\ a # t /\ a # None
        /\ tok'[a] = tok[a] /\ SessionOf(a) # s
        BY <1>1, <1>2, <1>5, <1>7, <1>12, Unmoved DEF Inv, Handlers, Sending
  <2>2. /\ \A p \in Requests : req'[p].token # a
        /\ \A p \in Requests : p # q /\ Sending(p)' => req'[p].answer # a
        BY <2>1, <1>1, <1>12, Unmoved DEF Delivers
  <2>3. req[q].kind = "refresh" => SessionOf(a)' = SessionOf(req[q].token)'
    <3>1. req[q].kind = "refresh" => /\ req[q].token \in Tokens /\ Issued(req[q].token)
                                     /\ SessionOf(a) = SessionOf(req[q].token)
          BY <2>1, <1>7, <1>12, NoneAssumption DEF Delivers, Inv, Handlers, Shape, Sending
    <3> QED
        BY <2>1, <3>1, <1>6 DEF SessionOf
  <2>4. req[q].kind = "login" =>
           \A u \in Tokens : Issued(u)' /\ SessionOf(u)' = SessionOf(a)' => u = a
        BY <2>1, <1>2, <1>6, <1>12 DEF Delivers, Issues, SessionOf
  <2>5. owner'[SessionOf(a)'] = req[q].browser
        BY <2>1, <1>6, <1>12 DEF Delivers
  <2> QED
      BY <2>1, <2>2, <2>3, <2>4, <2>5, <1>4, <1>12 DEF Delivers, SessionOf
<1>13. Delivers(r)'
  <2>1. /\ \A c \in Browsers : cookie'[c] # t
        /\ \A q \in Requests : req'[q].token # t
        BY <1>1, <1>4, <1>5, <1>7, NoneAssumption DEF Moves
  <2>2. \A q \in Requests : q # r /\ Sending(q)' => req'[q].answer # t
        BY <1>1, <1>5, <1>7, Unmoved
  <2>3. \A u \in Tokens : Issued(u)' /\ SessionOf(u)' = s => u = t
        BY <1>2, <1>5 DEF Issues, SessionOf
  <2> QED
      BY <2>1, <2>2, <2>3, <1>1, <1>2, <1>3 DEF Delivers, Issues, SessionOf
<1>14. ASSUME NEW q \in Requests
       PROVE  Delivers(q)' /\ Revokes(q)' /\ Silences(q)'
  <2>1. Delivers(q)'
        BY <1>1, <1>12, <1>13, Unmoved DEF Delivers
  <2>2. CASE q = r
        BY <2>1, <2>2, <1>1 DEF Revokes, Silences, LoggingOut
  <2>3. CASE q # r
    <3>1. Revokes(q)'
          BY <2>3, <1>1, <1>4, <1>6, <1>7, Unmoved DEF Inv, Handlers, Revokes, LoggingOut, SessionOf
    <3>2. ASSUME LoggingOut(q), Quiet(SessionOf(req[q].token))
          PROVE  Quiet(SessionOf(req[q].token))'
      <4> DEFINE x == SessionOf(req[q].token)
      <4>1. x # s /\ SessionOf(req[q].token)' = x
            BY <2>3, <3>2, <1>1, <1>5, <1>6, <1>7, Unmoved DEF LoggingOut, SessionOf
      <4> HIDE DEF x
      <4>2. Quiet(x)
            BY <3>2 DEF x
      <4>3. \A c \in Browsers : cookie'[c] # None => SessionOf(cookie[c])' # x
            BY <4>2, <1>4, <1>6, <1>7 DEF Quiet, SessionOf
      <4>4. \A p \in Requests : Sending(p)' => SessionOf(req[p].answer)' # x
        <5>1. SessionOf(req[r].answer)' = s
              BY <1>1, <1>2 DEF Issues, SessionOf
        <5> QED
            BY <5>1, <4>1, <4>2, <1>1, <1>6, <1>7, Unmoved DEF Quiet, SessionOf
      <4>5. \A p \in Requests : req'[p].kind = "refresh" /\ req'[p].phase \in {"idp", "respond"}
                                 => SessionOf(req[p].token)' # x
        <5> SUFFICES ASSUME NEW p \in Requests, req'[p].kind = "refresh",
                            req'[p].phase \in {"idp", "respond"}
                     PROVE  SessionOf(req[p].token)' # x
            OBVIOUS
        <5>1. p # r /\ req'[p] = req[p]
              BY <1>1, Unmoved
        <5>2. req[p].token \in Tokens /\ Issued(req[p].token) /\ SessionOf(req[p].token) # x
              BY <4>2, <5>1, <1>7, NoneAssumption DEF Quiet, Inv, Handlers, Shape
        <5> QED
            BY <5>1, <5>2, <1>6 DEF SessionOf
      <4> QED
          BY <4>1, <4>3, <4>4, <4>5 DEF Quiet
    <3> QED
        BY <2>1, <2>3, <3>1, <3>2, <1>1, Unmoved DEF Inv, Handlers, Silences, LoggingOut
  <2> QED
      BY <2>2, <2>3
<1>15. SessionKept'
  <2> SUFFICES ASSUME NEW x \in Sessions, owner'[x] # None, x \notin revoked, x \notin excused
               PROVE  Reaches(owner[x], x)'
      BY <1>4 DEF SessionKept
  <2>1. CASE x = s
        BY <2>1, <1>1, <1>2, <1>3 DEF Reaches, Issues, SessionOf
  <2>2. CASE x # s
    <3>1. PICK u \in Tokens :
             /\ tok[u].status = "live" /\ SessionOf(u) = x
             /\ \/ cookie[owner[x]] = u
                \/ \E p \in Requests : /\ req[p].phase = "respond"
                                       /\ req[p].browser = owner[x]
                                       /\ req[p].answer = u
          BY <2>2, <1>3 DEF Inv, SessionKept, Reaches
    <3>2. tok'[u] = tok[u]
          BY <3>1, <1>2 DEF Issues, Issued
    <3> QED
        BY <2>2, <3>1, <3>2, <1>1, <1>3, <1>4, Unmoved DEF Reaches, SessionOf
  <2> QED
      BY <2>1, <2>2
<1> QED
    BY <1>8, <1>9, <1>10, <1>11, <1>14, <1>15 DEF Inv, Handlers

LEMMA RotateTokens ==
    ASSUME Inv, NEW old \in Tokens, NEW next \in Tokens,
           Issued(old), SessionOf(old) \in Sessions, tok[next].status = "unissued",
           tok' = [tok EXCEPT ![old].status = "spent",
                              ![next] = [status |-> "live", session |-> SessionOf(old)]]
    PROVE  /\ Issues(next, SessionOf(old))
           /\ \A u \in Tokens : u # next /\ u # old => tok'[u] = tok[u]
<1>1. tok \in [Tokens -> Token] /\ tok[old] \in Token
      BY DEF Inv, TypeOK
<1>2. next # old
      BY DEF Issued
<1> DEFINE new == [status |-> "live", session |-> SessionOf(old)]
           spent == [tok[old] EXCEPT !.status = "spent"]
<1>3. /\ new \in Token /\ new.status = "live" /\ new.session = SessionOf(old)
      /\ spent \in Token /\ spent.status = "spent" /\ spent.session = SessionOf(old)
      BY <1>1 DEF Token, Maybe, SessionOf
<1>4. tok' = [tok EXCEPT ![old] = spent, ![next] = new]
      BY <1>1
<1> HIDE DEF new, spent
<1>5. /\ tok' \in [Tokens -> Token] /\ tok'[next] = new /\ tok'[old] = spent
      /\ \A u \in Tokens : u # next /\ u # old => tok'[u] = tok[u]
      BY <1>1, <1>2, <1>3, <1>4
<1> QED
    BY <1>3, <1>5 DEF Issues, Issued, SessionOf

\* The IdP takes the token of a refresh and issues the next one, which is sent
\* to the browser or lost.
Rotates(r, next) ==
    /\ req[r].kind = "refresh" /\ req[r].phase = "idp"
    /\ Issues(next, SessionOf(req[r].token))
    /\ \A u \in Tokens : u # next /\ u # req[r].token => tok'[u] = tok[u]
    /\ Moves(r)
    /\ req'[r].kind = "refresh" /\ req'[r].token = req[r].token
    /\ req'[r].browser = req[r].browser /\ req'[r].status # 204
    /\ \/ /\ req'[r].phase = "respond" /\ req'[r].answer = next
          /\ excused' = excused
       \/ /\ req'[r].phase = "done"
          /\ excused' = excused \cup {SessionOf(req[r].token)}
    /\ UNCHANGED <<cookie, owner, revoked>>

LEMMA RotateStep ==
    ASSUME Inv, NEW r \in Requests, NEW next \in Tokens, Rotates(r, next)
    PROVE  Inv'
<1> DEFINE old == req[r].token
           S == SessionOf(old)
<1>1. /\ Moves(r) /\ Issues(next, S) /\ UNCHANGED <<cookie, owner, revoked>>
      /\ req'[r].kind = "refresh" /\ req'[r].token = old /\ req'[r].status # 204
      /\ req'[r].browser = req[r].browser
      /\ excused \subseteq excused' /\ \A x \in excused' : x \in excused \/ x = S
      BY DEF Rotates
<1>2. /\ old \in Tokens /\ Issued(old) /\ req[r].browser \in Browsers
      /\ S \in Sessions /\ owner[S] = req[r].browser
  <2>1. Shape(r) /\ Carries(r) /\ req[r].phase = "idp" /\ req[r].kind = "refresh"
        BY DEF Inv, Handlers, Rotates
  <2> QED
      BY <2>1, InUse, NoneAssumption DEF Shape, Carries
<1>3. \A u \in Tokens : Issued(u) => Issued(u)' /\ SessionOf(u)' = SessionOf(u) /\ u # next
      BY <1>1 DEF Issues, SessionOf
<1>4. /\ \A c \in Browsers : cookie[c] # None => cookie[c] \in Tokens /\ Issued(cookie[c])
      /\ \A q \in Requests : req[q].token # None => req[q].token \in Tokens /\ Issued(req[q].token)
      /\ \A q \in Requests : Sending(q) => req[q].answer \in Tokens /\ Issued(req[q].answer)
      BY InUse DEF Inv, CookieInv, Handlers, Carries, Delivers, Issued
<1>5. TypeOK'
  <2>1. excused' \subseteq Sessions
        BY <1>1, <1>2 DEF Inv, TypeOK
  <2> QED
      BY <2>1, <1>1 DEF Inv, TypeOK, Moves, Issues
<1>6. TokenInv'
  <2> SUFFICES ASSUME NEW u \in Tokens, Issued(u)'
               PROVE  SessionOf(u)' \in Sessions /\ owner'[SessionOf(u)'] \in Browsers
      BY DEF TokenInv
  <2>1. CASE u = next
        BY <2>1, <1>1, <1>2 DEF Issues, SessionOf
  <2>2. CASE u # next
    <3>1. Issued(u)
          BY <2>2, <1>1 DEF Issues, Issued
    <3> QED
        BY <3>1, <1>1, <1>3 DEF Inv, TokenInv
  <2> QED
      BY <2>1, <2>2
<1>7. CookieInv'
      BY <1>1, <1>3, <1>4 DEF Inv, CookieInv, SessionOf
<1>8. ASSUME NEW q \in Requests
      PROVE  Shape(q)' /\ Carries(q)'
  <2>1. CASE q = r
    <3>1. Shape(r)'
          BY <1>1, <1>2 DEF Rotates, Shape
    <3> QED
        BY <2>1, <3>1, <1>1, <1>2, <1>3 DEF Carries, SessionOf
  <2>2. CASE q # r
        BY <2>2, <1>1, <1>3, <1>4, Unmoved DEF Inv, Handlers, Carries, SessionOf
  <2> QED
      BY <2>1, <2>2
<1>9. Sending(r)' => req'[r].answer = next
      BY DEF Rotates, Sending
<1>10. ASSUME NEW q \in Requests, q # r, Sending(q)
       PROVE  Delivers(q)'
  <2> DEFINE a == req[q].answer
  <2>1. /\ Delivers(q) /\ req'[q] = req[q] /\ a \in Tokens /\ Issued(a) /\ a # next
        BY <1>1, <1>3, <1>4, <1>10, Unmoved DEF Inv, Handlers, Sending
  <2>2. a # old /\ tok'[a] = tok[a]
        BY <2>1, <1>10 DEF Delivers, Rotates
  <2>3. /\ \A p \in Requests : req'[p].token # a
        /\ \A p \in Requests : p # q /\ Sending(p)' => req'[p].answer # a
        BY <2>1, <1>1, <1>9, <1>10, Unmoved DEF Delivers
  <2>4. req[q].kind = "refresh" => SessionOf(a)' = SessionOf(req[q].token)'
    <3>1. req[q].kind = "refresh" => /\ req[q].token \in Tokens /\ Issued(req[q].token)
                                     /\ SessionOf(a) = SessionOf(req[q].token)
          BY <2>1, <1>4, <1>10, NoneAssumption DEF Delivers, Inv, Handlers, Shape, Sending
    <3> QED
        BY <2>1, <3>1, <1>3 DEF SessionOf
  \* The only token of its session is not the one that is rotated.
  <2>5. req[q].kind = "login" =>
           \A u \in Tokens : Issued(u)' /\ SessionOf(u)' = SessionOf(a)' => u = a
    <3>1. req[q].kind = "login" => S # SessionOf(a)
          BY <2>1, <2>2, <1>2, <1>10 DEF Delivers
    <3>2. \A u \in Tokens : Issued(u)' => u = next \/ Issued(u)
          BY <1>1 DEF Issues, Issued
    <3>3. SessionOf(next)' = S /\ SessionOf(a)' = SessionOf(a)
          BY <2>1, <1>1, <1>3 DEF Issues, SessionOf
    <3> QED
        BY <2>1, <3>1, <3>2, <3>3, <1>3, <1>10 DEF Delivers
  <2>6. owner'[SessionOf(a)'] = req[q].browser
        BY <2>1, <1>1, <1>3, <1>10 DEF Delivers
  <2> QED
      BY <2>1, <2>2, <2>3, <2>4, <2>5, <2>6, <1>1, <1>10 DEF Delivers, SessionOf
<1>11. Sending(r)' => Delivers(r)'
  <2>1. /\ \A c \in Browsers : cookie'[c] # next
        /\ \A q \in Requests : req'[q].token # next
        BY <1>1, <1>2, <1>3, <1>4, NoneAssumption DEF Moves
  <2>2. \A q \in Requests : q # r /\ Sending(q)' => req'[q].answer # next
        BY <1>1, <1>3, <1>4, Unmoved
  <2>3. /\ tok'[next].status = "live" /\ SessionOf(next)' = S /\ SessionOf(old)' = S
        /\ owner'[S] = req'[r].browser
        BY <1>1, <1>2, <1>3 DEF Issues, SessionOf
  <2> QED
      BY <2>1, <2>2, <2>3, <1>1, <1>9 DEF Delivers, SessionOf
<1>12. ASSUME NEW q \in Requests
       PROVE  Delivers(q)' /\ Revokes(q)' /\ Silences(q)'
  <2>1. Delivers(q)'
        BY <1>1, <1>10, <1>11, Unmoved DEF Delivers
  <2>2. CASE q = r
        BY <2>1, <2>2, <1>1 DEF Revokes, Silences, LoggingOut
  <2>3. CASE q # r
    <3>1. Revokes(q)'
          BY <2>3, <1>1, <1>3, <1>4, Unmoved DEF Inv, Handlers, Revokes, LoggingOut, SessionOf
    <3>2. ASSUME LoggingOut(q), Quiet(SessionOf(req[q].token))
          PROVE  Quiet(SessionOf(req[q].token))'
      <4> DEFINE x == SessionOf(req[q].token)
      <4>1. SessionOf(req[q].token)' = x
            BY <2>3, <3>2, <1>1, <1>3, <1>4, Unmoved DEF LoggingOut, SessionOf
      <4> HIDE DEF x
      <4>2. Quiet(x) /\ S # x
            BY <3>2 DEF x, Quiet, Rotates
      <4>3. \A c \in Browsers : cookie'[c] # None => SessionOf(cookie[c])' # x
            BY <4>2, <1>1, <1>3, <1>4 DEF Quiet, SessionOf
      <4>4. \A p \in Requests : Sending(p)' => SessionOf(req[p].answer)' # x
        <5>1. Sending(r)' => SessionOf(req[r].answer)' = S
              BY <1>1, <1>9 DEF Issues, SessionOf
        <5> QED
            BY <5>1, <4>2, <1>1, <1>3, <1>4, Unmoved DEF Quiet, SessionOf
      <4>5. \A p \in Requests : req'[p].kind = "refresh" /\ req'[p].phase \in {"idp", "respond"}
                                 => SessionOf(req[p].token)' # x
        <5> SUFFICES ASSUME NEW p \in Requests, req'[p].kind = "refresh",
                            req'[p].phase \in {"idp", "respond"}
                     PROVE  SessionOf(req[p].token)' # x
            OBVIOUS
        <5>1. CASE p = r
              BY <5>1, <4>2, <1>1, <1>2, <1>3 DEF SessionOf
        <5>2. CASE p # r
          <6>1. req'[p] = req[p]
                BY <5>2, <1>1, Unmoved
          <6>2. req[p].token \in Tokens /\ Issued(req[p].token) /\ SessionOf(req[p].token) # x
                BY <4>2, <6>1, <1>4, NoneAssumption DEF Quiet, Inv, Handlers, Shape
          <6> QED
              BY <6>1, <6>2, <1>3 DEF SessionOf
        <5> QED
            BY <5>1, <5>2
      <4> QED
          BY <4>1, <4>3, <4>4, <4>5 DEF Quiet
    <3> QED
        BY <2>1, <2>3, <3>1, <3>2, <1>1, Unmoved DEF Inv, Handlers, Silences, LoggingOut
  <2> QED
      BY <2>2, <2>3
<1>13. SessionKept'
  <2> SUFFICES ASSUME NEW x \in Sessions, owner[x] # None, x \notin revoked, x \notin excused'
               PROVE  Reaches(owner[x], x)'
      BY <1>1 DEF SessionKept
  <2>1. CASE x = S
    <3>1. req'[r].phase = "respond" /\ req'[r].answer = next
          BY <2>1 DEF Rotates
    <3>2. tok'[next].status = "live" /\ SessionOf(next)' = S
          BY <1>1 DEF Issues, SessionOf
    <3> QED
        BY <2>1, <3>1, <3>2, <1>1, <1>2 DEF Reaches
  <2>2. CASE x # S
    <3>1. PICK u \in Tokens :
             /\ tok[u].status = "live" /\ SessionOf(u) = x
             /\ \/ cookie[owner[x]] = u
                \/ \E p \in Requests : /\ req[p].phase = "respond"
                                       /\ req[p].browser = owner[x]
                                       /\ req[p].answer = u
          BY <1>1 DEF Inv, SessionKept, Reaches
    <3>2. tok'[u] = tok[u]
          BY <2>2, <3>1, <1>3 DEF Rotates, Issued
    <3>3. req[r].phase = "idp"
          BY DEF Rotates
    <3> QED
        BY <3>1, <3>2, <3>3, <1>1, Unmoved DEF Reaches, SessionOf
  <2> QED
      BY <2>1, <2>2
<1> QED
    BY <1>5, <1>6, <1>7, <1>8, <1>12, <1>13 DEF Inv, Handlers

-----------------------------------------------------------------------------
(* An answer reaches the browser and changes its cookie.                     *)

\* The handler of r ends, and its browser's cookie becomes t: the token that was
\* on its way, or none.
Lands(r, t) ==
    /\ Moves(r)
    /\ req[r].phase = "respond" /\ req'[r].phase = "done"
    /\ req'[r].kind = req[r].kind /\ req'[r].token = req[r].token
    /\ req'[r].browser = req[r].browser
    /\ SetCookie(req[r].browser, t)
    /\ IF Sending(r) THEN t = req[r].answer ELSE t = None
    /\ UNCHANGED <<tok, owner, revoked>>

LEMMA LandStep ==
    ASSUME Inv, NEW r \in Requests, NEW t \in Maybe(Tokens), Lands(r, t),
           Shape(r)', Revokes(r)', Silences(r)'
    PROVE  Inv'
<1> DEFINE b == req[r].browser
<1>1. /\ Moves(r) /\ UNCHANGED <<tok, owner, revoked>> /\ ~Sending(r)'
      /\ req'[r].kind = req[r].kind /\ req'[r].token = req[r].token /\ req'[r].browser = b
      /\ req'[r].phase = "done" /\ IF Sending(r) THEN t = req[r].answer ELSE t = None
      BY DEF Lands, Sending
<1>2. b \in Browsers
      BY DEF Lands, Inv, Handlers, Shape
<1>3. /\ cookie' \in [Browsers -> Maybe(Tokens)] /\ cookie'[b] = t
      /\ \A c \in Browsers : c # b => cookie'[c] = cookie[c]
      BY <1>2 DEF Lands, SetCookie, Inv, TypeOK
<1>4. /\ excused \subseteq excused' /\ excused' \subseteq Sessions
      /\ \A s \in Sessions :
            /\ s \notin excused' /\ cookie[b] # None /\ SessionOf(cookie[b]) = s
            => t # None /\ SessionOf(t) = s
      BY DEF Lands, SetCookie, Inv, TypeOK
<1>5. t # None => Sending(r) /\ Delivers(r) /\ t \in Tokens
      BY <1>1, InUse DEF Inv, Handlers
<1>6. TypeOK' /\ TokenInv'
      BY <1>1, <1>3, <1>4 DEF Inv, TypeOK, TokenInv, Moves, Issued, SessionOf
<1>7. CookieInv'
  <2>1. t # None => Issued(t) /\ owner[SessionOf(t)] = b
        BY <1>1, <1>5 DEF Delivers, Issued
  <2> QED
      BY <2>1, <1>1, <1>3 DEF Inv, CookieInv, Issued, SessionOf
<1>8. ASSUME NEW q \in Requests
      PROVE  Shape(q)' /\ Carries(q)'
  <2>1. CASE q = r
        BY <2>1, <1>1 DEF Inv, Handlers, Carries, Issued, SessionOf
  <2>2. CASE q # r
        BY <2>2, <1>1, Unmoved DEF Inv, Handlers, Carries, Issued, SessionOf
  <2> QED
      BY <2>1, <2>2
<1>9. ASSUME NEW q \in Requests, Sending(q)'
      PROVE  Delivers(q)'
  <2>1. q # r /\ Sending(q) /\ req'[q] = req[q] /\ Delivers(q)
        BY <1>1, <1>9, Unmoved DEF Inv, Handlers
  <2>2. t # req[q].answer
        BY <2>1, <1>1, <1>5 DEF Delivers, Sending
  <2>3. /\ \A c \in Browsers : cookie'[c] # req[q].answer
        /\ \A p \in Requests : req'[p].token # req[q].answer
        BY <2>1, <2>2, <1>1, <1>3 DEF Delivers, Moves
  <2>4. \A p \in Requests : p # q /\ Sending(p)' => req'[p].answer # req[q].answer
        BY <2>1, <1>1, Unmoved DEF Delivers
  <2> QED
      BY <2>1, <2>3, <2>4, <1>1 DEF Delivers, Issued, SessionOf
<1>10. ASSUME NEW q \in Requests
       PROVE  Delivers(q)' /\ Revokes(q)' /\ Silences(q)'
  <2>1. Delivers(q)'
        BY <1>9 DEF Delivers
  <2>2. CASE q = r
        BY <2>1, <2>2
  <2>3. CASE q # r
    <3>1. req'[q] = req[q] /\ Revokes(q) /\ Silences(q)
          BY <2>3, <1>1, Unmoved DEF Inv, Handlers
    <3>2. ASSUME NEW s, Quiet(s)
          PROVE  Quiet(s)'
      <4>1. t # None => SessionOf(t) # s
            BY <3>2, <1>1, <1>5 DEF Quiet
      <4>2. \A c \in Browsers : cookie'[c] # None => SessionOf(cookie'[c]) # s
            BY <4>1, <3>2, <1>3 DEF Quiet
      <4>3. \A p \in Requests :
               /\ Sending(p)' => SessionOf(req'[p].answer) # s
               /\ req'[p].kind = "refresh" /\ req'[p].phase \in {"idp", "respond"} =>
                     SessionOf(req'[p].token) # s
            BY <3>2, <1>1, Unmoved DEF Quiet
      <4> QED
          BY <4>2, <4>3, <1>1 DEF Quiet, SessionOf
    <3> QED
        BY <2>1, <3>1, <3>2, <1>1 DEF Revokes, Silences, LoggingOut, SessionOf
  <2> QED
      BY <2>2, <2>3
<1>11. SessionKept'
  <2> SUFFICES ASSUME NEW s \in Sessions, owner[s] # None, s \notin revoked, s \notin excused'
               PROVE  Reaches(owner[s], s)'
      BY <1>1 DEF SessionKept
  <2>1. PICK u \in Tokens :
           /\ tok[u].status = "live" /\ SessionOf(u) = s
           /\ \/ cookie[owner[s]] = u
              \/ \E p \in Requests : /\ req[p].phase = "respond"
                                     /\ req[p].browser = owner[s]
                                     /\ req[p].answer = u
        BY <1>4 DEF Inv, SessionKept, Reaches
  <2>2. owner[s] \in Browsers /\ u # None
        BY <2>1, NoneAssumption DEF Inv, TypeOK, Maybe
  <2>3. CASE cookie[owner[s]] = u
    <3>1. CASE owner[s] # b
          BY <2>1, <2>2, <2>3, <3>1, <1>1, <1>3 DEF Reaches, SessionOf
    <3>2. CASE owner[s] = b
      <4>1. t # None /\ SessionOf(t) = s
            BY <2>1, <2>2, <2>3, <3>2, <1>4
      <4>2. t \in Tokens /\ tok[t].status = "live"
            BY <4>1, <1>1, <1>5 DEF Delivers
      <4> QED
          BY <4>1, <4>2, <3>2, <1>1, <1>3 DEF Reaches, SessionOf
    <3> QED
        BY <3>1, <3>2
  <2>4. ASSUME NEW p \in Requests, req[p].phase = "respond", req[p].browser = owner[s],
               req[p].answer = u
        PROVE  Reaches(owner[s], s)'
    <3>1. CASE p # r
          BY <2>1, <2>4, <3>1, <1>1, Unmoved DEF Reaches, SessionOf
    <3>2. CASE p = r
          BY <2>1, <2>2, <2>4, <3>2, <1>1, <1>3 DEF Reaches, SessionOf, Sending
    <3> QED
        BY <3>1, <3>2
  <2> QED
      BY <2>1, <2>3, <2>4
<1> QED
    BY <1>6, <1>7, <1>8, <1>10, <1>11 DEF Inv, Handlers

LEMMA TokenRespondStep ==
    ASSUME Inv, NEW r \in Requests, TokenRespond(r)
    PROVE  Inv'
<1> DEFINE t == req[r].answer
<1>1. /\ Moves(r)
      /\ req'[r].kind = req[r].kind /\ req'[r].phase = "done"
      /\ req'[r].browser = req[r].browser /\ req'[r].token = req[r].token
      /\ req'[r].answer = t /\ req'[r].status = 200
  <2>1. Done(r, 200)
        BY DEF TokenRespond
  <2> QED
      BY <2>1, Values, DoneFrame
<1>2. /\ req[r].kind \in {"login", "refresh"} /\ req[r].phase = "respond"
      /\ TokenCookie(req[r].browser, t) /\ UNCHANGED <<tok, owner, revoked>>
      BY DEF TokenRespond
<1>3. Shape(r)' /\ Revokes(r)' /\ Silences(r)' /\ ~Sending(r)'
      BY <1>1, <1>2 DEF Shape, Revokes, Silences, LoggingOut, Sending
<1>4. CASE t = None
  <2>1. UNCHANGED <<cookie, excused>> /\ ~Sending(r)
        BY <1>2, <1>4 DEF TokenCookie, Sending
  <2>2. revoked \subseteq Sessions /\ excused \subseteq Sessions
        BY DEF Inv, TypeOK
  <2>3. HandlerMoves(r)
        BY <1>1, <1>2, <1>3, <2>1, <2>2 DEF HandlerMoves
  <2> QED
      BY <2>3, HandlerStep
<1>5. CASE t # None
  <2>1. Sending(r) /\ t \in Tokens
        BY <1>2, <1>5, InUse DEF Sending
  <2>2. Lands(r, t)
        BY <1>1, <1>2, <1>5, <2>1 DEF Lands, TokenCookie
  <2> QED
      BY <1>3, <2>1, <2>2, LandStep, MaybeToken
<1> QED
    BY <1>4, <1>5

\* A logout that meets no refresh of its session leaves it quiet: other browsers
\* have no token of it, and the answer of a login is the first token of another.
LEMMA LogoutRespondStep ==
    ASSUME Inv, NEW r \in Requests, LogoutRespond(r)
    PROVE  Inv'
<1> DEFINE t == req[r].token
           s == SessionOf(t)
           b == req[r].browser
<1>1. /\ Moves(r)
      /\ req'[r].kind = req[r].kind /\ req'[r].phase = "done"
      /\ req'[r].browser = b /\ req'[r].token = t
      /\ req'[r].answer = req[r].answer /\ req'[r].status = 204
      /\ "failed" \in req[r].marks => "failed" \in req'[r].marks
      /\ "raced" \notin req'[r].marks /\ t # None => ~Refreshing(t)
      BY LogoutFrame
<1>2. /\ req[r].kind = "logout" /\ req[r].phase = "respond" /\ SetCookie(b, None)
      /\ UNCHANGED <<tok, owner, revoked>>
      BY DEF LogoutRespond, ClearedCookie
<1>3. /\ Shape(r) /\ Carries(r) /\ Revokes(r)
      /\ b \in Browsers /\ ~Sending(r) /\ ~Sending(r)'
      BY <1>1, <1>2 DEF Inv, Handlers, Shape, Sending
<1>4. Lands(r, None) /\ None \in Maybe(Tokens)
      BY <1>1, <1>2, <1>3, Values DEF Lands
<1>5. Shape(r)' /\ Revokes(r)'
      BY <1>1, <1>2, <1>3 DEF Shape, Revokes, LoggingOut, SessionOf
<1>6. Silences(r)'
  <2> SUFFICES ASSUME t # None, ~Refreshing(t)
               PROVE  Quiet(s)'
    <3>1. (LoggingOut(r) /\ "raced" \notin req[r].marks)' => t # None /\ ~Refreshing(t)
          BY <1>1 DEF LoggingOut
    <3> QED
        BY <3>1 DEF Silences
  <2>1. t \in Tokens /\ Issued(t) /\ owner[s] = b
        BY <1>3, InUse DEF Carries
  <2>2. \A c \in Browsers : cookie'[c] # None => SessionOf(cookie'[c]) # s
    <3>1. cookie'[b] = None /\ \A c \in Browsers : c # b => cookie'[c] = cookie[c]
          BY <1>2, <1>3 DEF SetCookie, Inv, TypeOK
    <3> QED
        BY <3>1, <2>1 DEF Inv, CookieInv
  <2>3. ASSUME NEW q \in Requests, req[q].kind = "refresh", req[q].phase \in {"idp", "respond"}
        PROVE  SessionOf(req[q].token) # s
        BY <2>3 DEF Refreshing
  <2>4. ASSUME NEW q \in Requests, Sending(q)
        PROVE  SessionOf(req[q].answer) # s
    <3>1. Delivers(q) /\ req[q].phase = "respond"
          BY <2>4 DEF Inv, Handlers, Sending
    <3>2. CASE req[q].kind = "refresh"
          BY <2>3, <2>4, <3>1, <3>2 DEF Delivers
    <3>3. CASE req[q].kind = "login"
          BY <2>1, <2>4, <3>1, <3>3 DEF Delivers
    <3> QED
        BY <2>4, <3>1, <3>2, <3>3 DEF Delivers
  <2>5. \A q \in Requests :
           /\ Sending(q)' => SessionOf(req'[q].answer) # s
           /\ req'[q].kind = "refresh" /\ req'[q].phase \in {"idp", "respond"} =>
                 SessionOf(req'[q].token) # s
        BY <2>3, <2>4, <1>1, <1>3, Unmoved
  <2>6. s' = s
        BY <1>1, <1>2 DEF SessionOf
  <2> QED
      BY <2>2, <2>5, <2>6, <1>2 DEF Quiet, SessionOf
<1> QED
    BY <1>4, <1>5, <1>6, LandStep

-----------------------------------------------------------------------------
(* The other actions are steps of one handler.                               *)

\* A request starts: it takes along the cookie, or nothing.
LEMMA StartStep ==
    ASSUME Inv, NEW r \in Requests, NEW b \in Browsers,
           NEW kind \in Kinds, NEW phase \in Phases, NEW t \in Maybe(Tokens),
           t = None \/ t = cookie[b],
           req' = [req EXCEPT ![r] = Started(kind, phase, b, t, None)],
           UNCHANGED <<cookie, tok, owner, revoked, excused>>, req[r].phase = "idle",
           \/ phase = "idp" /\ (kind = "refresh" \/ kind = "logout") /\ t # None
           \/ phase = "respond" /\ kind # "refresh" /\ t = None
    PROVE  Inv'
<1> DEFINE e == Started(kind, phase, b, t, None)
<1>1. e \in Request
      BY Values, MaybeBrowser DEF Started, Request
<1> HIDE DEF e
<1>2. Moves(r) /\ req'[r] = e
      BY <1>1, ReplaceFrame DEF e
<1>3. /\ Moves(r) /\ req'[r].kind = kind /\ req'[r].phase = phase /\ req'[r].browser = b
      /\ req'[r].token = t /\ req'[r].answer = None /\ req'[r].status = 0
      BY <1>2 DEF Started, e
<1>4. t # None => t \in Tokens
      BY DEF Maybe
<1>5. Shape(r)' /\ ~Sending(r)' /\ Revokes(r)' /\ ~Sending(r)
      BY <1>3, <1>4 DEF Shape, Sending, Revokes, LoggingOut
<1>6. revoked \subseteq Sessions /\ excused \subseteq Sessions
      BY DEF Inv, TypeOK
<1>7. HandlerMoves(r)
      BY <1>3, <1>5, <1>6 DEF HandlerMoves
<1> QED
    BY <1>7, HandlerStep

\* A request is refused before it does anything.
LEMMA EarlyStep ==
    ASSUME Inv, NEW r \in Requests, NEW b \in Browsers,
           RefreshBadRequest(r, b) \/ LogoutUnauthorized(r, b)
    PROVE  Inv'
<1>1. PICK kind \in Kinds, st \in Statuses :
         /\ st # 204
         /\ req' = [req EXCEPT ![r] = [Started(kind, "done", b, None, None) EXCEPT !.status = st]]
      BY Values DEF RefreshBadRequest, LogoutUnauthorized
<1>2. UNCHANGED <<cookie, tok, owner, revoked, excused>> /\ req[r].phase = "idle"
      BY DEF RefreshBadRequest, LogoutUnauthorized
<1>3. /\ Moves(r) /\ req'[r].kind = kind /\ req'[r].phase = "done"
      /\ req'[r].token = None /\ req'[r].answer = None /\ req'[r].status = st
      BY <1>1, EarlyFrame
<1>4. Shape(r)' /\ ~Sending(r)' /\ Revokes(r)' /\ ~Sending(r)
      BY <1>1, <1>2, <1>3 DEF Shape, Sending, Revokes, LoggingOut
<1>5. revoked \subseteq Sessions /\ excused \subseteq Sessions
      BY DEF Inv, TypeOK
<1>6. HandlerMoves(r)
      BY <1>1, <1>2, <1>3, <1>4, <1>5 DEF HandlerMoves
<1> QED
    BY <1>6, HandlerStep

\* A handler ends without changing the cookie.
LEMMA EndStep ==
    ASSUME Inv, NEW r \in Requests, RefreshFailed(r) \/ Cancel(r)
    PROVE  Inv'
<1>1. PICK st \in {0, 401} : Done(r, st)
      BY DEF RefreshFailed, RefreshError, Cancel
<1>2. st \in Statuses /\ st # 204
      BY Values
<1>3. /\ Moves(r) /\ req'[r].kind = req[r].kind /\ req'[r].phase = "done"
      /\ req'[r].browser = req[r].browser /\ req'[r].token = req[r].token
      /\ req'[r].answer = req[r].answer /\ req'[r].status = st
      BY <1>1, <1>2, DoneFrame
<1>4. /\ req[r].phase \in {"idp", "respond"} /\ UNCHANGED <<cookie, tok, owner>>
      BY DEF RefreshFailed, RefreshError, Cancel
<1>5. Shape(r)' /\ ~Sending(r)' /\ Revokes(r)'
      BY <1>2, <1>3, <1>4 DEF Shape, Sending, Revokes, Inv, Handlers
<1>6. /\ revoked \subseteq revoked' /\ revoked' \subseteq Sessions
      /\ excused \subseteq excused' /\ excused' \subseteq Sessions
      /\ Sending(r) => SessionOf(req[r].answer) \in excused'
  <2>1. CASE RefreshFailed(r)
    <3>1. /\ req[r].token \in Tokens /\ Issued(req[r].token) /\ ~Sending(r)
          BY <2>1, NoneAssumption DEF RefreshFailed, Inv, Handlers, Shape, Carries, Sending
    <3>2. SessionOf(req[r].token) \in Sessions
          BY <3>1, InUse
    <3> QED
        BY <2>1, <3>1, <3>2 DEF RefreshFailed, Inv, TypeOK
  <2>2. CASE Cancel(r)
    <3>1. req[r].answer # None => req[r].answer \in Tokens /\ Issued(req[r].answer)
          BY <2>2, InUse DEF Cancel, Inv, Handlers, Shape, Delivers, Sending, Issued
    <3>2. req[r].answer # None => SessionOf(req[r].answer) \in Sessions
          BY <3>1, InUse
    <3> QED
        BY <2>2, <3>2 DEF Cancel, Inv, TypeOK, Sending
  <2> QED
      BY <2>1, <2>2
<1>7. HandlerMoves(r)
      BY <1>2, <1>3, <1>4, <1>5, <1>6 DEF HandlerMoves
<1> QED
    BY <1>7, HandlerStep

LEMMA RevokeStep ==
    ASSUME Inv, NEW r \in Requests, RevokeDone(r) \/ RevokeFailed(r)
    PROVE  Inv'
<1>1. /\ Moves(r)
      /\ req'[r].kind = req[r].kind /\ req'[r].phase = "respond"
      /\ req'[r].browser = req[r].browser /\ req'[r].token = req[r].token
      /\ req'[r].answer = req[r].answer /\ req'[r].status = req[r].status
      /\ RevokeFailed(r) => "failed" \in req'[r].marks
      BY RevokeFrame
<1>2. /\ req[r].kind = "logout" /\ req[r].phase = "idp"
      /\ UNCHANGED <<cookie, tok, owner, excused>>
      /\ revoked' = revoked \/ revoked' = revoked \cup {SessionOf(req[r].token)}
      /\ ~RevokeFailed(r) => revoked' = revoked \cup {SessionOf(req[r].token)}
      BY DEF RevokeDone, RevokeFailed
<1>3. /\ req[r].token \in Tokens /\ req[r].browser \in Browsers /\ req[r].answer = None
      /\ req[r].status # 204 /\ SessionOf(req[r].token) \in Sessions
  <2>1. Shape(r) /\ Carries(r)
        BY DEF Inv, Handlers
  <2> QED
      BY <2>1, <1>2, InUse, NoneAssumption DEF Shape, Carries
<1>4. Shape(r)' /\ ~Sending(r)' /\ ~Sending(r)
      BY <1>1, <1>2, <1>3 DEF Shape, Sending
<1>5. Revokes(r)'
      BY <1>1, <1>2 DEF Revokes, LoggingOut, SessionOf
<1>6. /\ revoked \subseteq revoked' /\ revoked' \subseteq Sessions
      /\ excused \subseteq Sessions
      BY <1>2, <1>3 DEF Inv, TypeOK
<1>7. HandlerMoves(r)
      BY <1>1, <1>2, <1>3, <1>4, <1>5, <1>6 DEF HandlerMoves
<1> QED
    BY <1>7, HandlerStep

LEMMA AcceptedStep ==
    ASSUME Inv, NEW r \in Requests, NEW next \in Maybe(Tokens), RefreshAccepted(r, next)
    PROVE  Inv'
<1>1. /\ Moves(r)
      /\ req'[r].kind = req[r].kind /\ req'[r].phase = "respond"
      /\ req'[r].browser = req[r].browser /\ req'[r].token = req[r].token
      /\ req'[r].answer = next /\ req'[r].status = req[r].status
  <2>1. req' = [req EXCEPT ![r].phase = "respond", ![r].answer = next]
        BY DEF RefreshAccepted
  <2> QED
      BY <2>1, AcceptedFrame
<1>2. /\ req[r].kind = "refresh" /\ req[r].phase = "idp" /\ Live(req[r].token)
      /\ UNCHANGED <<cookie, owner, revoked, excused>>
      BY DEF RefreshAccepted
<1>3. /\ req[r].token \in Tokens /\ req[r].browser \in Browsers /\ req[r].status # 204
      /\ Issued(req[r].token) /\ SessionOf(req[r].token) \in Sessions
  <2>1. Shape(r) /\ Carries(r)
        BY DEF Inv, Handlers
  <2> QED
      BY <2>1, <1>2, InUse, NoneAssumption DEF Shape, Carries
<1>4. CASE next = None
  <2>1. UNCHANGED tok
        BY <1>4 DEF RefreshAccepted
  <2>2. Shape(r)' /\ ~Sending(r)' /\ Revokes(r)' /\ ~Sending(r)
        BY <1>1, <1>2, <1>3, <1>4 DEF Shape, Sending, Revokes, LoggingOut
  <2>3. revoked \subseteq Sessions /\ excused \subseteq Sessions
        BY DEF Inv, TypeOK
  <2>4. HandlerMoves(r)
        BY <1>1, <1>2, <1>3, <2>1, <2>2, <2>3 DEF HandlerMoves
  <2> QED
      BY <2>4, HandlerStep
<1>5. CASE next # None
  <2>1. /\ next \in Tokens /\ tok[next].status = "unissued"
        /\ tok' = [tok EXCEPT ![req[r].token].status = "spent",
                              ![next] = [status |-> "live", session |-> SessionOf(req[r].token)]]
        BY <1>5 DEF RefreshAccepted, Maybe
  <2>2. /\ Issues(next, SessionOf(req[r].token))
        /\ \A u \in Tokens : u # next /\ u # req[r].token => tok'[u] = tok[u]
        BY <2>1, <1>3, RotateTokens
  <2>3. Rotates(r, next)
        BY <1>1, <1>2, <1>3, <2>2 DEF Rotates
  <2> QED
      BY <2>1, <2>3, RotateStep
<1> QED
    BY <1>4, <1>5

LEMMA LostStep ==
    ASSUME Inv, NEW r \in Requests, NEW next \in Tokens, RefreshLost(r, next)
    PROVE  Inv'
<1>1. /\ Moves(r)
      /\ req'[r].kind = req[r].kind /\ req'[r].phase = "done"
      /\ req'[r].browser = req[r].browser /\ req'[r].token = req[r].token
      /\ req'[r].status = 401
  <2>1. Done(r, 401)
        BY DEF RefreshLost
  <2> QED
      BY <2>1, Values, DoneFrame
<1>2. /\ req[r].kind = "refresh" /\ req[r].phase = "idp"
      /\ UNCHANGED <<cookie, owner, revoked>>
      /\ excused' = excused \cup {SessionOf(req[r].token)}
      BY DEF RefreshLost
<1>3. /\ req[r].token \in Tokens /\ Issued(req[r].token)
      /\ SessionOf(req[r].token) \in Sessions
  <2>1. Shape(r) /\ Carries(r)
        BY DEF Inv, Handlers
  <2> QED
      BY <2>1, <1>2, InUse, NoneAssumption DEF Shape, Carries
<1>4. /\ tok[next].status = "unissued"
      /\ tok' = [tok EXCEPT ![req[r].token].status = "spent",
                            ![next] = [status |-> "live", session |-> SessionOf(req[r].token)]]
      BY DEF RefreshLost
<1>5. /\ Issues(next, SessionOf(req[r].token))
      /\ \A u \in Tokens : u # next /\ u # req[r].token => tok'[u] = tok[u]
      BY <1>3, <1>4, RotateTokens
<1>6. Rotates(r, next)
      BY <1>1, <1>2, <1>5 DEF Rotates
<1> QED
    BY <1>6, RotateStep

-----------------------------------------------------------------------------
(* The invariant holds.                                                      *)

LEMMA Initial == Init => Inv
<1> SUFFICES ASSUME Init PROVE Inv
    OBVIOUS
<1>1. IdleRequest \in Request
      BY Values DEF IdleRequest, Request, Kinds, Phases, Maybe
<1>2. \A r \in Requests :
         /\ req[r].kind = "none" /\ req[r].phase = "idle" /\ req[r].token = None
         /\ req[r].answer = None /\ req[r].status = 0
      BY DEF Init, IdleRequest
<1>3. TypeOK
      BY <1>1 DEF Init, TypeOK, Token, Maybe
<1>4. TokenInv /\ CookieInv /\ SessionKept
      BY DEF Init, TokenInv, CookieInv, SessionKept, Issued
<1>5. Handlers
      BY <1>2 DEF Handlers, Shape, Carries, Delivers, Sending, Revokes, Silences, LoggingOut
<1> QED
    BY <1>3, <1>4, <1>5 DEF Inv

LEMMA Step == Inv /\ [Next]_vars => Inv'
<1> SUFFICES ASSUME Inv, [Next]_vars PROVE Inv'
    OBVIOUS
<1>1. ASSUME NEW r \in Requests, NEW b \in Browsers, NEW s \in Sessions, NEW t \in Tokens,
             LoginIssue(r, b, s, t)
      PROVE  Inv'
      BY <1>1, LoginStep
<1>2. ASSUME NEW r \in Requests, NEW b \in Browsers, LoginWithoutToken(r, b)
      PROVE  Inv'
  <2>1. /\ req' = [req EXCEPT ![r] = Started("login", "respond", b, None, None)]
        /\ UNCHANGED <<cookie, tok, owner, revoked, excused>> /\ req[r].phase = "idle"
        BY <1>2 DEF LoginWithoutToken
  <2> QED
      BY <2>1, Values, StartStep
<1>3. ASSUME NEW r \in Requests, NEW b \in Browsers, RefreshStart(r, b)
      PROVE  Inv'
  <2>1. /\ req' = [req EXCEPT ![r] = Started("refresh", "idp", b, cookie[b], None)]
        /\ UNCHANGED <<cookie, tok, owner, revoked, excused>> /\ req[r].phase = "idle"
        /\ cookie[b] # None
        BY <1>3 DEF RefreshStart, RequestCookie
  <2>2. cookie[b] \in Maybe(Tokens)
        BY DEF Inv, TypeOK
  <2> QED
      BY <2>1, <2>2, Values, StartStep
<1>4. ASSUME NEW r \in Requests, NEW b \in Browsers, LogoutStart(r, b)
      PROVE  Inv'
  <2>1. cookie[b] \in Maybe(Tokens)
        BY DEF Inv, TypeOK
  <2>2. UNCHANGED <<cookie, tok, owner, revoked, excused>> /\ req[r].phase = "idle"
        BY <1>4 DEF LogoutStart
  <2>3. CASE cookie[b] = None
    <3>1. req' = [req EXCEPT ![r] = Started("logout", "respond", b, None, None)]
          BY <1>4, <2>3 DEF LogoutStart, RequestCookie
    <3> QED
        BY <2>1, <2>2, <3>1, Values, StartStep
  <2>4. CASE cookie[b] # None
    <3>1. req' = [req EXCEPT ![r] = Started("logout", "idp", b, cookie[b], None)]
          BY <1>4, <2>4 DEF LogoutStart, RequestCookie
    <3> QED
        BY <2>1, <2>2, <2>4, <3>1, Values, StartStep
  <2> QED
      BY <2>3, <2>4
<1>5. ASSUME NEW r \in Requests, NEW b \in Browsers,
             RefreshBadRequest(r, b) \/ LogoutUnauthorized(r, b)
      PROVE  Inv'
      BY <1>5, EarlyStep
<1>6. ASSUME NEW r \in Requests, NEW t \in Maybe(Tokens), RefreshAccepted(r, t)
      PROVE  Inv'
      BY <1>6, AcceptedStep
<1>7. ASSUME NEW r \in Requests, NEW t \in Tokens, RefreshLost(r, t)
      PROVE  Inv'
      BY <1>7, LostStep
<1>8. ASSUME NEW r \in Requests, RefreshFailed(r) \/ Cancel(r)
      PROVE  Inv'
      BY <1>8, EndStep
<1>9. ASSUME NEW r \in Requests, TokenRespond(r)
      PROVE  Inv'
      BY <1>9, TokenRespondStep
<1>10. ASSUME NEW r \in Requests, RevokeDone(r) \/ RevokeFailed(r)
       PROVE  Inv'
       BY <1>10, RevokeStep
<1>11. ASSUME NEW r \in Requests, LogoutRespond(r)
       PROVE  Inv'
       BY <1>11, LogoutRespondStep
<1>12. CASE UNCHANGED vars
       BY <1>12 DEF vars, Inv, TypeOK, TokenInv, CookieInv, Handlers, Shape, Carries, Delivers,
          Revokes, Silences, LoggingOut, Quiet, SessionKept, Reaches, Sending, Issued, SessionOf
<1> QED
    BY <1>1, <1>2, <1>3, <1>4, <1>5, <1>6, <1>7, <1>8, <1>9, <1>10, <1>11, <1>12 DEF Next

LEMMA Invariance == Spec => []Inv
BY Initial, Step, PTL DEF Spec

\* Every variable stays in its domain, with any number of overlapping refreshes
\* and logouts.
THEOREM TypeCorrect == Spec => []TypeOK
<1>1. Inv => TypeOK
      BY DEF Inv
<1> QED
    BY <1>1, Invariance, PTL

\* However the refresh handlers of a browser's tabs overlap, the working token of
\* a session is in the cookie or on its way to it, until the session is given up,
\* an answer is lost or the IdP ends the session, on a logout or because one token
\* came twice.
THEOREM SessionsAreKept == Spec => []SessionKept
<1>1. Inv => SessionKept
      BY DEF Inv
<1> QED
    BY <1>1, Invariance, PTL

\* The cookie TokenRespond sets is always of the browser's own login.
THEOREM CookiesAreBound == Spec => []CookieBinding
<1>1. Inv => CookieBinding
      BY DEF Inv, CookieInv, CookieBinding
<1> QED
    BY <1>1, Invariance, PTL

\* After the 204 of Logout the browser has no working token of the session,
\* unless the revocation had no effect and a refresh was under way as well.
THEOREM LogoutsStick == Spec => []LogoutSticks
<1>1. Inv => LogoutSticks
  <2> SUFFICES ASSUME Inv, NEW r \in Requests,
                      req[r].kind = "logout", req[r].status = 204, req[r].token # None,
                      cookie[req[r].browser] # None,
                      SessionOf(cookie[req[r].browser]) = SessionOf(req[r].token),
                      Live(cookie[req[r].browser])
               PROVE  req[r].marks = {"failed", "raced"}
      BY DEF LogoutSticks
  <2>1. req[r].browser \in Browsers /\ Revokes(r) /\ Silences(r) /\ LoggingOut(r)
        BY DEF Inv, Handlers, Shape, LoggingOut
  <2>2. "failed" \in req[r].marks
        BY <2>1 DEF Revokes, Live
  <2>3. "raced" \in req[r].marks
        BY <2>1 DEF Silences, Quiet
  <2>4. req[r].marks \in Marks
        BY DEF Inv, TypeOK, Request
  <2> QED
      BY <2>2, <2>3, <2>4 DEF Marks
<1> QED
    BY <1>1, Invariance, PTL

=============================================================================
