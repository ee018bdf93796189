----------------------- MODULE RequestPipelineProofs ------------------------
(* Proofs about RequestPipeline for any documents and rules, any set of      *)
(* requests callers can send and any number of requests under way.           *)
EXTENDS RequestPipeline, PolicyReloadProofs

-----------------------------------------------------------------------------
(* The inductive invariant: what the phase of a request says of the checks   *)
(* it has passed.                                                            *)

UnderWay(r) == req[r].phase \in {"schema", "policy", "jwt", "handler"}

\* What a request has before and after its policy decision.
Shape(r) ==
    /\ req[r].phase # "idle" => req[r].input \in Inputs
    /\ req[r].phase # "done" => req[r].effect = "none" /\ req[r].status = 0
    /\ req[r].phase \in {"idle", "schema", "policy"} => req[r].decided = None

\* The policy in force is at least as new as when the request came.
Current(r) == UnderWay(r) => active # None /\ req[r].since <= active.edit

\* The checks that lie behind a request in this phase.
Passed(r) ==
    LET i == req[r].input
    IN  /\ req[r].phase \in {"policy", "jwt", "handler"} => SchemaValid(i)
        /\ req[r].phase \in {"jwt", "handler"} /\ i.policed => Allow(req[r].decided.doc, i)
        /\ req[r].phase = "jwt" => i.route # "private"
        /\ req[r].phase = "handler" /\ i.route # "private"
              => i.method = "POST" /\ JWTValid(i.header)

\* What the properties say of one request.
Verdict(r) ==
    /\ VouchedFor(r)
    /\ req[r].decided # None => req[r].decided.edit >= req[r].since
    /\ SwapRefused(r) => "private" \notin Rules[req[r].decided.doc]
    /\ AmountRefused(r) => ~({"standard", "high_value"} \subseteq Rules[req[r].decided.doc])
    /\ req[r].status = 400 => ~SchemaValid(req[r].input)

RequestInv(r) == Shape(r) /\ Current(r) /\ Passed(r) /\ Verdict(r)

Inv == PolicyInv /\ TypeOK /\ \A r \in Requests : RequestInv(r)

-----------------------------------------------------------------------------
(* What callers send.                                                        *)

LEMMA InputTypes ==
    ASSUME NEW i \in Inputs
    PROVE  /\ i # None
           /\ i.route \in Routes
           /\ i.header \in Header
           /\ i.header.claims \in Claims \cup {None}
           /\ i.body \in Body
           /\ i.body.amount \in Int
           /\ i.body.policyAmount \in Int \cup {None}
BY InputAssumption, PipelineAssumption DEF Input, Header, Body

LEMMA SubjectType ==
    ASSUME NEW i \in Inputs
    PROVE  Subject(i.header.claims) \in Users \cup {NoSubject}
BY InputTypes DEF Subject, Claims

\* A POST that is valid by its schema has all a handler or a service asks for.
LEMMA SchemaSuffices ==
    ASSUME NEW i \in Inputs, SchemaValid(i), i.method = "POST"
    PROVE  /\ ~i.body.malformed
           /\ i.route = "register" => ~MissingParameters(i.body)
           /\ i.route # "register" => ~InvalidTransfer(i.body)
BY InputTypes DEF SchemaValid, MissingParameters, InvalidTransfer

\* A policy allows a transfer to be initiated for a subject only, and from the
\* limit on, if it reads the amount the handler reads, only with the scope.
LEMMA AllowedTransfer ==
    ASSUME NEW i \in Inputs, NEW doc, Allow(doc, i), i.route = "transfer"
    PROVE  /\ Subject(i.header.claims) # NoSubject
           /\ i.body.amount >= Limit /\ i.body.policyAmount = i.body.amount
                 => "transfer:high_value" \in ScopesOf(i.header.claims)
<1>1. PICK rule \in Rules[doc] : Holds(rule, i)
      BY DEF Allow
<1>2. i.body.amount \in Int /\ Limit \in Nat
      BY InputTypes, PipelineAssumption
<1>3. extractJWTClaims(i.header) = i.header.claims \/ extractJWTClaims(i.header) = None
      BY DEF extractJWTClaims
<1> QED
    BY <1>1, <1>2, <1>3 DEF Holds, amount_cents_under_limit, Subject

\* Where the routes go on.
LEMMA NextPhases ==
    ASSUME NEW i
    PROVE  /\ AfterPolicy(i) \in {"jwt", "handler"}
           /\ AfterPolicy(i) = "handler" <=> i.route = "private"
           /\ AfterSchema(i) = IF i.policed THEN "policy" ELSE AfterPolicy(i)
BY DEF AfterPolicy, AfterSchema

\* Every amount a policy can read falls under one of the two rules.
LEMMA AmountsCovered ==
    ASSUME NEW i \in Inputs,
           i.route = "transfer", i.method = "POST", i.header.scheme = "Bearer",
           Subject(i.header.claims) # NoSubject,
           "transfer:high_value" \in ScopesOf(i.header.claims),
           i.body.policyAmount # None
    PROVE  Holds("standard", i) \/ Holds("high_value", i)
<1>1. i.body.policyAmount \in Int /\ Limit \in Nat
      BY InputTypes, PipelineAssumption
<1>2. extractJWTClaims(i.header) = i.header.claims
      BY DEF extractJWTClaims
<1> QED
    BY <1>1, <1>2 DEF Holds, amount_cents_under_limit

\* The scopes of a token of the edge are found by the policy.
LEMMA EdgeScopes ==
    ASSUME NEW i \in Inputs, i.header.signer = "edge", i.header.scheme = "Bearer"
    PROVE  "transfer:execute" \in ScopesOf(extractJWTClaims(i.header))
<1>1. /\ i.header.claims \in Claims /\ i.header.claims # None
      /\ i.header.claims.scope = None /\ i.header.claims.scopes = {"transfer:execute"}
      BY InputAssumption, PipelineAssumption
<1>2. {"transfer:execute"} # None
      BY PipelineAssumption DEF Scopes
<1> QED
    BY <1>1, <1>2 DEF extractJWTClaims, ScopesOf

-----------------------------------------------------------------------------
(* What a step of one request changes.                                       *)

Moves(r) ==
    /\ req' \in [Requests -> Request]
    /\ \A q \in Requests : q # r => req'[q] = req[q]

\* Input and arrival of a request stay as they are.
Keeps(r) == req'[r].input = req[r].input /\ req'[r].since = req[r].since

LEMMA Values ==
    /\ {"idle", "schema", "policy", "jwt", "handler", "done"} \subseteq Phases
    /\ {"none", "registered", "swapped", "authorised"} \subseteq Effects
    /\ {0, 200, 400, 401, 403, 405, 500} \subseteq Statuses
BY DEF Phases, Effects, Statuses

LEMMA ReplaceFrame ==
    ASSUME TypeOK, NEW r \in Requests, NEW e \in Request, req' = [req EXCEPT ![r] = e]
    PROVE  Moves(r) /\ req'[r] = e
BY DEF TypeOK, Moves

\* The next check, with or without the policy's decision.
LEMMA AdvanceFrame ==
    ASSUME TypeOK, NEW r \in Requests, NEW phase \in Phases,
           req' = [req EXCEPT ![r].phase = phase]
    PROVE  /\ Moves(r) /\ Keeps(r)
           /\ req'[r].phase = phase /\ req'[r].decided = req[r].decided
           /\ req'[r].effect = req[r].effect /\ req'[r].status = req[r].status
<1> DEFINE e == [req[r] EXCEPT !.phase = phase]
<1>1. req[r] \in Request /\ req \in [Requests -> Request] /\ "done" \in Phases
      BY Values DEF TypeOK
<1>2. /\ e \in Request
      /\ e.phase = phase /\ e.input = req[r].input /\ e.since = req[r].since
      /\ e.decided = req[r].decided /\ e.effect = req[r].effect /\ e.status = req[r].status
      BY <1>1 DEF Request
<1>3. req' = [req EXCEPT ![r] = e]
      BY <1>1
<1> HIDE DEF e
<1>4. Moves(r) /\ req'[r] = e
      BY <1>2, <1>3, ReplaceFrame
<1> QED
    BY <1>2, <1>4 DEF Keeps

\* The policy has decided: the next check, or the answer.
Allowed(r, content, phase) ==
    req' = [req EXCEPT ![r].decided = content, ![r].phase = phase]
Refused(r, content, status) ==
    req' = [req EXCEPT ![r].decided = content, ![r].phase = "done", ![r].status = status]

LEMMA AllowedFrame ==
    ASSUME TypeOK, NEW r \in Requests, NEW content \in Content \cup {None}, NEW phase \in Phases,
           Allowed(r, content, phase)
    PROVE  /\ Moves(r) /\ Keeps(r)
           /\ req'[r].phase = phase /\ req'[r].decided = content
           /\ req'[r].effect = req[r].effect /\ req'[r].status = req[r].status
<1> DEFINE e == [req[r] EXCEPT !.decided = content, !.phase = phase]
<1>1. req[r] \in Request /\ req \in [Requests -> Request]
      BY DEF TypeOK
<1>2. /\ e \in Request
      /\ e.phase = phase /\ e.input = req[r].input /\ e.since = req[r].since
      /\ e.decided = content /\ e.effect = req[r].effect /\ e.status = req[r].status
      BY <1>1 DEF Request
<1>3. req' = [req EXCEPT ![r] = e]
      BY <1>1 DEF Allowed
<1> HIDE DEF e
<1>4. Moves(r) /\ req'[r] = e
      BY <1>2, <1>3, ReplaceFrame
<1> QED
    BY <1>2, <1>4 DEF Keeps

LEMMA RefusedFrame ==
    ASSUME TypeOK, NEW r \in Requests, NEW content \in Content \cup {None},
           NEW status \in Statuses, Refused(r, content, status)
    PROVE  /\ Moves(r) /\ Keeps(r)
           /\ req'[r].phase = "done" /\ req'[r].decided = content
           /\ req'[r].effect = req[r].effect /\ req'[r].status = status
<1> DEFINE e == [req[r] EXCEPT !.decided = content, !.phase = "done", !.status = status]
<1>1. req[r] \in Request /\ req \in [Requests -> Request] /\ "done" \in Phases
      BY Values DEF TypeOK
<1>2. /\ e \in Request
      /\ e.phase = "done" /\ e.input = req[r].input /\ e.since = req[r].since
      /\ e.decided = content /\ e.effect = req[r].effect /\ e.status = status
      BY <1>1 DEF Request
<1>3. req' = [req EXCEPT ![r] = e]
      BY <1>1 DEF Refused
<1> HIDE DEF e
<1>4. Moves(r) /\ req'[r] = e
      BY <1>2, <1>3, ReplaceFrame
<1> QED
    BY <1>2, <1>4 DEF Keeps

LEMMA AnswerFrame ==
    ASSUME TypeOK, NEW r \in Requests, NEW status \in Statuses, Answer(r, status)
    PROVE  /\ Moves(r) /\ Keeps(r)
           /\ req'[r].phase = "done" /\ req'[r].decided = req[r].decided
           /\ req'[r].effect = req[r].effect /\ req'[r].status = status
<1> DEFINE e == [req[r] EXCEPT !.phase = "done", !.status = status]
<1>1. req[r] \in Request /\ req \in [Requests -> Request] /\ "done" \in Phases
      BY Values DEF TypeOK
<1>2. /\ e \in Request
      /\ e.phase = "done" /\ e.input = req[r].input /\ e.since = req[r].since
      /\ e.decided = req[r].decided /\ e.effect = req[r].effect /\ e.status = status
      BY <1>1 DEF Request
<1>3. req' = [req EXCEPT ![r] = e]
      BY <1>1 DEF Answer
<1> HIDE DEF e
<1>4. Moves(r) /\ req'[r] = e
      BY <1>2, <1>3, ReplaceFrame
<1> QED
    BY <1>2, <1>4 DEF Keeps

LEMMA PerformFrame ==
    ASSUME TypeOK, NEW r \in Requests, NEW user \in Users \cup {NoSubject},
           NEW effect \in Effects, NEW status \in Statuses, Perform(r, user, effect, status)
    PROVE  /\ Moves(r) /\ Keeps(r)
           /\ req'[r].phase = "done" /\ req'[r].decided = req[r].decided
           /\ req'[r].user = user /\ req'[r].effect = effect /\ req'[r].status = status
<1> DEFINE e == [req[r] EXCEPT !.phase = "done", !.user = user, !.effect = effect,
                               !.status = status]
<1>1. req[r] \in Request /\ req \in [Requests -> Request] /\ "done" \in Phases
      BY Values DEF TypeOK
<1>2. /\ e \in Request
      /\ e.phase = "done" /\ e.input = req[r].input /\ e.since = req[r].since
      /\ e.decided = req[r].decided /\ e.user = user /\ e.effect = effect
      /\ e.status = status
      BY <1>1 DEF Request
<1>3. req' = [req EXCEPT ![r] = e]
      BY <1>1 DEF Perform
<1> HIDE DEF e
<1>4. Moves(r) /\ req'[r] = e
      BY <1>2, <1>3, ReplaceFrame
<1> QED
    BY <1>2, <1>4 DEF Keeps

-----------------------------------------------------------------------------
(* Every step preserves the invariant.                                       *)

\* A request that stays as it is keeps its invariant if the policy in force, for
\* one under way, gets no older.
LEMMA OtherRequest ==
    ASSUME NEW q \in Requests, RequestInv(q), req'[q] = req[q], Current(q)'
    PROVE  RequestInv(q)'
BY DEF RequestInv, Shape, Passed, Verdict, VouchedFor, SwapRefused, AmountRefused

LEMMA OneRequest ==
    ASSUME Inv, NEW r \in Requests, Moves(r), UNCHANGED policyVars, RequestInv(r)'
    PROVE  Inv'
<1>1. PolicyInv'
      BY PolicyStutters DEF Inv
<1>2. TypeOK'
      BY <1>1 DEF TypeOK, Moves, PolicyInv
<1>3. ASSUME NEW q \in Requests, q # r
      PROVE  RequestInv(q)'
  <2>1. req'[q] = req[q] /\ RequestInv(q)
        BY <1>3 DEF Moves, Inv
  <2>2. Current(q)'
        BY <2>1 DEF RequestInv, Current, UnderWay, policyVars
  <2> QED
      BY <2>1, <2>2, OtherRequest
<1> QED
    BY <1>1, <1>2, <1>3 DEF Inv

\* An answer without an effect: all but an undue 400 or 403 is harmless.
LEMMA AnswerInv ==
    ASSUME Inv, NEW r \in Requests, NEW status \in Statuses, Answer(r, status),
           UNCHANGED policyVars, UnderWay(r),
           status = 400 => ~SchemaValid(req[r].input),
           status = 403 => req[r].decided = None \/ req[r].input.route = "register"
    PROVE  Inv'
<1>1. /\ Moves(r) /\ Keeps(r)
      /\ req'[r].phase = "done" /\ req'[r].decided = req[r].decided
      /\ req'[r].effect = req[r].effect /\ req'[r].status = status
      BY AnswerFrame DEF Inv
<1>2. RequestInv(r)
      BY DEF Inv
<1>3. Shape(r)' /\ Current(r)' /\ Passed(r)'
      BY <1>1, <1>2 DEF RequestInv, Shape, Current, Passed, UnderWay, Keeps
<1>4. req[r].effect = "none"
      BY <1>2 DEF RequestInv, Shape, UnderWay
<1>5. Verdict(r)'
      BY <1>1, <1>2, <1>4 DEF RequestInv, Verdict, VouchedFor, SwapRefused, AmountRefused, Keeps
<1> QED
    BY <1>1, <1>3, <1>5, OneRequest DEF RequestInv

\* An effect that is vouched for.
LEMMA PerformInv ==
    ASSUME Inv, NEW r \in Requests, NEW user \in Users \cup {NoSubject},
           NEW effect \in Effects, NEW status \in Statuses, Perform(r, user, effect, status),
           UNCHANGED policyVars, UnderWay(r), status \notin {400, 403},
           VouchedFor(r)'
    PROVE  Inv'
<1>1. /\ Moves(r) /\ Keeps(r)
      /\ req'[r].phase = "done" /\ req'[r].decided = req[r].decided
      /\ req'[r].status = status
      BY PerformFrame DEF Inv
<1>2. RequestInv(r)
      BY DEF Inv
<1>3. Shape(r)' /\ Current(r)' /\ Passed(r)'
      BY <1>1, <1>2 DEF RequestInv, Shape, Current, Passed, UnderWay, Keeps
<1>4. Verdict(r)'
      BY <1>1, <1>2 DEF RequestInv, Verdict, SwapRefused, AmountRefused, Keeps
<1> QED
    BY <1>1, <1>3, <1>4, OneRequest DEF RequestInv

LEMMA ArriveInv ==
    ASSUME Inv, NEW r \in Requests, NEW i \in Inputs, Arrive(r, i)
    PROVE  Inv'
<1> DEFINE e == [IdleRequest EXCEPT !.phase = "schema", !.input = i, !.since = active.edit]
<1>1. active \in Content /\ active.edit \in Nat /\ active # None
      BY DEF Arrive, Inv, PolicyInv, PolicyTypeOK, Content
<1>2. "schema" \in Phases /\ "none" \in Effects /\ 0 \in Statuses
      BY Values
<1>3. /\ e \in Request
      /\ e.phase = "schema" /\ e.input = i /\ e.since = active.edit
      /\ e.decided = None /\ e.effect = "none" /\ e.status = 0
      BY <1>1, <1>2 DEF IdleRequest, Request
<1>4. req' = [req EXCEPT ![r] = e] /\ UNCHANGED policyVars
      BY DEF Arrive
<1> HIDE DEF e
<1>5. Moves(r) /\ req'[r] = e
      BY <1>3, <1>4, ReplaceFrame DEF Inv
<1>6. RequestInv(r)'
      BY <1>1, <1>3, <1>4, <1>5 DEF RequestInv, Shape, Current, Passed, Verdict, VouchedFor,
         SwapRefused, AmountRefused, policyVars
<1> QED
    BY <1>4, <1>5, <1>6, OneRequest

LEMMA ValidateSchemaInv ==
    ASSUME Inv, NEW r \in Requests, ValidateSchema(r)
    PROVE  Inv'
<1>1. /\ req[r].phase = "schema" /\ UNCHANGED policyVars /\ RequestInv(r)
      /\ req[r].decided = None /\ UnderWay(r)
      BY DEF ValidateSchema, Inv, RequestInv, Shape, UnderWay
<1>2. CASE ~SchemaValid(req[r].input) /\ Answer(r, 400)
      BY <1>1, <1>2, AnswerInv, Values
<1>3. CASE /\ SchemaValid(req[r].input)
           /\ req' = [req EXCEPT ![r].phase = AfterSchema(req[r].input)]
  <2> DEFINE i == req[r].input
             phase == AfterSchema(i)
  <2>1. /\ phase \in {"policy", "jwt", "handler"} /\ phase \in Phases
        /\ phase \in {"jwt", "handler"} => ~i.policed
        /\ phase = "jwt" => i.route # "private"
        /\ phase = "handler" => i.route = "private"
        BY NextPhases, Values
  <2>2. req' = [req EXCEPT ![r].phase = phase]
        BY <1>3
  <2> HIDE DEF phase
  <2>3. /\ Moves(r) /\ Keeps(r)
        /\ req'[r].phase = phase /\ req'[r].decided = req[r].decided
        /\ req'[r].effect = req[r].effect /\ req'[r].status = req[r].status
        BY <2>1, <2>2, AdvanceFrame DEF Inv
  <2>4. Shape(r)' /\ Current(r)'
        BY <1>1, <2>1, <2>3 DEF RequestInv, Shape, Current, UnderWay, Keeps, policyVars
  <2>5. Passed(r)'
        BY <1>3, <2>1, <2>3 DEF Passed, Keeps
  <2>6. Verdict(r)'
        BY <1>1, <2>3 DEF RequestInv, Shape, Verdict, VouchedFor, SwapRefused, AmountRefused, Keeps
  <2> QED
      BY <1>1, <2>3, <2>4, <2>5, <2>6, OneRequest DEF RequestInv
<1> QED
    BY <1>2, <1>3 DEF ValidateSchema

LEMMA EvaluatePolicyInv ==
    ASSUME Inv, NEW r \in Requests, EvaluatePolicy(r)
    PROVE  Inv'
<1> DEFINE i == req[r].input
<1>1. /\ req[r].phase = "policy" /\ UNCHANGED policyVars /\ RequestInv(r) /\ UnderWay(r)
      /\ i \in Inputs /\ req[r].decided = None /\ SchemaValid(i)
      /\ req[r].effect = "none" /\ req[r].status = 0
      BY DEF EvaluatePolicy, Inv, RequestInv, Shape, Passed, UnderWay
<1>2. /\ active \in Content /\ active # None /\ active.edit \in Nat
      /\ req[r].since \in Nat /\ active.edit >= req[r].since
  <2>1. active # None /\ req[r].since <= active.edit
        BY <1>1 DEF RequestInv, Current
  <2>2. active \in Content /\ active.edit \in Nat
        BY <2>1 DEF Inv, PolicyInv, PolicyTypeOK, Content
  <2>3. req[r].since \in Nat
        BY DEF Inv, TypeOK, Request
  <2> QED
      BY <2>1, <2>2, <2>3
<1>3. req[r] \in Request /\ req \in [Requests -> Request]
      BY DEF Inv, TypeOK
<1>4. {"jwt", "handler", "done"} \subseteq Phases /\ 0 \in Statuses /\ 403 \in Statuses
      BY Values
<1>5. CASE /\ Allow(active.doc, i)
           /\ req' = [req EXCEPT ![r].decided = active, ![r].phase = AfterPolicy(i)]
  <2> DEFINE phase == AfterPolicy(i)
  <2>1. phase = "handler" <=> i.route = "private"
        BY NextPhases
  <2>2. phase \in {"jwt", "handler"}
        BY NextPhases
  <2>3. phase \in Phases
        BY <1>4, <2>2
  <2> HIDE DEF phase
  <2>4. Allowed(r, active, phase)
        BY <1>5 DEF Allowed, phase
  <2>5. /\ Moves(r) /\ Keeps(r)
        /\ req'[r].phase = phase /\ req'[r].decided = active
        /\ req'[r].effect = "none" /\ req'[r].status = 0
        BY <1>1, <1>2, <2>3, <2>4, AllowedFrame DEF Inv
  <2>6. Shape(r)' /\ Current(r)'
        BY <1>1, <1>2, <2>2, <2>5 DEF Shape, Current, UnderWay, Keeps, policyVars
  <2>7. Passed(r)'
        BY <1>1, <1>5, <2>1, <2>2, <2>5 DEF Passed, Keeps
  <2>8. Verdict(r)'
        BY <1>2, <2>5 DEF Verdict, VouchedFor, SwapRefused, AmountRefused, Keeps
  <2> QED
      BY <1>1, <2>5, <2>6, <2>7, <2>8, OneRequest DEF RequestInv
<1>6. CASE /\ ~Allow(active.doc, i)
           /\ req' = [req EXCEPT ![r].decided = active, ![r].phase = "done", ![r].status = 403]
  <2>2. /\ Moves(r) /\ Keeps(r)
        /\ req'[r].phase = "done" /\ req'[r].decided = active
        /\ req'[r].effect = "none" /\ req'[r].status = 403
    <3>1. Refused(r, active, 403) /\ 403 \in Statuses
          BY <1>4, <1>6 DEF Refused
    <3> QED
        BY <1>1, <1>2, <3>1, RefusedFrame DEF Inv
  <2>3. Shape(r)' /\ Current(r)' /\ Passed(r)'
        BY <1>1, <2>2 DEF Shape, Current, Passed, UnderWay, Keeps
  \* The rule for private transfers would have held.
  <2>4. ASSUME SwapRefused(r)'
        PROVE  "private" \notin Rules[active.doc]
    <3>1. /\ i.route = "private" /\ i.method = "POST"
          /\ i.header.signer = "edge" /\ i.header.scheme = "Bearer"
          BY <2>2, <2>4 DEF SwapRefused, Keeps
    <3>2. Holds("private", i)
          BY <1>1, <3>1, EdgeScopes DEF Holds
    <3> QED
        BY <1>6, <3>2 DEF Allow
  \* One of the two rules on amounts would have held.
  <2>5. ASSUME AmountRefused(r)', {"standard", "high_value"} \subseteq Rules[active.doc]
        PROVE  FALSE
    <3>1. /\ i.route = "transfer" /\ i.method = "POST" /\ i.header.scheme = "Bearer"
          /\ Subject(i.header.claims) # NoSubject
          /\ "transfer:high_value" \in ScopesOf(i.header.claims)
          /\ i.body.policyAmount # None
          BY <2>2, <2>5 DEF AmountRefused, Keeps
    <3>2. Holds("standard", i) \/ Holds("high_value", i)
          BY <1>1, <3>1, AmountsCovered
    <3> QED
        BY <1>6, <2>5, <3>2 DEF Allow
  <2>6. Verdict(r)'
        BY <1>2, <2>2, <2>4, <2>5 DEF Verdict, VouchedFor, Keeps
  <2> QED
      BY <1>1, <2>2, <2>3, <2>6, OneRequest DEF RequestInv
<1>7. CASE Answer(r, PolicyError)
      BY <1>1, <1>7, AnswerInv, Values DEF PolicyError
<1> QED
    BY <1>5, <1>6, <1>7 DEF EvaluatePolicy

LEMMA CheckJWTInv ==
    ASSUME Inv, NEW r \in Requests, CheckJWT(r)
    PROVE  Inv'
<1> DEFINE i == req[r].input
<1>1. req[r].phase = "jwt" /\ UNCHANGED policyVars /\ RequestInv(r) /\ UnderWay(r)
      BY DEF CheckJWT, Inv, UnderWay
<1>2. CASE Answer(r, 405) \/ Answer(r, 401)
  <2>1. 405 \in Statuses /\ 401 \in Statuses
        BY Values
  <2> QED
      BY <1>1, <1>2, <2>1, AnswerInv
<1>3. CASE /\ i.method = "POST" /\ JWTValid(i.header)
           /\ req' = [req EXCEPT ![r].phase = "handler"]
  <2>1. "handler" \in Phases
        BY Values
  <2>2. /\ Moves(r) /\ Keeps(r)
        /\ req'[r].phase = "handler" /\ req'[r].decided = req[r].decided
        /\ req'[r].effect = req[r].effect /\ req'[r].status = req[r].status
        BY <1>3, <2>1, AdvanceFrame DEF Inv
  <2>3. Shape(r)' /\ Current(r)' /\ Passed(r)'
        BY <1>1, <1>3, <2>2 DEF RequestInv, Shape, Current, UnderWay, Passed, Keeps, policyVars
  <2>4. Verdict(r)'
        BY <1>1, <2>2 DEF RequestInv, Shape, Verdict, VouchedFor, SwapRefused, AmountRefused, Keeps
  <2> QED
      BY <1>1, <2>2, <2>3, <2>4, OneRequest DEF RequestInv
<1> QED
    BY <1>2, <1>3 DEF CheckJWT

\* What lies behind a request that has reached its handler.
LEMMA AtHandler ==
    ASSUME Inv, NEW r \in Requests, req[r].phase = "handler"
    PROVE  /\ UnderWay(r)
           /\ req[r].input \in Inputs /\ SchemaValid(req[r].input)
           /\ req[r].input.policed => Allow(req[r].decided.doc, req[r].input)
           /\ req[r].input.route # "private" =>
                 req[r].input.method = "POST" /\ JWTValid(req[r].input.header)
BY DEF Inv, RequestInv, Shape, Passed, UnderWay

\* The schema has already refused what the handler would call a bad request, so
\* only the attestation decides; the caller is the subject of a verified token.
LEMMA RegisterDeviceInv ==
    ASSUME Inv, NEW r \in Requests, RegisterDevice(r)
    PROVE  Inv'
<1> DEFINE i == req[r].input
           b == i.body
           user == Subject(i.header.claims)
<1>1. /\ req[r].phase = "handler" /\ i.route = "register" /\ UNCHANGED policyVars
      BY DEF RegisterDevice
<1>2. UnderWay(r) /\ i \in Inputs /\ i.method = "POST" /\ SchemaValid(i) /\ JWTValid(i.header)
      BY <1>1, AtHandler
<1>3. ~b.malformed /\ ~MissingParameters(b)
      BY <1>1, <1>2, SchemaSuffices
<1>4. 403 \in Statuses /\ 200 \in Statuses /\ "registered" \in Effects
      BY Values
<1>5. CASE Answer(r, 403)
      BY <1>1, <1>2, <1>4, <1>5, AnswerInv
<1>6. CASE VerifyAttestation(b.platform, b.attestation) /\ Perform(r, user, "registered", 200)
  <2>1. user \in Users \cup {NoSubject} /\ user = i.header.claims.sub
        BY <1>2, SubjectType DEF JWTValid, Subject
  <2>2. req'[r].input = i /\ req'[r].user = user /\ req'[r].effect = "registered"
        BY <1>4, <1>6, <2>1, PerformFrame DEF Inv, Keeps
  <2>3. b.attestation.form = "jws" =>
           b.attestation.issuer # IF b.platform = "ios" THEN "google" ELSE "apple"
        BY <1>2, <1>6, InputAssumption DEF VerifyAttestation
  <2>4. VouchedFor(r)'
        BY <1>2, <2>1, <2>2, <2>3 DEF VouchedFor, JWTValid
  <2> QED
      BY <1>1, <1>2, <1>4, <1>6, <2>1, <2>4, PerformInv
<1> QED
    BY <1>1, <1>3, <1>5, <1>6 DEF RegisterDevice

\* The claims the policy decided on are those of the token JWTMiddleware verified.
LEMMA InitiateTransferInv ==
    ASSUME Inv, NEW r \in Requests, InitiateTransfer(r)
    PROVE  Inv'
<1> DEFINE i == req[r].input
           b == i.body
           user == Subject(i.header.claims)
<1>1. /\ req[r].phase = "handler" /\ i.route = "transfer" /\ UNCHANGED policyVars
      BY DEF InitiateTransfer
<1>2. /\ UnderWay(r) /\ i \in Inputs /\ i.method = "POST" /\ SchemaValid(i)
      /\ JWTValid(i.header) /\ (i.policed => Allow(req[r].decided.doc, i))
      BY <1>1, AtHandler
<1>3. ~b.malformed /\ ~InvalidTransfer(b)
      BY <1>1, <1>2, SchemaSuffices
<1>4. 500 \in Statuses /\ 200 \in Statuses /\ "swapped" \in Effects
      BY Values
<1>5. PICK status \in {200, 500} : Perform(r, user, "swapped", status)
      BY <1>3 DEF InitiateTransfer
<1>6. i.policed =>
         /\ user # NoSubject
         /\ b.amount >= Limit /\ b.policyAmount = b.amount
               => "transfer:high_value" \in ScopesOf(i.header.claims)
      BY <1>1, <1>2, AllowedTransfer
<1>7. user \in Users \cup {NoSubject} /\ user = i.header.claims.sub
      BY <1>2, SubjectType DEF JWTValid, Subject
<1>8. req'[r].input = i /\ req'[r].user = user /\ req'[r].effect = "swapped"
      BY <1>4, <1>5, <1>7, PerformFrame DEF Inv, Keeps
<1>9. VouchedFor(r)'
      BY <1>2, <1>6, <1>7, <1>8 DEF VouchedFor, JWTValid
<1> QED
    BY <1>1, <1>2, <1>4, <1>5, <1>7, <1>9, PerformInv

LEMMA ExecutePrivateTransferInv ==
    ASSUME Inv, NEW r \in Requests, ExecutePrivateTransfer(r)
    PROVE  Inv'
<1> DEFINE i == req[r].input
           h == i.header
<1>1. /\ req[r].phase = "handler" /\ i.route = "private" /\ UNCHANGED policyVars
      BY DEF ExecutePrivateTransfer
<1>2. UnderWay(r) /\ i \in Inputs /\ SchemaValid(i)
      BY <1>1, AtHandler
<1>3. i.method = "POST" => ~i.body.malformed
      BY <1>2, SchemaSuffices
<1>4. 401 \in Statuses /\ 405 \in Statuses /\ 200 \in Statuses /\ "authorised" \in Effects
      BY Values
<1>5. CASE Answer(r, 401) \/ Answer(r, 405)
      BY <1>1, <1>2, <1>4, <1>5, AnswerInv
<1>6. CASE VerifyInternalJWT(h) /\ \E status \in {200, 401} :
                                      Perform(r, h.claims.sub, "authorised", status)
  <2>1. PICK status \in {200, 401} : Perform(r, h.claims.sub, "authorised", status)
        BY <1>6
  <2>2. h.claims.sub \in Users \cup {NoSubject}
        BY <1>2, <1>6, InputTypes DEF VerifyInternalJWT, Claims
  <2>3. /\ req'[r].input = i /\ req'[r].user = h.claims.sub
        /\ req'[r].effect = "authorised"
        BY <1>4, <2>1, <2>2, PerformFrame DEF Inv, Keeps
  <2>4. VouchedFor(r)'
        BY <1>6, <2>3 DEF VouchedFor, VerifyInternalJWT
  <2> QED
      BY <1>1, <1>2, <1>4, <2>1, <2>2, <2>4, PerformInv
<1> QED
    BY <1>3, <1>5, <1>6 DEF ExecutePrivateTransfer

\* The process ends: what was under way is over and had no effect.
LEMMA ProcessExitInv ==
    ASSUME Inv, ProcessExit
    PROVE  Inv'
<1>1. PolicyInv'
      BY ExitInv DEF ProcessExit, Inv
<1>2. ASSUME NEW q \in Requests
      PROVE  /\ req'[q] \in Request
             /\ \/ req'[q] = req[q] /\ ~UnderWay(q)
                \/ /\ UnderWay(q) /\ req'[q].phase = "done"
                   /\ req'[q].input = req[q].input /\ req'[q].since = req[q].since
                   /\ req'[q].decided = req[q].decided /\ req'[q].user = req[q].user
                   /\ req'[q].effect = req[q].effect /\ req'[q].status = req[q].status
  <2>1. req[q] \in Request /\ "done" \in Phases
        BY Values DEF Inv, TypeOK
  <2>2. req[q].phase \in {"idle", "done"} \/ UnderWay(q)
        BY <2>1 DEF UnderWay, Request, Phases
  <2>3. CASE req[q].phase \in {"idle", "done"}
        BY <2>1, <2>3 DEF ProcessExit, UnderWay
  <2>4. CASE UnderWay(q)
    <3> DEFINE e == [req[q] EXCEPT !.phase = "done"]
    <3>1. req'[q] = e
          BY <2>4 DEF ProcessExit, UnderWay
    <3>2. /\ e \in Request /\ e.phase = "done"
          /\ e.input = req[q].input /\ e.since = req[q].since
          /\ e.decided = req[q].decided /\ e.user = req[q].user
          /\ e.effect = req[q].effect /\ e.status = req[q].status
          BY <2>1 DEF Request
    <3> QED
        BY <2>4, <3>1, <3>2
  <2> QED
      BY <2>2, <2>3, <2>4
<1>3. TypeOK'
  <2>1. req' = [q \in Requests |-> req'[q]]
        BY DEF ProcessExit
  <2> QED
      BY <1>1, <1>2, <2>1 DEF PolicyInv, TypeOK
<1>4. ASSUME NEW q \in Requests
      PROVE  RequestInv(q)'
  <2>1. RequestInv(q)
        BY DEF Inv
  <2>2. CASE req'[q] = req[q] /\ ~UnderWay(q)
    <3>1. Current(q)'
          BY <2>2 DEF Current, UnderWay
    <3> QED
        BY <2>1, <2>2, <3>1, OtherRequest
  <2>3. CASE /\ UnderWay(q) /\ req'[q].phase = "done"
             /\ req'[q].input = req[q].input /\ req'[q].since = req[q].since
             /\ req'[q].decided = req[q].decided /\ req'[q].user = req[q].user
             /\ req'[q].effect = req[q].effect /\ req'[q].status = req[q].status
    <3>1. Shape(q)' /\ Current(q)' /\ Passed(q)'
          BY <2>1, <2>3 DEF RequestInv, Shape, Current, Passed, UnderWay
    <3>2. Verdict(q)'
          BY <2>1, <2>3 DEF RequestInv, Verdict, VouchedFor, SwapRefused, AmountRefused
    <3> QED
        BY <3>1, <3>2 DEF RequestInv
  <2> QED
      BY <1>2, <2>2, <2>3
<1> QED
    BY <1>1, <1>3, <1>4 DEF Inv

\* The policy changes while requests are under way.
LEMMA PolicyChangeInv ==
    ASSUME Inv, PolicyStep, UNCHANGED req
    PROVE  Inv'
<1>1. PolicyInv'
      BY PolicyStepInv DEF Inv
<1>2. TypeOK'
      BY <1>1 DEF Inv, PolicyInv, TypeOK
<1>3. ASSUME NEW q \in Requests
      PROVE  Current(q)'
  <2> SUFFICES ASSUME UnderWay(q)
               PROVE  active' # None /\ req[q].since <= active'.edit
      BY DEF Current, UnderWay
  <2>1. active # None /\ req[q].since <= active.edit /\ req[q].since \in Nat
        BY DEF Inv, RequestInv, Current, TypeOK, Request
  <2>2. active' # None /\ active'.edit >= active.edit
        BY <2>1, PolicyAdvances DEF Inv
  <2>3. active.edit \in Nat /\ active'.edit \in Nat
        BY <1>1, <2>1, <2>2 DEF Inv, PolicyInv, PolicyTypeOK, Content
  <2> QED
      BY <2>1, <2>2, <2>3
<1> QED
    BY <1>1, <1>2, <1>3, OtherRequest DEF Inv

-----------------------------------------------------------------------------
(* The theorems.                                                             *)

LEMMA Initially == Init => Inv
<1> SUFFICES ASSUME Init
             PROVE  Inv
    OBVIOUS
<1>1. PolicyInv
      BY PolicyInitially DEF Init
<1>2. IdleRequest \in Request
      BY DEF IdleRequest, Request, Phases, Effects, Statuses
<1>3. TypeOK
      BY <1>1, <1>2 DEF Init, PolicyInv, TypeOK
<1>4. ASSUME NEW r \in Requests
      PROVE  RequestInv(r)
  <2>1. /\ req[r].phase = "idle" /\ req[r].decided = None
        /\ req[r].effect = "none" /\ req[r].status = 0
        BY DEF Init, IdleRequest
  <2> QED
      BY <2>1 DEF RequestInv, Shape, Current, UnderWay, Passed, Verdict, VouchedFor, SwapRefused, AmountRefused
<1> QED
    BY <1>1, <1>3, <1>4 DEF Inv

LEMMA NextInv == Inv /\ [Next]_vars => Inv'
<1> SUFFICES ASSUME Inv, [Next]_vars
             PROVE  Inv'
    OBVIOUS
<1>1. CASE PolicyStep /\ UNCHANGED req
      BY <1>1, PolicyChangeInv
<1>2. CASE ProcessExit
      BY <1>2, ProcessExitInv
<1>3. ASSUME NEW r \in Requests, RequestStep(r)
      PROVE  Inv'
      BY <1>3, ValidateSchemaInv, EvaluatePolicyInv, CheckJWTInv, RegisterDeviceInv,
         InitiateTransferInv, ExecutePrivateTransferInv DEF RequestStep
<1>4. ASSUME NEW r \in Requests, NEW i \in Inputs, Arrive(r, i)
      PROVE  Inv'
      BY <1>4, ArriveInv
<1>5. CASE UNCHANGED vars
  <2>1. UNCHANGED policyVars /\ UNCHANGED req
        BY <1>5 DEF vars
  <2>2. PolicyInv'
        BY <2>1, PolicyStutters DEF Inv
  <2>3. \A r \in Requests : Current(r)'
        BY <2>1 DEF Inv, RequestInv, Current, UnderWay, policyVars
  <2> QED
      BY <2>1, <2>2, <2>3, OtherRequest DEF Inv, PolicyInv, TypeOK
<1> QED
    BY <1>1, <1>2, <1>3, <1>4, <1>5 DEF Next

LEMMA Invariant == Spec => []Inv
BY Initially, NextInv, PTL DEF Spec

\* Every variable of the pipeline and of the evaluator keeps its type.
THEOREM TypeCorrect == Spec => []TypeOK
<1>1. Inv => TypeOK
      BY DEF Inv
<1> QED
    BY <1>1, Invariant, PTL

\* Whatever document is in force, and whether or not one is consulted: an effect
\* of a request is for the subject of a token that was verified, a transfer swapped
\* under a policy is for somebody and, from the limit on, has the scope if policy
\* and handler read one amount.  Of an attestation it only says that the other
\* platform's service did not make it; no signature of one is ever verified.
THEOREM EffectsAreVouchedFor == Spec => []EffectsVouchedFor
<1>1. Inv => EffectsVouchedFor
      BY DEF Inv, RequestInv, Verdict, EffectsVouchedFor
<1> QED
    BY <1>1, Invariant, PTL

\* Reloads, failed, overtaken or interrupted by an exit, never make a request
\* meet an older policy than the one in force when it came.
THEOREM PolicyNeverOlder == Spec => []NeverOlderPolicy
<1>1. Inv => NeverOlderPolicy
      BY DEF Inv, RequestInv, Verdict, NeverOlderPolicy
<1> QED
    BY <1>1, Invariant, PTL

\* The edge's internal token satisfies every policy with a rule for private
\* transfers.
THEOREM SwapsAreUnderstood == Spec => []SwapUnderstood
<1>1. Inv => SwapUnderstood
      BY DEF Inv, RequestInv, Verdict, SwapUnderstood
<1> QED
    BY <1>1, Invariant, PTL

\* Under any policy with both rules of policy.rego on amounts, a caller with the
\* high-value scope is not refused for an amount the policy can read.
THEOREM NoGapAtLimit == Spec => []LimitLeavesNoGap
<1>1. Inv => LimitLeavesNoGap
      BY DEF Inv, RequestInv, Verdict, LimitLeavesNoGap
<1> QED
    BY <1>1, Invariant, PTL

\* The schema check leaves the handlers and services nothing to refuse for its
\* form.
THEOREM FormIsDecidedFirst == Spec => []FormDecidedFirst
<1>1. Inv => FormDecidedFirst
  <2> SUFFICES ASSUME Inv, NEW r \in Requests
               PROVE  /\ req[r].status = 400 => ~SchemaValid(req[r].input)
                      /\ req[r].phase = "handler" /\ req[r].input.route = "transfer"
                            => ~InvalidTransfer(req[r].input.body)
      BY DEF FormDecidedFirst
  <2>1. req[r].status = 400 => ~SchemaValid(req[r].input)
        BY DEF Inv, RequestInv, Verdict
  <2>2. req[r].phase = "handler" /\ req[r].input.route = "transfer"
           => ~InvalidTransfer(req[r].input.body)
        BY AtHandler, SchemaSuffices
  <2> QED
      BY <2>1, <2>2
<1> QED
    BY <1>1, Invariant, PTL

\* Between two reloads the policy in force is the one in the file, unless a
\* change raised no event: no event is lost in the reload it falls into.
THEOREM NothingIsMissed == Spec => []NothingMissed
<1>1. Inv => NothingMissed
      BY DEF Inv, PolicyInv, InformedInv, NothingMissed, Settled
<1> QED
    BY <1>1, Invariant, PTL

=============================================================================
