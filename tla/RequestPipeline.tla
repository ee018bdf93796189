-------------------------- MODULE RequestPipeline ---------------------------
(* A request on its way through EdgeRoutes or PrivateRoutes: schema, policy  *)
(* (if one was given to WithOPAMiddleware), the caller's JWT, the handler    *)
(* and the checks of the service.  The policy reads claims nobody has        *)
(* verified yet and a body it decodes in its own way; it asks the evaluator  *)
(* of module PolicyReload, whose document changes while requests are under   *)
(* way.  What follows the last check is module Transfer.                     *)
EXTENDS Integers, PolicyReload

CONSTANTS
    Requests,  \* request slots
    Inputs,    \* the requests callers send
    Users,
    Rules,     \* Rules[d]: the allow rules of document d
    Limit      \* cents from which a transfer is of high value

Routes == {"register", "transfer", "private"}
RuleNames == {"register", "standard", "high_value", "private"}
Scopes == {"transfer:high_value", "transfer:execute"}

\* The subject of a token without one.
NoSubject == ""

ScopeClaim == {None} \cup SUBSET Scopes

\* A scope claim is a string of words or a list; None: the claim is absent.
Claims == [sub: Users \cup {NoSubject},
           scope: ScopeClaim, scopes: ScopeClaim, permissions: ScopeClaim]

\* The Authorization header.  signer is whoever made the token: the identity
\* provider for this API, the edge's token swap, or anybody else; claims is None
\* if the token is not made of three parts that can be decoded.
Header == [scheme: {"none", "Bearer", "bearer"}, signer: {"idp", "edge", "other"},
           expired: BOOLEAN, claims: Claims \cup {None}]

\* A device attestation.  A JWS has a maker, one of the platforms' services or
\* nobody of them, and says what it likes of the claims the platforms define.
Attestation == [form: {"empty", "compromised", "mock", "unknown", "undecodable", "jws"},
                issuer: {"google", "apple", "nobody"},
                integrity: BOOLEAN, rejected: BOOLEAN, appId: BOOLEAN]

Fields == {"id", "public_key_pem", "algorithm", "sender_account",
           "receiver_account", "currency", "timestamp", "signature"}

\* empty, wrong: the fields without a value, or with one the schema refuses.
\* A body has two amounts.  amount: what schema and handler decode into a struct,
\* whose fields take keys in any case, the last one winning.  policyAmount: what
\* the policy's map has under the key amount_cents itself; None: no such key (a
\* null is below every number in Rego, as 0 is below Limit).
Body == [malformed: BOOLEAN, empty: SUBSET Fields, wrong: SUBSET Fields,
         amount: Int, policyAmount: Int \cup {None},
         platform: {"ios", "android", "other", "empty"}, attestation: Attestation]

\* policed: the handler that serves the route was given a policy middleware.
Input == [route: Routes, policed: BOOLEAN, method: {"POST", "GET"}, header: Header,
          body: Body]

ASSUME PipelineAssumption ==
    /\ None \notin Inputs
    /\ None \notin Claims
    /\ \A S \in SUBSET Scopes : S # None
    /\ NoSubject \notin Users
    /\ Rules \in [Valid -> SUBSET RuleNames]
    /\ Limit \in Nat

\* The edge's swap is the only maker of tokens with its secret, and the services
\* of the platforms put no claims of each other into an attestation.
ASSUME InputAssumption ==
    \A i \in Inputs :
       /\ i \in Input
       /\ i.header.signer = "edge" =>
             /\ i.header.claims \in Claims
             /\ i.header.claims.sub # NoSubject
             /\ i.header.claims.scope = None
             /\ i.header.claims.scopes = {"transfer:execute"}
       /\ i.body.attestation.issuer = "google" => ~i.body.attestation.appId
       /\ i.body.attestation.issuer = "apple" => ~i.body.attestation.integrity

VARIABLE
    req   \* req[r]: the request in slot r

vars == <<policyVars, req>>

-----------------------------------------------------------------------------
Phases == {"idle", "schema", "policy", "jwt", "handler", "done"}
Effects == {"none", "registered", "swapped", "authorised"}
Statuses == {0, 200, 400, 401, 403, 405, 500}

\* since: the edit in force when the request came; decided: the content the
\* policy decided it by; user: the caller the handler acts for; effect: what
\* all checks together let the request do.
Request == [phase: Phases, input: Inputs \cup {None}, since: Nat,
            decided: Content \cup {None}, user: Users \cup {NoSubject},
            effect: Effects, status: Statuses]

IdleRequest == [phase |-> "idle", input |-> None, since |-> 0, decided |-> None,
                user |-> NoSubject, effect |-> "none", status |-> 0]

Init == PolicyInit /\ req = [r \in Requests |-> IdleRequest]

Answer(r, status) ==
    req' = [req EXCEPT ![r].phase = "done", ![r].status = status]

Perform(r, user, effect, status) ==
    req' = [req EXCEPT ![r].phase = "done", ![r].user = user, ![r].effect = effect,
                       ![r].status = status]

\* Requests come once the process is up.
Arrive(r, i) ==
    /\ req[r].phase = "idle"
    /\ active # None
    /\ req' = [req EXCEPT ![r] = [IdleRequest EXCEPT !.phase = "schema", !.input = i,
                                                     !.since = active.edit]]
    /\ UNCHANGED policyVars

-----------------------------------------------------------------------------
(* SchemaValidationMiddleware.                                               *)

\* Variant: accounts and amounts are not checked.
SchemaValidWithoutAccounts(i) ==
    i.method = "POST" =>
       /\ ~i.body.malformed
       /\ IF i.route = "register"
          THEN /\ {"id", "public_key_pem", "algorithm"} \cap (i.body.empty \cup i.body.wrong) = {}
               /\ i.body.platform \in {"ios", "android"}
               /\ i.body.attestation.form # "empty"
          ELSE {"id", "currency", "timestamp", "signature"}
                  \cap (i.body.empty \cup i.body.wrong) = {}

\* Requests that are no POST are not looked at.
SchemaValid(i) ==
    i.method = "POST" =>
       /\ ~i.body.malformed
       /\ IF i.route = "register"
          THEN /\ {"id", "public_key_pem", "algorithm"} \cap (i.body.empty \cup i.body.wrong) = {}
               /\ i.body.platform \in {"ios", "android"}
               /\ i.body.attestation.form # "empty"
          ELSE /\ {"id", "sender_account", "receiver_account", "currency", "timestamp",
                   "signature"} \cap (i.body.empty \cup i.body.wrong) = {}
               /\ i.body.amount > 0

\* Only the edge routes have the JWT middleware.
AfterPolicy(i) == IF i.route = "private" THEN "handler" ELSE "jwt"

AfterSchema(i) == IF i.policed THEN "policy" ELSE AfterPolicy(i)

ValidateSchema(r) ==
    /\ req[r].phase = "schema"
    /\ \/ /\ SchemaValid(req[r].input)
          /\ req' = [req EXCEPT ![r].phase = AfterSchema(req[r].input)]
       \/ /\ ~SchemaValid(req[r].input)
          /\ Answer(r, 400)
    /\ UNCHANGED policyVars

-----------------------------------------------------------------------------
(* PolicyMiddleware and policies/policy.rego.                                *)

extractJWTClaims(h) == IF h.scheme = "Bearer" THEN h.claims ELSE None

Subject(claims) == IF claims = None THEN NoSubject ELSE claims.sub

\* Variant: only the claims of the identity provider are looked at.
ScopesOfIdP(claims) ==
    IF claims = None THEN {}
    ELSE IF claims.scope # None THEN claims.scope
    ELSE IF claims.permissions # None THEN claims.permissions
    ELSE {}

\* The first of the three claims that is there is the one that counts.
ScopesOf(claims) ==
    IF claims = None THEN {}
    ELSE IF claims.scope # None THEN claims.scope
    ELSE IF claims.scopes # None THEN claims.scopes
    ELSE IF claims.permissions # None THEN claims.permissions
    ELSE {}

\* Variants: the limit itself still counts as a standard amount, and the amount
\* below it no longer does.
UnderLimitInclusive(amount) == amount <= Limit
UnderLimitShort(amount) == amount < Limit - 1

amount_cents_under_limit(amount) == amount < Limit

\* The bodies of the allow rules; without an amount neither rule on amounts holds.
Holds(rule, i) ==
    LET claims == extractJWTClaims(i.header)
        amount == i.body.policyAmount
    IN  \/ rule = "register" /\ i.route = "register"
        \/ /\ rule = "standard" /\ i.route = "transfer" /\ i.method = "POST"
           /\ Subject(claims) # NoSubject
           /\ amount # None /\ amount_cents_under_limit(amount)
        \/ /\ rule = "high_value" /\ i.route = "transfer" /\ i.method = "POST"
           /\ Subject(claims) # NoSubject
           /\ amount # None /\ amount >= Limit
           /\ "transfer:high_value" \in ScopesOf(claims)
        \/ /\ rule = "private" /\ i.route = "private" /\ i.method = "POST"
           /\ "transfer:execute" \in ScopesOf(claims)

\* default allow = false.
Allow(doc, i) == \E rule \in Rules[doc] : Holds(rule, i)

\* Variant: an evaluation that failed is a 503.
PolicyErrorUnavailable == 503

PolicyError == 500

\* Evaluate takes the prepared query under the read lock and evaluates it; the
\* evaluation may fail (a cancelled context).
EvaluatePolicy(r) ==
    /\ req[r].phase = "policy"
    /\ LET i == req[r].input
           allowed == Allow(active.doc, i)
       IN  \/ /\ allowed
              /\ req' = [req EXCEPT ![r].decided = active, ![r].phase = AfterPolicy(i)]
           \/ /\ ~allowed
              /\ req' = [req EXCEPT ![r].decided = active, ![r].phase = "done",
                                    ![r].status = 403]
           \/ Answer(r, PolicyError)
    /\ UNCHANGED policyVars

-----------------------------------------------------------------------------
(* JWTMiddleware, on the edge routes only.  No route takes anything but POST. *)

\* Variant: the signature is not checked.
JWTValidUnsigned(h) ==
    /\ h.scheme \in {"Bearer", "bearer"}
    /\ h.claims # None
    /\ ~h.expired

\* RS256 under the keys of the identity provider, its issuer and this audience.
JWTValid(h) ==
    /\ h.scheme \in {"Bearer", "bearer"}
    /\ h.claims # None
    /\ h.signer = "idp"
    /\ ~h.expired

CheckJWT(r) ==
    /\ req[r].phase = "jwt"
    /\ LET i == req[r].input
       IN  \/ i.method # "POST" /\ Answer(r, 405)
           \/ i.method = "POST" /\ ~JWTValid(i.header) /\ Answer(r, 401)
           \/ /\ i.method = "POST" /\ JWTValid(i.header)
              /\ req' = [req EXCEPT ![r].phase = "handler"]
    /\ UNCHANGED policyVars

-----------------------------------------------------------------------------
(* The handlers and the checks of BankingService.                            *)

\* Variant: only the verdicts are looked at.
VerifyAttestationVerdictOnly(platform, a) ==
    /\ platform \in {"ios", "android"}
    /\ \/ a.form = "mock"
       \/ /\ a.form = "jws"
          /\ IF platform = "android" THEN ~a.rejected ELSE a.appId

\* A JWS is decoded and read with the claims of the platform the caller names;
\* its signature is not looked at.
VerifyAttestation(platform, a) ==
    /\ platform \in {"ios", "android"}
    /\ \/ a.form = "mock"
       \/ /\ a.form = "jws"
          /\ IF platform = "android" THEN a.integrity /\ ~a.rejected ELSE a.appId

\* The handler's own list of required parameters.
MissingParameters(b) ==
    \/ {"id", "public_key_pem", "algorithm"} \cap b.empty # {}
    \/ b.platform = "empty"
    \/ b.attestation.form = "empty"

\* Attestation, then the insert, which may fail: both are a 403.
RegisterDevice(r) ==
    /\ req[r].phase = "handler" /\ req[r].input.route = "register"
    /\ LET b == req[r].input.body
           user == Subject(req[r].input.header.claims)
           badRequest == b.malformed \/ MissingParameters(b)
           accepted == ~badRequest /\ VerifyAttestation(b.platform, b.attestation)
       IN  \/ ~accepted /\ Answer(r, IF badRequest THEN 400 ELSE 403)
           \/ accepted /\ Perform(r, user, "registered", 200)
           \/ accepted /\ Answer(r, 403)
    /\ UNCHANGED policyVars

\* The service's own validation of a payload.
InvalidTransfer(b) ==
    \/ b.amount <= 0
    \/ {"sender_account", "receiver_account"} \cap b.empty # {}

\* The swap, and whatever comes of the call to the intranet (module Transfer).
InitiateTransfer(r) ==
    /\ req[r].phase = "handler" /\ req[r].input.route = "transfer"
    /\ LET b == req[r].input.body
           user == Subject(req[r].input.header.claims)
           effect == IF b.malformed \/ InvalidTransfer(b) THEN "none" ELSE "swapped"
       IN  \/ effect = "swapped" /\ Perform(r, user, effect, 200)
           \/ Perform(r, user, effect, IF b.malformed THEN 400 ELSE 500)
    /\ UNCHANGED policyVars

\* The internal token carries its scopes in the claim "scopes".
VerifyInternalJWT(h) == h.claims # None /\ h.signer = "edge" /\ ~h.expired

\* A request that is no POST only gets as far as the route if no policy refused it.
ExecutePrivateTransfer(r) ==
    /\ req[r].phase = "handler" /\ req[r].input.route = "private"
    /\ LET h == req[r].input.header
           post == req[r].input.method = "POST"
           malformed == h.scheme = "Bearer" /\ req[r].input.body.malformed
           authorised == /\ h.scheme = "Bearer" /\ ~malformed
                         /\ VerifyInternalJWT(h)
                         /\ h.claims.scopes # None /\ "transfer:execute" \in h.claims.scopes
       IN  \/ ~post /\ Answer(r, 405)
           \/ post /\ ~authorised /\ Answer(r, IF malformed THEN 400 ELSE 401)
           \/ /\ post /\ authorised
              /\ \E status \in {200, 401} : Perform(r, h.claims.sub, "authorised", status)
    /\ UNCHANGED policyVars

\* The process ends with all its requests.
ProcessExit ==
    /\ Exit
    /\ req' = [r \in Requests |->
                 IF req[r].phase \in {"idle", "done"} THEN req[r]
                 ELSE [req[r] EXCEPT !.phase = "done"]]

RequestStep(r) ==
    \/ ValidateSchema(r)
    \/ EvaluatePolicy(r)
    \/ CheckJWT(r)
    \/ RegisterDevice(r)
    \/ InitiateTransfer(r)
    \/ ExecutePrivateTransfer(r)

Next ==
    \/ PolicyStep /\ UNCHANGED req
    \/ ProcessExit
    \/ \E r \in Requests : RequestStep(r) \/ \E i \in Inputs : Arrive(r, i)

Spec == Init /\ [][Next]_vars

(* The goroutine of the watcher keeps running.                               *)
FairSpec == Spec /\ WF_vars(LoopStep /\ UNCHANGED req)

-----------------------------------------------------------------------------
(* Properties.                                                               *)

\* Every variable stays in the domain the code's types give it.
TypeOK == PolicyTypeOK /\ req \in [Requests -> Request]

\* Whose token the effect of request r rests on.
VouchedFor(r) ==
    LET h == req[r].input.header
        b == req[r].input.body
    IN  /\ req[r].effect \in {"registered", "swapped"} =>
              h.signer = "idp" /\ ~h.expired /\ req[r].user = h.claims.sub
        /\ req[r].effect = "swapped" /\ req[r].input.policed =>
              /\ req[r].user # NoSubject
              /\ b.amount >= Limit /\ b.policyAmount = b.amount =>
                    "transfer:high_value" \in ScopesOf(h.claims)
        /\ req[r].effect = "authorised" =>
              h.signer = "edge" /\ ~h.expired /\ req[r].user = h.claims.sub
        /\ req[r].effect = "registered" /\ b.attestation.form = "jws" =>
              b.attestation.issuer # IF b.platform = "ios" THEN "google" ELSE "apple"

\* The policy decides on claims nobody has verified, and a later check verifies
\* them: whatever is carried out was done for the subject of a genuine token, a
\* private transfer with a token of the edge, and, under a policy, a transfer
\* never for nobody and one of high value, if the policy read the amount the
\* handler did, with the high-value scope in that token.  A device is never
\* registered with the attestation the other platform's service makes.
EffectsVouchedFor == \A r \in Requests : VouchedFor(r)

\* No request is decided by an older policy than the one in force when it came:
\* a reload, failed or overtaken, never brings an earlier document back.
NeverOlderPolicy ==
    \A r \in Requests : req[r].decided # None => req[r].decided.edit >= req[r].since

\* The policy refused a private request that carries a token of the edge.
SwapRefused(r) ==
    /\ req[r].decided # None /\ req[r].status = 403
    /\ req[r].input.route = "private" /\ req[r].input.method = "POST"
    /\ req[r].input.header.signer = "edge" /\ req[r].input.header.scheme = "Bearer"

\* What the swap makes, the policy of the intranet understands: a private
\* request with a token of the edge is only refused by a policy that has no rule
\* for private transfers.
SwapUnderstood ==
    \A r \in Requests : SwapRefused(r) => "private" \notin Rules[req[r].decided.doc]

\* The policy refused a transfer of a caller who may make one of any amount.
AmountRefused(r) ==
    LET i == req[r].input
    IN  /\ req[r].decided # None /\ req[r].status = 403
        /\ i.route = "transfer" /\ i.method = "POST" /\ i.header.scheme = "Bearer"
        /\ Subject(i.header.claims) # NoSubject
        /\ "transfer:high_value" \in ScopesOf(i.header.claims)
        /\ i.body.policyAmount # None

\* The two rules on amounts leave no gap between them: a caller with the
\* high-value scope is refused only under a policy that lacks one of the two, or
\* for a body without an amount the policy can read.
LimitLeavesNoGap ==
    \A r \in Requests :
       AmountRefused(r) => ~({"standard", "high_value"} \subseteq Rules[req[r].decided.doc])

\* The schema refuses all that handlers and services would refuse for its form,
\* with or without a policy in between: what the schema passes is never a 400,
\* and nothing a service calls invalid arrives.
FormDecidedFirst ==
    \A r \in Requests :
       /\ req[r].status = 400 => ~SchemaValid(req[r].input)
       /\ req[r].phase = "handler" /\ req[r].input.route = "transfer"
             => ~InvalidTransfer(req[r].input.body)

-----------------------------------------------------------------------------
(* What the documents say and the code does not do.                          *)

\* policies/policy.rego:22, "Edge high-value transfer (>= $10,000) requires a
\* specific high-value scope": whatever the keys of the body look like.
HighValueScoped ==
    \A r \in Requests :
       LET i == req[r].input
       IN  req[r].effect = "swapped" /\ i.policed /\ i.body.amount >= Limit
              => "transfer:high_value" \in ScopesOf(i.header.claims)

=============================================================================
