------------------------------ MODULE Transfer ------------------------------
(* A money transfer from the device to the ledger.  A device registers its   *)
(* public key and signs orders.  The edge (POST /transfer/initiate) swaps    *)
(* the caller's session for a short-lived internal token and forwards the    *)
(* payload to the intranet (POST /private/transfers), which verifies the     *)
(* token, reads the caller's registered keys, checks the signature and       *)
(* writes the ledger.  The two sides only share the network between them: a  *)
(* request may be delayed, lost, altered or delivered again on the way, its  *)
(* answer may be lost, the edge gives up after its HTTP timeout while the    *)
(* intranet goes on, and keys are registered and deleted meanwhile.          *)
EXTENDS Integers, Sequences

CONSTANTS
    Users, Devices, KeyIDs, TxIDs,
    Characters,      \* of account names
    Orders,          \* what a payload asks for, see OrderType
    Submissions,     \* POST /transfer/initiate requests
    Deliveries,      \* POST /private/transfers requests, copies included
    TicksPerSecond,  \* resolution of the clock
    TokenTTL,        \* life of an internal token in seconds (60 in the code)
    ClientTimeout,   \* ticks the edge waits for the intranet (10 s in the code)
    Horizon,         \* bound of the clock
    None

\* A payload without its ID and signature; accounts are sequences of characters,
\* ts is in ticks.
OrderType(o) ==
    /\ DOMAIN o = {"sender", "receiver", "amount", "currency", "ts"}
    /\ o.sender \in Seq(Characters)
    /\ o.receiver \in Seq(Characters)
    /\ o.amount \in Int
    /\ o.ts \in Nat

ASSUME ConstantsAssumption ==
    /\ \A o \in Orders : OrderType(o)
    /\ TicksPerSecond \in Nat \ {0}
    /\ TokenTTL \in Nat
    /\ ClientTimeout \in Nat
    /\ Horizon \in Nat
    /\ None \notin Users
    /\ None \notin Submissions

VARIABLES
    now,         \* the clock, in ticks
    keys,        \* the table device_enclave_keys
    signed,      \* history: what every device has signed
    registered,  \* history: which device was ever registered by which user
    sub,         \* sub[t]: the edge's handler of submission t
    exec,        \* exec[x]: a request on its way to the intranet, and its handler
    ledger       \* entries of the core ledger, one for each execution

vars == <<now, keys, signed, registered, sub, exec, ledger>>

-----------------------------------------------------------------------------
(* Data.                                                                     *)

\* time.Time.Unix(): whole seconds, rounded down.
Unix(t) == t \div TicksPerSecond

\* Variant: the amount is left out of the signed bytes.
CanonicalWithoutAmount(o) ==
    o.sender \o <<":">> \o o.receiver \o <<":", o.currency, ":", Unix(o.ts)>>

\* The bytes that are signed: the fields joined by colons, the time in whole
\* seconds.  The ID of the payload is not among them.
CanonicalTransferBytes(o) ==
    o.sender \o <<":">> \o o.receiver \o
    <<":", o.amount, ":", o.currency, ":", Unix(o.ts)>>

Key == [id: KeyIDs, user: Users, device: Devices]

\* ECDSA over the canonical bytes, by the key of a device.
Signature(d, o) == [device |-> d, bytes |-> CanonicalTransferBytes(o)]
Signatures == {Signature(d, o) : d \in Devices, o \in Orders}

Payload == [id: TxIDs, order: Orders, sig: Signatures]

VerifyEnclaveSignature(d, p) == p.sig = Signature(d, p.order)

\* The parts of the transfer schema an order can break.
SchemaValid(p) == p.order.amount > 0

Token == [sub: Users, scopes: SUBSET {"transfer:execute"}, iat: Nat, exp: Nat]

GenerateInternalJWT(u, scopes) ==
    [sub |-> u, scopes |-> scopes, iat |-> Unix(now),
     exp |-> Unix(now + TokenTTL * TicksPerSecond)]

\* Variant: a leeway of one second.
JWTExpiredLate(token) == Unix(now) > token.exp + 1

\* The token is forwarded unaltered (HMAC), so only its expiry can fail.
JWTExpired(token) == Unix(now) > token.exp

EdgePhases == {"idle", "ready", "waiting", "done"}
ExecPhases == {"none", "wire", "keys", "verify", "done"}

\* 0: no answer yet, or nobody left to answer.
Statuses == {0, 200, 400, 500}
Replies == {0, 200, 400, 401, 403}

Submission == [phase: EdgePhases, user: Users \cup {None}, payload: Payload \cup {None},
               token: Token \cup {None}, swappedAt: Nat, deadline: Nat,
               status: Statuses]
Execution == [phase: ExecPhases, sub: Submissions \cup {None},
              payload: Payload \cup {None}, token: Token \cup {None},
              keys: SUBSET Devices, authAt: Nat, reply: Replies]
Entry == [delivery: Deliveries, sub: Submissions, user: Users, payload: Payload]

IdleSubmission == [phase |-> "idle", user |-> None, payload |-> None, token |-> None,
                   swappedAt |-> 0, deadline |-> 0, status |-> 0]
NoExecution == [phase |-> "none", sub |-> None, payload |-> None, token |-> None,
                keys |-> {}, authAt |-> 0, reply |-> 0]

Init ==
    /\ now = 0
    /\ keys = {}
    /\ signed = {}
    /\ registered = {}
    /\ sub = [t \in Submissions |-> IdleSubmission]
    /\ exec = [x \in Deliveries |-> NoExecution]
    /\ ledger = {}

-----------------------------------------------------------------------------
(* Devices and their keys.                                                   *)

\* INSERT: the primary key must be free.
SaveKey(key) ==
    /\ \A row \in keys : row.id # key.id
    /\ keys' = keys \cup {key}

\* POST /auth/register-device: attestation passes and the key is inserted.  A
\* failed attestation or a taken ID answers 403 and changes nothing.
RegisterDevice(u, k, d) ==
    /\ SaveKey([id |-> k, user |-> u, device |-> d])
    /\ registered' = registered \cup {<<u, d>>}
    /\ UNCHANGED <<now, signed, sub, exec, ledger>>

DeleteKey(k) ==
    /\ \E row \in keys : row.id = k
    /\ keys' = {row \in keys : row.id # k}
    /\ UNCHANGED <<now, signed, registered, sub, exec, ledger>>

\* Variant: the query is not restricted to the user.
AnyKeys(u) == {row.device : row \in keys}

GetKeysByUserID(u) == {row.device : row \in {row \in keys : row.user = u}}

\* Payloads somebody on the way can put together: any ID and order, and a
\* signature some device has made.
Composable(p) == \E s \in signed : p.sig = Signature(s[1], s[2])

-----------------------------------------------------------------------------
(* The edge.                                                                 *)

EdgeDone(t, status) == sub' = [sub EXCEPT ![t].phase = "done", ![t].status = status]

\* The payload a caller sends: the owner of device d has signed order o on it
\* (external), but what arrives need not be what was signed.
Submitted(p, d, o) ==
    /\ p.sig = Signature(d, o)
    /\ signed' = signed \cup {<<d, o>>}

\* The schema check, the service's own checks (which it implies) and the swap.
EdgeAccept(t, u, p, d, o) ==
    /\ sub[t].phase = "idle"
    /\ Submitted(p, d, o)
    /\ SchemaValid(p)
    /\ sub' = [sub EXCEPT ![t] =
                 [phase |-> "ready", user |-> u, payload |-> p,
                  token |-> GenerateInternalJWT(u, {"transfer:execute"}),
                  swappedAt |-> now, deadline |-> 0, status |-> 0]]
    /\ UNCHANGED <<now, keys, registered, exec, ledger>>

EdgeBadRequest(t, p, d, o) ==
    /\ sub[t].phase = "idle"
    /\ Submitted(p, d, o)
    /\ ~SchemaValid(p)
    /\ EdgeDone(t, 400)
    /\ UNCHANGED <<now, keys, registered, exec, ledger>>

\* The breaker is open, or no connection to the intranet.
EdgeRefuse(t) ==
    /\ sub[t].phase = "ready"
    /\ EdgeDone(t, 500)
    /\ UNCHANGED <<now, keys, signed, registered, exec, ledger>>

\* A request for submission t is on its way to the intranet.
OnTheWire(t, p, token) ==
    [NoExecution EXCEPT !.phase = "wire", !.sub = t, !.payload = p, !.token = token]

\* The bound leaves the timeout room to pass before the clock stops.
EdgeSend(t, x) ==
    /\ sub[t].phase = "ready"
    /\ exec[x].phase = "none"
    /\ now + ClientTimeout <= Horizon
    /\ sub' = [sub EXCEPT ![t].phase = "waiting", ![t].deadline = now + ClientTimeout]
    /\ exec' = [exec EXCEPT ![x] = OnTheWire(t, sub[t].payload, sub[t].token)]
    /\ UNCHANGED <<now, keys, signed, registered, ledger>>

\* Variant: only a transport error counts as a failure of the call.
EdgeStatusAnyAnswer(reply) == 200

\* Variant: the status of the intranet is passed on.
EdgeStatusPassedOn(reply) == reply

\* Any answer but 200 is an error of InitiateTransfer, and every error is a 500;
\* so are an open breaker, a lost connection and a timeout, for which the user
\* documentation (end_user_documentation.md:279) has a 503.
EdgeStatus(reply) == IF reply = 200 THEN 200 ELSE 500

EdgeReply(t, x) ==
    /\ sub[t].phase = "waiting"
    /\ exec[x].sub = t /\ exec[x].phase = "done" /\ exec[x].reply # 0
    /\ EdgeDone(t, EdgeStatus(exec[x].reply))
    /\ UNCHANGED <<now, keys, signed, registered, exec, ledger>>

\* Variant: an HTTP client without a timeout.
TimedOutNever(t) == FALSE

TimedOut(t) == now >= sub[t].deadline

EdgeTimeout(t) ==
    /\ sub[t].phase = "waiting"
    /\ TimedOut(t)
    /\ EdgeDone(t, 500)
    /\ UNCHANGED <<now, keys, signed, registered, exec, ledger>>

\* The connection breaks, with the answer perhaps already on it.
EdgeDisconnect(t) ==
    /\ sub[t].phase = "waiting"
    /\ EdgeDone(t, 500)
    /\ UNCHANGED <<now, keys, signed, registered, exec, ledger>>

\* The caller goes away or the edge dies.
EdgeAbandon(t) ==
    /\ sub[t].phase \in {"ready", "waiting"}
    /\ EdgeDone(t, 0)
    /\ UNCHANGED <<now, keys, signed, registered, exec, ledger>>

-----------------------------------------------------------------------------
(* The network and the intranet.                                             *)

ExecDone(x, reply) == exec' = [exec EXCEPT ![x].phase = "done", ![x].reply = reply]

\* The body changes on the way; the token is protected by its HMAC.
Alter(x, p) ==
    /\ exec[x].phase = "wire"
    /\ Composable(p)
    /\ p # exec[x].payload
    /\ exec' = [exec EXCEPT ![x].payload = p]
    /\ UNCHANGED <<now, keys, signed, registered, sub, ledger>>

\* A request that was sent is delivered again, at once or later (external): the
\* intranet keeps no record of the requests it has seen.
Duplicate(x, y) ==
    /\ exec[x].phase # "none"
    /\ exec[y].phase = "none"
    /\ exec' = [exec EXCEPT ![y] = OnTheWire(exec[x].sub, exec[x].payload, exec[x].token)]
    /\ UNCHANGED <<now, keys, signed, registered, sub, ledger>>

\* The request is lost, or the intranet dies while it works on it.
ExecLost(x) ==
    /\ exec[x].phase \in {"wire", "keys", "verify"}
    /\ ExecDone(x, 0)
    /\ UNCHANGED <<now, keys, signed, registered, sub, ledger>>

\* The schema check of the private route, its policy (which may refuse any
\* request), the token and its scope.
ExecAuthorize(x) ==
    /\ exec[x].phase = "wire"
    /\ \/ ~SchemaValid(exec[x].payload) /\ ExecDone(x, 400)
       \/ SchemaValid(exec[x].payload) /\ ExecDone(x, 403)
       \/ /\ SchemaValid(exec[x].payload)
          /\ JWTExpired(exec[x].token) \/ "transfer:execute" \notin exec[x].token.scopes
          /\ ExecDone(x, 401)
       \/ /\ SchemaValid(exec[x].payload)
          /\ ~JWTExpired(exec[x].token)
          /\ "transfer:execute" \in exec[x].token.scopes
          /\ exec' = [exec EXCEPT ![x].phase = "keys", ![x].authAt = now]
    /\ UNCHANGED <<now, keys, signed, registered, sub, ledger>>

\* The keys of the token's subject are read; none, or a database error, is a 401.
ExecGetKeys(x) ==
    /\ exec[x].phase = "keys"
    /\ LET found == GetKeysByUserID(exec[x].token.sub) IN
       \/ found # {} /\ exec' = [exec EXCEPT ![x].phase = "verify", ![x].keys = found]
       \/ ExecDone(x, 401)
    /\ UNCHANGED <<now, keys, signed, registered, sub, ledger>>

\* One of the keys read verifies the signature: the ledger entry, and a 200.
ExecTransfer(x) ==
    /\ exec[x].phase = "verify"
    /\ \E d \in exec[x].keys : VerifyEnclaveSignature(d, exec[x].payload)
    /\ ledger' = ledger \cup {[delivery |-> x, sub |-> exec[x].sub,
                               user |-> exec[x].token.sub, payload |-> exec[x].payload]}
    /\ ExecDone(x, 200)
    /\ UNCHANGED <<now, keys, signed, registered, sub>>

ExecReject(x) ==
    /\ exec[x].phase = "verify"
    /\ \A d \in exec[x].keys : ~VerifyEnclaveSignature(d, exec[x].payload)
    /\ ExecDone(x, 401)
    /\ UNCHANGED <<now, keys, signed, registered, sub, ledger>>

Tick ==
    /\ now < Horizon
    /\ now' = now + 1
    /\ UNCHANGED <<keys, signed, registered, sub, exec, ledger>>

-----------------------------------------------------------------------------
EdgeStep(t) ==
    \/ EdgeRefuse(t)
    \/ \E x \in Deliveries : EdgeSend(t, x)
    \/ \E x \in Deliveries : EdgeReply(t, x)
    \/ EdgeTimeout(t)

ExecStep(x) ==
    \/ ExecAuthorize(x)
    \/ ExecGetKeys(x)
    \/ ExecTransfer(x)
    \/ ExecReject(x)

Environment ==
    \/ \E u \in Users, k \in KeyIDs, d \in Devices : RegisterDevice(u, k, d)
    \/ \E k \in KeyIDs : DeleteKey(k)
    \/ \E t \in Submissions, p \in Payload, d \in Devices, o \in Orders :
          EdgeBadRequest(t, p, d, o) \/ \E u \in Users : EdgeAccept(t, u, p, d, o)
    \/ \E t \in Submissions : EdgeDisconnect(t)
    \/ \E t \in Submissions : EdgeAbandon(t)
    \/ \E x \in Deliveries, p \in Payload : Alter(x, p)
    \/ \E x, y \in Deliveries : Duplicate(x, y)
    \/ \E x \in Deliveries : ExecLost(x)

Next ==
    \/ Environment
    \/ \E t \in Submissions : EdgeStep(t)
    \/ \E x \in Deliveries : ExecStep(x)
    \/ Tick

Spec == Init /\ [][Next]_vars

(* The edge's handler runs to its end (the HTTP client has a timeout) and    *)
(* time passes; nothing is assumed of the network or of the intranet.        *)
Fairness == WF_vars(Tick) /\ \A t \in Submissions : WF_vars(EdgeStep(t))

FairSpec == Spec /\ Fairness

-----------------------------------------------------------------------------
(* Properties.                                                               *)

\* Every variable stays in the domain the code's types give it.
TypeOK ==
    /\ now \in Nat
    /\ keys \in SUBSET Key
    /\ signed \in SUBSET (Devices \X Orders)
    /\ registered \in SUBSET (Users \X Devices)
    /\ sub \in [Submissions -> Submission]
    /\ exec \in [Deliveries -> Execution]
    /\ ledger \in SUBSET Entry

\* Device d signed order o, and e executes what was signed.
Authorises(d, o, e) ==
    /\ <<d, o>> \in signed
    /\ <<e.user, d>> \in registered
    /\ CanonicalTransferBytes(o) = CanonicalTransferBytes(e.payload.order)

\* Non-repudiation: every ledger entry carries bytes that some device signed
\* which the user of the entry had registered, whatever happened to the payload
\* on the way and to the key table meanwhile.
LedgerAuthorised ==
    \A e \in ledger : \E d \in Devices, o \in Orders : Authorises(d, o, e)

\* Neither account holds the character that separates the fields.
PlainAccounts(o) ==
    \A account \in {o.sender, o.receiver} : \A k \in DOMAIN account : account[k] # ":"

\* What is executed is what was signed: amount, currency and second of an entry
\* are those of an order a device of its user signed.  The two accounts are as
\* signed when joined, and each of them is when the signed ones hold no colon,
\* which the schema does not ask for.
LedgerAsSigned ==
    \A e \in ledger : \E s \in signed :
       LET order == s[2]
           done == e.payload.order
       IN  /\ <<e.user, s[1]>> \in registered
           /\ order.amount = done.amount
           /\ order.currency = done.currency
           /\ Unix(order.ts) = Unix(done.ts)
           /\ order.sender \o <<":">> \o order.receiver = done.sender \o <<":">> \o done.receiver
           /\ PlainAccounts(order) =>
                 order.sender = done.sender /\ order.receiver = done.receiver

\* A 200 at the edge is never premature: the intranet has written an entry for
\* this submission, on behalf of the caller the edge authenticated.
SuccessMeansExecuted ==
    \A t \in Submissions :
       sub[t].status = 200 => \E e \in ledger : e.sub = t /\ e.user = sub[t].user

\* The intranet has accepted the token of request x.
Authorized(x) == exec[x].phase \in {"keys", "verify"} \/ exec[x].reply = 200

\* An internal token is never accepted a full second or more after its life has
\* ended, on whichever copy of a request it arrives: rounding to seconds at both
\* ends costs less than one second in all.  Nothing else keeps a request that is
\* delivered again from being executed again.
TokenWindow ==
    \A x \in Deliveries :
       Authorized(x) =>
          exec[x].authAt - sub[exec[x].sub].swappedAt < (TokenTTL + 1) * TicksPerSecond

\* Every accepted submission is answered or abandoned, even if the intranet
\* never answers.
EdgeAnswers == \A t \in Submissions : sub[t].phase = "ready" ~> sub[t].phase = "done"

(* What the documents say and the code does not do.                          *)

\* "Intranet transaction execution failed" is what the API says a 500 of
\* /transfer/initiate means; the edge also answers 500 when the transfer was
\* executed and only its answer was late or lost.
FailureMeansNotExecuted ==
    \A t \in Submissions : sub[t].status = 500 => \A e \in ledger : e.sub # t

=============================================================================
