--------------------------- MODULE TransferProofs ---------------------------
(* Proofs about Transfer for any number of users, devices, keys, orders and  *)
(* submissions, any copies of their requests, every resolution of the clock  *)
(* and every token life.                                                     *)
EXTENDS Transfer, SequenceTheorems, TLAPS

-----------------------------------------------------------------------------
(* Time.                                                                     *)

\* Whole seconds: Unix rounds down, by less than a second.
LEMMA UnixBounds ==
    ASSUME NEW a \in Nat
    PROVE  /\ Unix(a) \in Nat
           /\ Unix(a) * TicksPerSecond <= a
           /\ a < Unix(a) * TicksPerSecond + TicksPerSecond
<1> DEFINE n == TicksPerSecond
<1>1. n \in Nat /\ n > 0
      BY ConstantsAssumption
<1> QED
    BY <1>1 DEF Unix

\* A time whose whole second is not past that of m seconds after b is less than
\* m + 1 seconds after b.
LEMMA UnixWindow ==
    ASSUME NEW a \in Nat, NEW b \in Nat, NEW m \in Nat,
           Unix(a) <= Unix(b + m * TicksPerSecond)
    PROVE  a - b < (m + 1) * TicksPerSecond
<1> DEFINE n == TicksPerSecond
           c == b + m * n
<1>1. n \in Nat /\ n > 0 /\ m * n \in Nat /\ c \in Nat
      BY ConstantsAssumption
<1>2. a < Unix(a) * n + n
      BY UnixBounds
<1>3. Unix(a) * n <= Unix(c) * n
      BY <1>1, UnixBounds
<1>4. Unix(c) * n <= c
      BY <1>1, UnixBounds
<1>5. (m + 1) * n = m * n + n
      BY <1>1
<1>6. Unix(a) * n \in Nat /\ Unix(c) * n \in Nat
      BY <1>1, UnixBounds
<1> QED
    BY <1>1, <1>2, <1>3, <1>4, <1>5, <1>6

\* The token of a swap is well typed.
LEMMA TokenType ==
    ASSUME NEW u \in Users, now \in Nat
    PROVE  GenerateInternalJWT(u, {"transfer:execute"}) \in Token
<1>1. TokenTTL * TicksPerSecond \in Nat
      BY ConstantsAssumption
<1>2. Unix(now) \in Nat /\ Unix(now + TokenTTL * TicksPerSecond) \in Nat
      BY <1>1, UnixBounds
<1> QED
    BY <1>2 DEF GenerateInternalJWT, Token

-----------------------------------------------------------------------------
(* Type correctness: a handler past its first step has its payload and token.*)

PhaseInv ==
    /\ \A t \in Submissions :
          sub[t].phase \in {"ready", "waiting"} =>
             /\ sub[t].user \in Users
             /\ sub[t].payload \in Payload
             /\ sub[t].token \in Token
    /\ \A x \in Deliveries :
          exec[x].phase # "none" =>
             /\ exec[x].sub \in Submissions
             /\ exec[x].payload \in Payload
             /\ exec[x].token \in Token

TypeInv == TypeOK /\ PhaseInv

LEMMA TypeInit == Init => TypeInv
BY ConstantsAssumption DEF Init, TypeInv, TypeOK, PhaseInv, IdleSubmission, NoExecution,
     Submission, EdgePhases, Execution, ExecPhases, Statuses, Replies

\* The edge answers: nothing of the submission but its phase and status changes.
LEMMA EdgeDoneFrame ==
    ASSUME TypeInv, NEW t \in Submissions, NEW st \in Statuses, EdgeDone(t, st)
    PROVE  /\ sub' \in [Submissions -> Submission]
           /\ \A q \in Submissions : q # t => sub'[q] = sub[q]
           /\ sub'[t].phase = "done" /\ sub'[t].status = st
           /\ sub'[t].user = sub[t].user /\ sub'[t].payload = sub[t].payload
           /\ sub'[t].token = sub[t].token /\ sub'[t].swappedAt = sub[t].swappedAt
<1>1. sub[t] \in Submission /\ sub \in [Submissions -> Submission]
      BY DEF TypeInv, TypeOK
<1>2. sub' = [sub EXCEPT ![t] = [sub[t] EXCEPT !.phase = "done", !.status = st]]
      BY <1>1 DEF EdgeDone
<1> DEFINE new == [sub[t] EXCEPT !.phase = "done", !.status = st]
<1>3. /\ new \in Submission
      /\ new.phase = "done" /\ new.status = st
      /\ new.user = sub[t].user /\ new.payload = sub[t].payload
      /\ new.token = sub[t].token /\ new.swappedAt = sub[t].swappedAt
      BY <1>1 DEF Submission, EdgePhases
<1>4. sub' = [sub EXCEPT ![t] = new]
      BY <1>2 DEF new
<1> HIDE DEF new
<1> QED
    BY <1>1, <1>3, <1>4

\* The intranet answers: nothing of the request but its phase and reply changes.
LEMMA ExecDoneFrame ==
    ASSUME TypeInv, NEW x \in Deliveries, NEW rp \in Replies, ExecDone(x, rp)
    PROVE  /\ exec' \in [Deliveries -> Execution]
           /\ \A y \in Deliveries : y # x => exec'[y] = exec[y]
           /\ exec'[x].phase = "done" /\ exec'[x].reply = rp
           /\ exec'[x].payload = exec[x].payload /\ exec'[x].token = exec[x].token
           /\ exec'[x].sub = exec[x].sub
           /\ exec'[x].keys = exec[x].keys /\ exec'[x].authAt = exec[x].authAt
<1>1. exec[x] \in Execution /\ exec \in [Deliveries -> Execution]
      BY DEF TypeInv, TypeOK
<1>2. exec' = [exec EXCEPT ![x] = [exec[x] EXCEPT !.phase = "done", !.reply = rp]]
      BY <1>1 DEF ExecDone
<1> DEFINE new == [exec[x] EXCEPT !.phase = "done", !.reply = rp]
<1>3. /\ new \in Execution
      /\ new.phase = "done" /\ new.reply = rp
      /\ new.payload = exec[x].payload /\ new.token = exec[x].token
      /\ new.sub = exec[x].sub
      /\ new.keys = exec[x].keys /\ new.authAt = exec[x].authAt
      BY <1>1 DEF Execution, ExecPhases
<1>4. exec' = [exec EXCEPT ![x] = new]
      BY <1>2 DEF new
<1> HIDE DEF new
<1> QED
    BY <1>1, <1>3, <1>4

\* A request on the wire is well typed.
LEMMA WireType ==
    ASSUME NEW t \in Submissions, NEW p \in Payload, NEW token \in Token
    PROVE  /\ OnTheWire(t, p, token) \in Execution
           /\ OnTheWire(t, p, token).phase = "wire" /\ OnTheWire(t, p, token).reply = 0
           /\ OnTheWire(t, p, token).sub = t
           /\ OnTheWire(t, p, token).payload = p /\ OnTheWire(t, p, token).token = token
BY DEF OnTheWire, Execution, ExecPhases, Replies, NoExecution

\* The edge waits for the intranet.
LEMMA EdgeSendFrame ==
    ASSUME TypeInv, NEW t \in Submissions, NEW x \in Deliveries, EdgeSend(t, x)
    PROVE  /\ sub' \in [Submissions -> Submission]
           /\ \A q \in Submissions : q # t => sub'[q] = sub[q]
           /\ sub'[t].phase = "waiting" /\ sub'[t].status = sub[t].status
           /\ sub'[t].user = sub[t].user /\ sub'[t].payload = sub[t].payload
           /\ sub'[t].token = sub[t].token /\ sub'[t].swappedAt = sub[t].swappedAt
           /\ exec' \in [Deliveries -> Execution]
           /\ \A y \in Deliveries : y # x => exec'[y] = exec[y]
           /\ exec'[x].phase = "wire" /\ exec'[x].reply = 0 /\ exec'[x].sub = t
           /\ exec'[x].payload = sub[t].payload /\ exec'[x].token = sub[t].token
<1>1. sub[t] \in Submission /\ sub \in [Submissions -> Submission]
      BY DEF TypeInv, TypeOK
<1>2. sub' = [sub EXCEPT ![t] = [sub[t] EXCEPT !.phase = "waiting",
                                               !.deadline = now + ClientTimeout]]
      BY <1>1 DEF EdgeSend
<1> DEFINE new == [sub[t] EXCEPT !.phase = "waiting", !.deadline = now + ClientTimeout]
<1>3. now + ClientTimeout \in Nat
      BY ConstantsAssumption DEF TypeInv, TypeOK
<1>4. /\ new \in Submission
      /\ new.phase = "waiting" /\ new.status = sub[t].status
      /\ new.user = sub[t].user /\ new.payload = sub[t].payload
      /\ new.token = sub[t].token /\ new.swappedAt = sub[t].swappedAt
      BY <1>1, <1>3 DEF Submission, EdgePhases
<1>5. sub' = [sub EXCEPT ![t] = new]
      BY <1>2
<1> HIDE DEF new
<1> DEFINE request == OnTheWire(t, sub[t].payload, sub[t].token)
<1>6. /\ request \in Execution
      /\ request.phase = "wire" /\ request.reply = 0 /\ request.sub = t
      /\ request.payload = sub[t].payload /\ request.token = sub[t].token
  <2>1. sub[t].payload \in Payload /\ sub[t].token \in Token
        BY DEF EdgeSend, TypeInv, PhaseInv
  <2> QED
      BY <2>1, WireType
<1>7. exec' = [exec EXCEPT ![x] = request] /\ exec \in [Deliveries -> Execution]
      BY DEF EdgeSend, TypeInv, TypeOK
<1> HIDE DEF request
<1>8. /\ exec' \in [Deliveries -> Execution]
      /\ \A y \in Deliveries : y # x => exec'[y] = exec[y]
      /\ exec'[x].phase = "wire" /\ exec'[x].reply = 0 /\ exec'[x].sub = t
      /\ exec'[x].payload = sub[t].payload /\ exec'[x].token = sub[t].token
      BY <1>6, <1>7
<1> QED
    BY <1>1, <1>4, <1>5, <1>8

\* A request is delivered again.
LEMMA DuplicateFrame ==
    ASSUME TypeInv, NEW x \in Deliveries, NEW y \in Deliveries, Duplicate(x, y)
    PROVE  /\ exec' \in [Deliveries -> Execution]
           /\ \A z \in Deliveries : z # y => exec'[z] = exec[z]
           /\ exec'[y].phase = "wire" /\ exec'[y].reply = 0 /\ exec'[y].sub = exec[x].sub
           /\ exec'[y].payload = exec[x].payload /\ exec'[y].token = exec[x].token
<1> DEFINE request == OnTheWire(exec[x].sub, exec[x].payload, exec[x].token)
<1>1. /\ request \in Execution
      /\ request.phase = "wire" /\ request.reply = 0 /\ request.sub = exec[x].sub
      /\ request.payload = exec[x].payload /\ request.token = exec[x].token
  <2>1. exec[x].sub \in Submissions /\ exec[x].payload \in Payload /\ exec[x].token \in Token
        BY DEF Duplicate, TypeInv, PhaseInv
  <2> QED
      BY <2>1, WireType
<1>2. exec' = [exec EXCEPT ![y] = request] /\ exec \in [Deliveries -> Execution]
      BY DEF Duplicate, TypeInv, TypeOK
<1> HIDE DEF request
<1> QED
    BY <1>1, <1>2

\* The intranet accepts the token.
LEMMA AuthorizedFrame ==
    ASSUME TypeInv, NEW x \in Deliveries, 
           exec' = [exec EXCEPT ![x].phase = "keys", ![x].authAt = now]
    PROVE  /\ exec' \in [Deliveries -> Execution]
           /\ \A y \in Deliveries : y # x => exec'[y] = exec[y]
           /\ exec'[x].phase = "keys" /\ exec'[x].reply = exec[x].reply
           /\ exec'[x].payload = exec[x].payload /\ exec'[x].token = exec[x].token
           /\ exec'[x].sub = exec[x].sub
           /\ exec'[x].authAt = now
<1>1. exec[x] \in Execution /\ exec \in [Deliveries -> Execution] /\ now \in Nat
      BY DEF TypeInv, TypeOK
<1>2. exec' = [exec EXCEPT ![x] = [exec[x] EXCEPT !.phase = "keys", !.authAt = now]]
      BY <1>1
<1> DEFINE new == [exec[x] EXCEPT !.phase = "keys", !.authAt = now]
<1>3. /\ new \in Execution
      /\ new.phase = "keys" /\ new.reply = exec[x].reply
      /\ new.payload = exec[x].payload /\ new.token = exec[x].token
      /\ new.sub = exec[x].sub
      /\ new.authAt = now
      BY <1>1 DEF Execution, ExecPhases
<1>4. exec' = [exec EXCEPT ![x] = new]
      BY <1>2 DEF new
<1> HIDE DEF new
<1> QED
    BY <1>1, <1>3, <1>4

\* The intranet has read the keys of the caller.
LEMMA KeysReadFrame ==
    ASSUME TypeInv, NEW x \in Deliveries, NEW ks \in SUBSET Devices,
           exec' = [exec EXCEPT ![x].phase = "verify", ![x].keys = ks]
    PROVE  /\ exec' \in [Deliveries -> Execution]
           /\ \A y \in Deliveries : y # x => exec'[y] = exec[y]
           /\ exec'[x].phase = "verify" /\ exec'[x].reply = exec[x].reply
           /\ exec'[x].payload = exec[x].payload /\ exec'[x].token = exec[x].token
           /\ exec'[x].sub = exec[x].sub
           /\ exec'[x].authAt = exec[x].authAt /\ exec'[x].keys = ks
<1>1. exec[x] \in Execution /\ exec \in [Deliveries -> Execution] /\ now \in Nat
      BY DEF TypeInv, TypeOK
<1>2. exec' = [exec EXCEPT ![x] = [exec[x] EXCEPT !.phase = "verify", !.keys = ks]]
      BY <1>1
<1> DEFINE new == [exec[x] EXCEPT !.phase = "verify", !.keys = ks]
<1>3. /\ new \in Execution
      /\ new.phase = "verify" /\ new.reply = exec[x].reply
      /\ new.payload = exec[x].payload /\ new.token = exec[x].token
      /\ new.sub = exec[x].sub
      /\ new.authAt = exec[x].authAt /\ new.keys = ks
      BY <1>1 DEF Execution, ExecPhases
<1>4. exec' = [exec EXCEPT ![x] = new]
      BY <1>2 DEF new
<1> HIDE DEF new
<1> QED
    BY <1>1, <1>3, <1>4

\* The payload changes on the way.
LEMMA AlterFrame ==
    ASSUME TypeInv, NEW x \in Deliveries, NEW p \in Payload,
           exec' = [exec EXCEPT ![x].payload = p]
    PROVE  /\ exec' \in [Deliveries -> Execution]
           /\ \A y \in Deliveries : y # x => exec'[y] = exec[y]
           /\ exec'[x].phase = exec[x].phase /\ exec'[x].reply = exec[x].reply
           /\ exec'[x].payload = p /\ exec'[x].token = exec[x].token
           /\ exec'[x].sub = exec[x].sub
           /\ exec'[x].authAt = exec[x].authAt /\ exec'[x].keys = exec[x].keys
<1>1. exec[x] \in Execution /\ exec \in [Deliveries -> Execution] /\ now \in Nat
      BY DEF TypeInv, TypeOK
<1>2. exec' = [exec EXCEPT ![x] = [exec[x] EXCEPT !.payload = p]]
      BY <1>1
<1> DEFINE new == [exec[x] EXCEPT !.payload = p]
<1>3. /\ new \in Execution
      /\ new.phase = exec[x].phase /\ new.reply = exec[x].reply
      /\ new.payload = p /\ new.token = exec[x].token
      /\ new.sub = exec[x].sub
      /\ new.authAt = exec[x].authAt /\ new.keys = exec[x].keys
      BY <1>1 DEF Execution
<1>4. exec' = [exec EXCEPT ![x] = new]
      BY <1>2 DEF new
<1> HIDE DEF new
<1> QED
    BY <1>1, <1>3, <1>4

LEMMA KeysType ==
    ASSUME TypeInv, NEW u \in Users
    PROVE  GetKeysByUserID(u) \in SUBSET Devices
BY DEF TypeInv, TypeOK, Key, GetKeysByUserID

LEMMA TypeStep == TypeInv /\ [Next]_vars => TypeInv'
<1> SUFFICES ASSUME TypeInv, [Next]_vars
             PROVE  TypeInv'
    OBVIOUS
<1>1. ASSUME NEW u \in Users, NEW k \in KeyIDs, NEW d \in Devices, RegisterDevice(u, k, d)
      PROVE  TypeInv'
      BY <1>1 DEF TypeInv, TypeOK, PhaseInv, RegisterDevice, SaveKey, Key
<1>2. ASSUME NEW k \in KeyIDs, DeleteKey(k)
      PROVE  TypeInv'
      BY <1>2 DEF TypeInv, TypeOK, PhaseInv, DeleteKey
<1>3. ASSUME NEW t \in Submissions, NEW u \in Users, NEW p \in Payload, NEW d \in Devices,
             NEW o \in Orders, EdgeAccept(t, u, p, d, o)
      PROVE  TypeInv'
  <2> DEFINE token == GenerateInternalJWT(u, {"transfer:execute"})
             new == [phase |-> "ready", user |-> u, payload |-> p, token |-> token,
                     swappedAt |-> now, deadline |-> 0, status |-> 0]
  <2>1. token \in Token
        BY TokenType DEF TypeInv, TypeOK
  <2> HIDE DEF token
  <2>2. new \in Submission
        BY <2>1 DEF TypeInv, TypeOK, Submission, EdgePhases, Statuses
  <2>3. sub' = [sub EXCEPT ![t] = new]
        BY <1>3 DEF EdgeAccept, token
  <2>4. /\ signed' = signed \cup {<<d, o>>}
        /\ UNCHANGED <<now, keys, registered, exec, ledger>>
        BY <1>3 DEF EdgeAccept, Submitted
  <2>5. TypeOK'
    <3> HIDE DEF new
    <3> QED
        BY <2>2, <2>3, <2>4 DEF TypeInv, TypeOK
  <2> QED
      BY <2>1, <2>3, <2>4, <2>5 DEF TypeInv, TypeOK, PhaseInv
<1>4. ASSUME NEW t \in Submissions, NEW st \in Statuses, EdgeDone(t, st),
             UNCHANGED <<now, keys, registered, exec, ledger>>,
             signed' \in SUBSET (Devices \X Orders)
      PROVE  TypeInv'
      BY <1>4, EdgeDoneFrame DEF TypeInv, TypeOK, PhaseInv
<1>5. ASSUME NEW t \in Submissions, NEW p \in Payload, NEW d \in Devices, NEW o \in Orders,
             EdgeBadRequest(t, p, d, o)
      PROVE  TypeInv'
      BY <1>4, <1>5 DEF EdgeBadRequest, Submitted, Statuses, TypeInv, TypeOK
<1>6. ASSUME NEW t \in Submissions,
             \/ EdgeRefuse(t) \/ \E x \in Deliveries : EdgeReply(t, x)
             \/ EdgeTimeout(t) \/ EdgeDisconnect(t) \/ EdgeAbandon(t)
      PROVE  TypeInv'
  <2>1. \E st \in Statuses : EdgeDone(t, st)
        BY <1>6 DEF EdgeRefuse, EdgeReply, EdgeTimeout, EdgeDisconnect, EdgeAbandon, EdgeStatus,
           Statuses
  <2>2. UNCHANGED <<now, keys, signed, registered, exec, ledger>>
        BY <1>6 DEF EdgeRefuse, EdgeReply, EdgeTimeout, EdgeDisconnect, EdgeAbandon
  <2> QED
      BY <1>4, <2>1, <2>2 DEF TypeInv, TypeOK
<1>7. ASSUME NEW t \in Submissions, NEW x \in Deliveries, EdgeSend(t, x)
      PROVE  TypeInv'
  <2>1. /\ UNCHANGED <<now, keys, signed, registered, ledger>>
        /\ sub[t].phase = "ready"
        BY <1>7 DEF EdgeSend
  <2>2. /\ sub[t].user \in Users /\ sub[t].payload \in Payload /\ sub[t].token \in Token
        BY <2>1 DEF TypeInv, PhaseInv
  <2>3. TypeOK'
        BY <1>7, <2>1, EdgeSendFrame DEF TypeInv, TypeOK
  <2>4. PhaseInv'
        BY <1>7, <2>2, EdgeSendFrame DEF TypeInv, PhaseInv
  <2> QED
      BY <2>3, <2>4 DEF TypeInv
<1>8. ASSUME NEW x \in Deliveries, NEW p \in Payload, Alter(x, p)
      PROVE  TypeInv'
  <2>1. /\ exec' \in [Deliveries -> Execution]
        /\ \A y \in Deliveries : y # x => exec'[y] = exec[y]
        /\ exec'[x].phase = exec[x].phase /\ exec'[x].payload = p
        /\ exec'[x].token = exec[x].token /\ exec'[x].sub = exec[x].sub
        BY <1>8, AlterFrame DEF Alter
  <2>2. UNCHANGED <<now, keys, signed, registered, sub, ledger>>
        BY <1>8 DEF Alter
  <2> QED
      BY <2>1, <2>2 DEF TypeInv, TypeOK, PhaseInv
<1>9. ASSUME NEW x \in Deliveries, NEW rp \in Replies, ExecDone(x, rp), exec[x].phase # "none",
             UNCHANGED <<now, keys, signed, registered, sub>>, ledger' \in SUBSET Entry
      PROVE  TypeInv'
      BY <1>9, ExecDoneFrame DEF TypeInv, TypeOK, PhaseInv
<1>10. ASSUME NEW x \in Deliveries, ExecLost(x) \/ ExecReject(x)
       PROVE  TypeInv'
       BY <1>9, <1>10 DEF ExecLost, ExecReject, Replies, TypeInv, TypeOK
<1>11. ASSUME NEW x \in Deliveries, ExecTransfer(x)
       PROVE  TypeInv'
  <2>1. ledger' \in SUBSET Entry
        BY <1>11 DEF ExecTransfer, TypeInv, TypeOK, PhaseInv, Entry, Token
  <2> QED
      BY <1>9, <1>11, <2>1 DEF ExecTransfer, Replies
<1>12. ASSUME NEW x \in Deliveries, ExecAuthorize(x)
       PROVE  TypeInv'
  <2>1. CASE \E rp \in {400, 401, 403} : ExecDone(x, rp)
        BY <1>9, <1>12, <2>1 DEF ExecAuthorize, Replies, TypeInv, TypeOK
  <2>2. CASE exec' = [exec EXCEPT ![x].phase = "keys", ![x].authAt = now]
    <3>1. /\ exec' \in [Deliveries -> Execution]
          /\ \A y \in Deliveries : y # x => exec'[y] = exec[y]
          /\ exec'[x].sub = exec[x].sub /\ exec'[x].payload = exec[x].payload
          /\ exec'[x].token = exec[x].token
          BY <2>2, AuthorizedFrame
    <3>2. UNCHANGED <<now, keys, signed, registered, sub, ledger>> /\ exec[x].phase # "none"
          BY <1>12 DEF ExecAuthorize
    <3> QED
        BY <3>1, <3>2 DEF TypeInv, TypeOK, PhaseInv
  <2> QED
      BY <1>12, <2>1, <2>2 DEF ExecAuthorize
<1>13. ASSUME NEW x \in Deliveries, ExecGetKeys(x)
       PROVE  TypeInv'
  <2> DEFINE found == GetKeysByUserID(exec[x].token.sub)
  <2>1. found \in SUBSET Devices
        BY <1>13, KeysType DEF ExecGetKeys, TypeInv, PhaseInv, Token
  <2> HIDE DEF found
  <2>2. CASE ExecDone(x, 401)
        BY <1>9, <1>13, <2>2 DEF ExecGetKeys, Replies, TypeInv, TypeOK
  <2>3. CASE exec' = [exec EXCEPT ![x].phase = "verify", ![x].keys = found]
    <3>1. /\ exec' \in [Deliveries -> Execution]
          /\ \A y \in Deliveries : y # x => exec'[y] = exec[y]
          /\ exec'[x].sub = exec[x].sub /\ exec'[x].payload = exec[x].payload
          /\ exec'[x].token = exec[x].token
          BY <2>1, <2>3, KeysReadFrame
    <3>2. UNCHANGED <<now, keys, signed, registered, sub, ledger>> /\ exec[x].phase # "none"
          BY <1>13 DEF ExecGetKeys
    <3> QED
        BY <3>1, <3>2 DEF TypeInv, TypeOK, PhaseInv
  <2> QED
      BY <1>13, <2>2, <2>3 DEF ExecGetKeys, found
<1>16. ASSUME NEW x \in Deliveries, NEW y \in Deliveries, Duplicate(x, y)
       PROVE  TypeInv'
  <2>1. UNCHANGED <<now, keys, signed, registered, sub, ledger>> /\ exec[x].phase # "none"
        BY <1>16 DEF Duplicate
  <2> QED
      BY <1>16, <2>1, DuplicateFrame DEF TypeInv, TypeOK, PhaseInv
<1>14. ASSUME Tick
       PROVE  TypeInv'
       BY <1>14 DEF Tick, TypeInv, TypeOK, PhaseInv
<1>15. ASSUME UNCHANGED vars
       PROVE  TypeInv'
       BY <1>15 DEF vars, TypeInv, TypeOK, PhaseInv
<1> QED
    BY <1>1, <1>2, <1>3, <1>5, <1>6, <1>7, <1>8, <1>10, <1>11, <1>12, <1>13, <1>14, <1>15,
       <1>16 DEF Next, Environment, EdgeStep, ExecStep

LEMMA TypeInvariant == Spec => []TypeInv
BY TypeInit, TypeStep, PTL DEF Spec

\* Every variable of the transfer path keeps its type in every behaviour.
THEOREM TypeCorrect == Spec => []TypeOK
<1>1. TypeInv => TypeOK
      BY DEF TypeInv
<1> QED
    BY <1>1, TypeInvariant, PTL

-----------------------------------------------------------------------------
(* The inductive invariant: what each handler holds is what it claims to be. *)

\* The table only has keys that were registered.
KeysInv == \A row \in keys : <<row.user, row.device>> \in registered

\* The ledger has an entry of submission t for its caller.
Executed(t) == \E e \in ledger : e.sub = t /\ e.user = sub[t].user

\* The token of submission t names its caller and ends with its life.
TokenInv(t) ==
    /\ sub[t].token.sub = sub[t].user
    /\ sub[t].token.exp = Unix(sub[t].swappedAt + TokenTTL * TicksPerSecond)

\* The edge forwards a token it made and a payload with a genuine signature.
EdgeInv(t) ==
    /\ sub[t].phase \in {"ready", "waiting"} => TokenInv(t) /\ Composable(sub[t].payload)
    /\ sub[t].status = 200 => Executed(t)

\* The submission has been sent, or has ended.
Gone(t) == sub[t].phase \in {"waiting", "done"}

\* The intranet works with the token of a submission that was sent, on a payload
\* with a genuine signature and with keys the token's subject registered.
ExecInv(x) ==
    /\ exec[x].phase # "none" =>
          /\ Gone(exec[x].sub)
          /\ exec[x].token = sub[exec[x].sub].token
          /\ TokenInv(exec[x].sub)
          /\ Composable(exec[x].payload)
    /\ exec[x].phase # "done" => exec[x].reply = 0
    /\ exec[x].phase = "verify" =>
          \A d \in exec[x].keys : <<exec[x].token.sub, d>> \in registered
    /\ exec[x].reply = 200 => Executed(exec[x].sub)
    /\ Authorized(x) => Unix(exec[x].authAt) <= exec[x].token.exp

Inv ==
    /\ TypeInv
    /\ KeysInv
    /\ LedgerAuthorised
    /\ \A t \in Submissions : EdgeInv(t)
    /\ \A x \in Deliveries : ExecInv(x)

\* Nothing is ever unsigned, unregistered or taken off the ledger.
Grows == signed \subseteq signed' /\ registered \subseteq registered' /\ ledger \subseteq ledger'

\* What the intranet relies on of a submission that was sent stays as it is.
Kept(t) ==
    Gone(t) => /\ Gone(t)'
               /\ sub'[t].user = sub[t].user
               /\ sub'[t].token = sub[t].token
               /\ sub'[t].swappedAt = sub[t].swappedAt

\* A handler of the edge that does not move keeps its invariant while the
\* histories grow.
LEMMA EdgeStays ==
    ASSUME NEW t \in Submissions, EdgeInv(t), Grows, sub'[t] = sub[t]
    PROVE  EdgeInv(t)' /\ Kept(t)
<1>1. Executed(t) => Executed(t)'
      BY DEF Executed, Grows
<1>2. \A p : Composable(p) => Composable(p)'
      BY DEF Composable, Grows
<1>3. TokenInv(t) => TokenInv(t)'
      BY DEF TokenInv
<1> QED
    BY <1>1, <1>2, <1>3 DEF EdgeInv, Kept, Gone

\* What holds of a submission that was sent holds after a step that keeps it.
LEMMA KeptFacts ==
    ASSUME NEW t \in Submissions, Gone(t), Kept(t), Grows
    PROVE  /\ Gone(t)' /\ sub'[t].token = sub[t].token
           /\ TokenInv(t) => TokenInv(t)'
           /\ Executed(t) => Executed(t)'
<1>1. /\ Gone(t)' /\ sub'[t].user = sub[t].user /\ sub'[t].token = sub[t].token
      /\ sub'[t].swappedAt = sub[t].swappedAt
      BY DEF Kept
<1>2. TokenInv(t) => TokenInv(t)'
      BY <1>1 DEF TokenInv
<1>3. Executed(t) => Executed(t)'
      BY <1>1 DEF Executed, Grows
<1> QED
    BY <1>1, <1>2, <1>3

\* A request that does not move keeps its invariant.
LEMMA ExecStays ==
    ASSUME TypeInv, NEW x \in Deliveries, ExecInv(x), Grows, exec'[x] = exec[x],
           \A t \in Submissions : Kept(t)
    PROVE  ExecInv(x)'
<1>1. CASE exec[x].phase = "none"
      BY <1>1 DEF ExecInv, Authorized
<1>2. CASE exec[x].phase # "none"
  <2>1. exec[x].sub \in Submissions
        BY <1>2 DEF TypeInv, PhaseInv
  <2> DEFINE t == exec[x].sub
  <2>2. Gone(t) /\ Kept(t)
        BY <1>2, <2>1 DEF ExecInv
  <2>3. /\ Gone(t)' /\ sub'[t].token = sub[t].token
        /\ TokenInv(t) => TokenInv(t)'
        /\ Executed(t) => Executed(t)'
        BY <2>1, <2>2, KeptFacts
  <2>4. \A p : Composable(p) => Composable(p)'
        BY DEF Composable, Grows
  <2>5. Authorized(x)' => Authorized(x)
        BY DEF Authorized
  <2> QED
      BY <1>2, <2>3, <2>4, <2>5 DEF ExecInv, Grows
<1> QED
    BY <1>1, <1>2

\* An entry stays authorised.
LEMMA LedgerStays ==
    ASSUME LedgerAuthorised, Grows, ledger' = ledger
    PROVE  LedgerAuthorised'
BY DEF LedgerAuthorised, Authorises, Grows

\* A step of the edge's handler of submission t.
LEMMA EdgeMoves ==
    ASSUME Inv, TypeInv', NEW t \in Submissions, Grows,
           UNCHANGED <<keys, registered, exec, ledger>>,
           \A q \in Submissions : q # t => sub'[q] = sub[q],
           EdgeInv(t)', Kept(t)
    PROVE  Inv'
<1>1. \A q \in Submissions : EdgeInv(q)' /\ Kept(q)
      BY EdgeStays DEF Inv
<1>2. \A x \in Deliveries : ExecInv(x)'
      BY <1>1, ExecStays DEF Inv
<1>3. LedgerAuthorised'
      BY LedgerStays DEF Inv
<1> QED
    BY <1>1, <1>2, <1>3 DEF Inv, KeysInv

\* A step of the intranet on request x, or of the network, that writes neither
\* key nor ledger.
LEMMA ExecMoves ==
    ASSUME Inv, TypeInv', NEW x \in Deliveries,
           UNCHANGED <<keys, signed, registered, sub, ledger>>,
           \A y \in Deliveries : y # x => exec'[y] = exec[y],
           ExecInv(x)'
    PROVE  Inv'
<1>1. Grows
      BY DEF Grows
<1>2. \A q \in Submissions : EdgeInv(q)' /\ Kept(q)
      BY <1>1, EdgeStays DEF Inv
<1>3. \A y \in Deliveries : ExecInv(y)'
      BY <1>1, <1>2, ExecStays DEF Inv
<1>4. LedgerAuthorised'
      BY <1>1, LedgerStays DEF Inv
<1> QED
    BY <1>2, <1>3, <1>4 DEF Inv, KeysInv

\* The edge answers with anything but 200, or with the 200 of the intranet.
LEMMA EdgeDoneInv ==
    ASSUME Inv, TypeInv', NEW t \in Submissions, NEW st \in Statuses, EdgeDone(t, st),
           Grows, UNCHANGED <<keys, registered, exec, ledger>>,
           st = 200 => Executed(t)
    PROVE  Inv'
<1>1. /\ \A q \in Submissions : q # t => sub'[q] = sub[q]
      /\ sub'[t].phase = "done" /\ sub'[t].status = st
      /\ sub'[t].user = sub[t].user
      /\ sub'[t].token = sub[t].token /\ sub'[t].swappedAt = sub[t].swappedAt
      BY EdgeDoneFrame DEF Inv
<1>2. Executed(t) => Executed(t)'
      BY <1>1 DEF Executed
<1>3. EdgeInv(t)'
      BY <1>1, <1>2 DEF EdgeInv
<1>4. Kept(t)
      BY <1>1 DEF Kept, Gone
<1> QED
    BY <1>1, <1>3, <1>4, EdgeMoves

\* The intranet answers anything but 200.
LEMMA ExecDoneInv ==
    ASSUME Inv, TypeInv', NEW x \in Deliveries, NEW rp \in Replies, ExecDone(x, rp), rp # 200,
           exec[x].phase # "none",
           UNCHANGED <<keys, signed, registered, sub, ledger>>
    PROVE  Inv'
<1>1. /\ \A y \in Deliveries : y # x => exec'[y] = exec[y]
      /\ exec'[x].phase = "done" /\ exec'[x].reply = rp
      /\ exec'[x].token = exec[x].token /\ exec'[x].sub = exec[x].sub
      /\ exec'[x].payload = exec[x].payload
      BY ExecDoneFrame DEF Inv
<1>2. ExecInv(x)'
  <2>1. ~Authorized(x)'
        BY <1>1 DEF Authorized
  <2>2. Gone(exec[x].sub)' /\ TokenInv(exec[x].sub)' /\ Composable(exec[x].payload)'
        BY <1>1 DEF Inv, ExecInv, Gone, TokenInv, Composable
  <2>3. exec[x].token = sub[exec[x].sub].token
        BY DEF Inv, ExecInv
  <2> QED
      BY <1>1, <2>1, <2>2, <2>3 DEF ExecInv
<1> QED
    BY <1>1, <1>2, ExecMoves

LEMMA InvInit == Init => Inv
<1> SUFFICES ASSUME Init PROVE Inv
    OBVIOUS
<1>1. TypeInv
      BY TypeInit
<1>2. /\ \A t \in Submissions : sub[t] = IdleSubmission
      /\ \A x \in Deliveries : exec[x] = NoExecution
      BY DEF Init
<1>3. /\ \A t \in Submissions : EdgeInv(t)
      /\ \A x \in Deliveries : ExecInv(x)
      BY <1>2 DEF EdgeInv, ExecInv, Authorized, IdleSubmission, NoExecution
<1> QED
    BY <1>1, <1>3 DEF Init, Inv, KeysInv, LedgerAuthorised

\* Keys come and go; the handlers hold copies of what they have read.
LEMMA KeyTableInv ==
    ASSUME Inv, TypeInv',
           \/ \E u \in Users, k \in KeyIDs, d \in Devices : RegisterDevice(u, k, d)
           \/ \E k \in KeyIDs : DeleteKey(k)
    PROVE  Inv'
<1>1. Grows /\ UNCHANGED <<sub, exec, ledger>>
      BY DEF RegisterDevice, SaveKey, DeleteKey, Grows
<1>2. KeysInv'
  <2>1. ASSUME NEW u \in Users, NEW k \in KeyIDs, NEW d \in Devices, RegisterDevice(u, k, d)
        PROVE  KeysInv'
    <3> DEFINE new == [id |-> k, user |-> u, device |-> d]
    <3>1. new.user = u /\ new.device = d
          OBVIOUS
    <3>2. keys' = keys \cup {new} /\ registered' = registered \cup {<<u, d>>}
          BY <2>1 DEF RegisterDevice, SaveKey
    <3> HIDE DEF new
    <3> SUFFICES ASSUME NEW row \in keys'
                 PROVE  <<row.user, row.device>> \in registered'
        BY DEF KeysInv
    <3>3. CASE row \in keys
          BY <3>2, <3>3 DEF Inv, KeysInv
    <3>4. CASE row = new
          BY <3>1, <3>2, <3>4
    <3> QED
        BY <3>2, <3>3, <3>4
  <2>2. ASSUME NEW k \in KeyIDs, DeleteKey(k)
        PROVE  KeysInv'
        BY <2>2 DEF DeleteKey, Inv, KeysInv
  <2> QED
      BY <2>1, <2>2
<1>3. \A t \in Submissions : EdgeInv(t)' /\ Kept(t)
      BY <1>1, EdgeStays DEF Inv
<1>4. \A x \in Deliveries : ExecInv(x)'
      BY <1>1, <1>3, ExecStays DEF Inv
<1>5. LedgerAuthorised'
      BY <1>1, LedgerStays DEF Inv
<1> QED
    BY <1>2, <1>3, <1>4, <1>5 DEF Inv

\* The swap makes a token for the caller, from the time of the swap.
LEMMA EdgeAcceptInv ==
    ASSUME Inv, TypeInv', NEW t \in Submissions, NEW u \in Users, NEW p \in Payload,
           NEW d \in Devices, NEW o \in Orders, EdgeAccept(t, u, p, d, o)
    PROVE  Inv'
<1> DEFINE token == GenerateInternalJWT(u, {"transfer:execute"})
<1>1. /\ sub'[t] = [phase |-> "ready", user |-> u, payload |-> p, token |-> token,
                    swappedAt |-> now, deadline |-> 0, status |-> 0]
      /\ \A q \in Submissions : q # t => sub'[q] = sub[q]
      /\ sub[t].phase = "idle"
      /\ p.sig = Signature(d, o) /\ signed' = signed \cup {<<d, o>>}
      /\ UNCHANGED <<now, keys, registered, exec, ledger>>
      BY DEF EdgeAccept, Submitted, Inv, TypeInv, TypeOK
<1>2. /\ token.sub = u
      /\ token.exp = Unix(now + TokenTTL * TicksPerSecond)
      BY DEF GenerateInternalJWT
<1> HIDE DEF token
<1>3. TokenInv(t)'
      BY <1>1, <1>2 DEF TokenInv, Unix
<1>4. Composable(p)'
  <2>1. <<d, o>> \in signed' /\ p.sig = Signature(<<d, o>>[1], <<d, o>>[2])
        BY <1>1
  <2> QED
      BY <2>1 DEF Composable
<1>5. EdgeInv(t)'
      BY <1>1, <1>3, <1>4 DEF EdgeInv
<1>6. Kept(t)
      BY <1>1 DEF Kept, Gone
<1>7. Grows
      BY <1>1 DEF Grows
<1> QED
    BY <1>1, <1>5, <1>6, <1>7, EdgeMoves

LEMMA EdgeSendInv ==
    ASSUME Inv, TypeInv', NEW t \in Submissions, NEW x \in Deliveries, EdgeSend(t, x)
    PROVE  Inv'
<1>1. /\ \A q \in Submissions : q # t => sub'[q] = sub[q]
      /\ \A y \in Deliveries : y # x => exec'[y] = exec[y]
      /\ sub'[t].phase = "waiting" /\ sub'[t].status = sub[t].status
      /\ sub'[t].user = sub[t].user /\ sub'[t].payload = sub[t].payload
      /\ sub'[t].token = sub[t].token /\ sub'[t].swappedAt = sub[t].swappedAt
      /\ exec'[x].phase = "wire" /\ exec'[x].reply = 0 /\ exec'[x].sub = t
      /\ exec'[x].payload = sub[t].payload /\ exec'[x].token = sub[t].token
      BY EdgeSendFrame DEF Inv
<1>2. sub[t].phase = "ready" /\ UNCHANGED <<now, keys, signed, registered, ledger>>
      BY DEF EdgeSend
<1>3. TokenInv(t) /\ Composable(sub[t].payload) /\ (sub[t].status = 200 => Executed(t))
      BY <1>2 DEF Inv, EdgeInv
<1>4. TokenInv(t)' /\ (sub[t].status = 200 => Executed(t)')
      BY <1>1, <1>2, <1>3 DEF TokenInv, Executed
<1>5. Composable(sub[t].payload)' /\ Composable(exec[x].payload)'
      BY <1>1, <1>2, <1>3 DEF Composable
<1>6. EdgeInv(t)' /\ Kept(t) /\ Gone(t)'
      BY <1>1, <1>2, <1>4, <1>5 DEF EdgeInv, Kept, Gone
<1>7. ExecInv(x)'
      BY <1>1, <1>4, <1>5, <1>6 DEF ExecInv, Authorized
<1>8. Grows
      BY <1>2 DEF Grows
<1>9. \A q \in Submissions : EdgeInv(q)' /\ Kept(q)
      BY <1>1, <1>6, <1>8, EdgeStays DEF Inv
<1>10. \A y \in Deliveries : ExecInv(y)'
       BY <1>1, <1>7, <1>8, <1>9, ExecStays DEF Inv
<1>11. LedgerAuthorised'
       BY <1>2, <1>8, LedgerStays DEF Inv
<1> QED
    BY <1>2, <1>9, <1>10, <1>11 DEF Inv, KeysInv

LEMMA AlterInv ==
    ASSUME Inv, TypeInv', NEW x \in Deliveries, NEW p \in Payload, Alter(x, p)
    PROVE  Inv'
<1>1. /\ \A y \in Deliveries : y # x => exec'[y] = exec[y]
      /\ exec'[x].phase = exec[x].phase /\ exec'[x].reply = exec[x].reply
      /\ exec'[x].payload = p /\ exec'[x].token = exec[x].token
      /\ exec'[x].sub = exec[x].sub
      BY AlterFrame DEF Inv, Alter
<1>2. /\ exec[x].phase = "wire" /\ Composable(p)
      /\ UNCHANGED <<now, keys, signed, registered, sub, ledger>>
      BY DEF Alter
<1>3. Composable(p)' /\ Gone(exec[x].sub)' /\ TokenInv(exec[x].sub)'
      BY <1>1, <1>2 DEF Inv, ExecInv, Composable, Gone, TokenInv
<1>4. exec[x].token = sub[exec[x].sub].token /\ exec[x].reply = 0
      BY <1>2 DEF Inv, ExecInv
<1>5. ExecInv(x)'
      BY <1>1, <1>2, <1>3, <1>4 DEF ExecInv, Authorized
<1> QED
    BY <1>1, <1>2, <1>5, ExecMoves

\* A copy of a request is a request with the token of the same submission.
LEMMA DuplicateInv ==
    ASSUME Inv, TypeInv', NEW x \in Deliveries, NEW y \in Deliveries, Duplicate(x, y)
    PROVE  Inv'
<1>1. /\ \A z \in Deliveries : z # y => exec'[z] = exec[z]
      /\ exec'[y].phase = "wire" /\ exec'[y].reply = 0 /\ exec'[y].sub = exec[x].sub
      /\ exec'[y].payload = exec[x].payload /\ exec'[y].token = exec[x].token
      BY DuplicateFrame DEF Inv
<1>2. /\ exec[x].phase # "none"
      /\ UNCHANGED <<now, keys, signed, registered, sub, ledger>>
      BY DEF Duplicate
<1>3. Composable(exec[x].payload)' /\ Gone(exec[x].sub)' /\ TokenInv(exec[x].sub)'
  <2>1. Composable(exec[x].payload) /\ Gone(exec[x].sub) /\ TokenInv(exec[x].sub)
        BY <1>2 DEF Inv, ExecInv
  <2>2. x # y
        BY DEF Duplicate
  <2>3. exec'[x] = exec[x]
        BY <1>1, <2>2
  <2> QED
      BY <1>2, <2>1, <2>3 DEF Composable, Gone, TokenInv
<1>4. exec[x].token = sub[exec[x].sub].token
      BY <1>2 DEF Inv, ExecInv
<1>5. ExecInv(y)'
  <2>1. exec'[x] = exec[x]
        BY <1>1 DEF Duplicate
  <2> QED
      BY <1>1, <1>2, <1>3, <1>4, <2>1 DEF ExecInv, Authorized, Gone, TokenInv, Composable
<1> QED
    BY <1>1, <1>2, <1>5, ExecMoves

LEMMA ExecAuthorizeInv ==
    ASSUME Inv, TypeInv', NEW x \in Deliveries, ExecAuthorize(x)
    PROVE  Inv'
<1>1. exec[x].phase = "wire" /\ UNCHANGED <<now, keys, signed, registered, sub, ledger>>
      BY DEF ExecAuthorize
<1>2. CASE \E rp \in {400, 401, 403} : ExecDone(x, rp)
      BY <1>1, <1>2, ExecDoneInv DEF Replies
<1>3. CASE /\ ~JWTExpired(exec[x].token)
           /\ exec' = [exec EXCEPT ![x].phase = "keys", ![x].authAt = now]
  <2>1. /\ \A y \in Deliveries : y # x => exec'[y] = exec[y]
        /\ exec'[x].phase = "keys" /\ exec'[x].reply = exec[x].reply
        /\ exec'[x].payload = exec[x].payload /\ exec'[x].token = exec[x].token
        /\ exec'[x].sub = exec[x].sub /\ exec'[x].authAt = now
        BY <1>3, AuthorizedFrame DEF Inv
  <2>2. Unix(now) <= exec[x].token.exp
    <3>1. Unix(now) \in Nat
          BY UnixBounds DEF Inv, TypeInv, TypeOK
    <3>2. exec[x].token.exp \in Nat
          BY <1>1 DEF Inv, TypeInv, PhaseInv, Token
    <3> QED
        BY <1>3, <3>1, <3>2 DEF JWTExpired
  <2>3. Unix(exec'[x].authAt) <= exec'[x].token.exp
        BY <2>1, <2>2
  <2>4. (Unix(exec[x].authAt) <= exec[x].token.exp)'
        BY <2>3 DEF Unix
  <2>5. Composable(exec[x].payload)' /\ Gone(exec[x].sub)' /\ TokenInv(exec[x].sub)'
        BY <1>1, <2>1 DEF Inv, ExecInv, Composable, Gone, TokenInv
  <2>6. exec[x].token = sub[exec[x].sub].token /\ exec[x].reply = 0
        BY <1>1 DEF Inv, ExecInv
  <2>7. ExecInv(x)'
        BY <1>1, <2>1, <2>4, <2>5, <2>6 DEF ExecInv
  <2> QED
      BY <1>1, <2>1, <2>7, ExecMoves
<1> QED
    BY <1>2, <1>3 DEF ExecAuthorize

LEMMA ExecGetKeysInv ==
    ASSUME Inv, TypeInv', NEW x \in Deliveries, ExecGetKeys(x)
    PROVE  Inv'
<1>1. exec[x].phase = "keys" /\ UNCHANGED <<now, keys, signed, registered, sub, ledger>>
      BY DEF ExecGetKeys
<1> DEFINE found == GetKeysByUserID(exec[x].token.sub)
<1>2. found \in SUBSET Devices
      BY <1>1, KeysType DEF Inv, TypeInv, PhaseInv, Token
<1>3. \A d \in found : <<exec[x].token.sub, d>> \in registered
      BY DEF GetKeysByUserID, Inv, KeysInv
<1>4. ExecDone(x, 401) \/ exec' = [exec EXCEPT ![x].phase = "verify", ![x].keys = found]
      BY DEF ExecGetKeys
<1> HIDE DEF found
<1>5. CASE ExecDone(x, 401)
      BY <1>1, <1>5, ExecDoneInv DEF Replies
<1>6. CASE exec' = [exec EXCEPT ![x].phase = "verify", ![x].keys = found]
  <2>1. /\ \A y \in Deliveries : y # x => exec'[y] = exec[y]
        /\ exec'[x].phase = "verify" /\ exec'[x].reply = exec[x].reply
        /\ exec'[x].payload = exec[x].payload /\ exec'[x].token = exec[x].token
        /\ exec'[x].sub = exec[x].sub
        /\ exec'[x].authAt = exec[x].authAt /\ exec'[x].keys = found
        BY <1>2, <1>6, KeysReadFrame DEF Inv
  <2>2. Composable(exec[x].payload)' /\ Gone(exec[x].sub)' /\ TokenInv(exec[x].sub)'
        BY <1>1, <2>1 DEF Inv, ExecInv, Composable, Gone, TokenInv
  <2>3. /\ exec[x].token = sub[exec[x].sub].token /\ exec[x].reply = 0
        /\ Unix(exec[x].authAt) <= exec[x].token.exp
        BY <1>1 DEF Inv, ExecInv, Authorized
  <2>4. (Unix(exec[x].authAt) <= exec[x].token.exp)'
        BY <2>1, <2>3 DEF Unix
  <2>5. ExecInv(x)'
        BY <1>1, <1>3, <2>1, <2>2, <2>3, <2>4 DEF ExecInv
  <2> QED
      BY <1>1, <2>1, <2>5, ExecMoves
<1> QED
    BY <1>4, <1>5, <1>6

\* The entry the intranet writes carries bytes that a registered device signed.
LEMMA ExecTransferInv ==
    ASSUME Inv, TypeInv', NEW x \in Deliveries, ExecTransfer(x)
    PROVE  Inv'
<1> DEFINE entry == [delivery |-> x, sub |-> exec[x].sub, user |-> exec[x].token.sub,
                     payload |-> exec[x].payload]
<1>1. /\ exec[x].phase = "verify" /\ ExecDone(x, 200)
      /\ ledger' = ledger \cup {entry}
      /\ UNCHANGED <<now, keys, signed, registered, sub>>
      BY DEF ExecTransfer
<1>2. /\ entry.sub = exec[x].sub /\ entry.user = exec[x].token.sub
      /\ entry.payload = exec[x].payload
      OBVIOUS
<1>3. PICK d \in exec[x].keys : exec[x].payload.sig = Signature(d, exec[x].payload.order)
      BY DEF ExecTransfer, VerifyEnclaveSignature
<1>4. PICK s \in signed : exec[x].payload.sig = Signature(s[1], s[2])
      BY <1>1 DEF Inv, ExecInv, Composable
<1>5. /\ s[1] = d
      /\ CanonicalTransferBytes(s[2]) = CanonicalTransferBytes(exec[x].payload.order)
      BY <1>3, <1>4 DEF Signature
<1>6. s \in Devices \X Orders /\ <<s[1], s[2]>> = s
      BY DEF Inv, TypeInv, TypeOK
<1>7. <<exec[x].token.sub, d>> \in registered
      BY <1>1 DEF Inv, ExecInv
<1> HIDE DEF entry
<1>8. Authorises(s[1], s[2], entry)
      BY <1>2, <1>5, <1>6, <1>7 DEF Authorises
<1>9. LedgerAuthorised'
  <2>1. \A e \in ledger' : \E dd \in Devices, o \in Orders : Authorises(dd, o, e)
        BY <1>1, <1>6, <1>8 DEF Inv, LedgerAuthorised
  <2>2. \A dd \in Devices, o \in Orders, e \in ledger' :
           Authorises(dd, o, e) => Authorises(dd, o, e)'
        BY <1>1 DEF Authorises
  <2> QED
      BY <2>1, <2>2 DEF LedgerAuthorised
<1>10. /\ \A y \in Deliveries : y # x => exec'[y] = exec[y]
       /\ exec'[x].phase = "done" /\ exec'[x].reply = 200
       /\ exec'[x].token = exec[x].token /\ exec'[x].authAt = exec[x].authAt
       /\ exec'[x].sub = exec[x].sub /\ exec'[x].payload = exec[x].payload
       BY <1>1, ExecDoneFrame DEF Inv, Replies
<1>11. Grows
       BY <1>1 DEF Grows
<1>12. /\ exec[x].token = sub[exec[x].sub].token
       /\ exec[x].token.sub = sub[exec[x].sub].user
       BY <1>1 DEF Inv, ExecInv, TokenInv
<1>13. Executed(exec[x].sub)'
       BY <1>1, <1>2, <1>10, <1>12 DEF Executed
<1>14. ExecInv(x)'
  <2>1. Unix(exec[x].authAt) <= exec[x].token.exp
        BY <1>1 DEF Inv, ExecInv, Authorized
  <2>2. (Unix(exec[x].authAt) <= exec[x].token.exp)'
        BY <1>10, <2>1 DEF Unix
  <2>3. Composable(exec[x].payload)' /\ Gone(exec[x].sub)' /\ TokenInv(exec[x].sub)'
        BY <1>1, <1>10 DEF Inv, ExecInv, Composable, Gone, TokenInv
  <2> QED
      BY <1>1, <1>10, <1>12, <1>13, <2>2, <2>3 DEF ExecInv
<1>15. \A q \in Submissions : EdgeInv(q)' /\ Kept(q)
       BY <1>1, <1>11, EdgeStays DEF Inv
<1>16. \A y \in Deliveries : ExecInv(y)'
       BY <1>10, <1>11, <1>14, <1>15, ExecStays DEF Inv
<1> QED
    BY <1>1, <1>9, <1>15, <1>16 DEF Inv, KeysInv

LEMMA InvStep == Inv /\ [Next]_vars => Inv'
<1> SUFFICES ASSUME Inv, [Next]_vars
             PROVE  Inv'
    OBVIOUS
<1>1. TypeInv'
      BY TypeStep DEF Inv
<1>2. ASSUME NEW t \in Submissions,
             \/ EdgeRefuse(t) \/ \E x \in Deliveries : EdgeReply(t, x)
             \/ EdgeTimeout(t) \/ EdgeDisconnect(t) \/ EdgeAbandon(t)
      PROVE  Inv'
  <2>1. UNCHANGED <<keys, signed, registered, exec, ledger>>
        BY <1>2 DEF EdgeRefuse, EdgeReply, EdgeTimeout, EdgeDisconnect, EdgeAbandon
  <2>2. \E st \in Statuses : EdgeDone(t, st) /\ (st = 200 => Executed(t))
    <3>1. CASE \E st \in {0, 500} : EdgeDone(t, st)
          BY <3>1 DEF Statuses
    <3>2. ASSUME NEW x \in Deliveries, EdgeReply(t, x)
          PROVE  \E st \in Statuses : EdgeDone(t, st) /\ (st = 200 => Executed(t))
      <4>1. EdgeDone(t, EdgeStatus(exec[x].reply)) /\ exec[x].sub = t
            BY <3>2 DEF EdgeReply
      <4>2. EdgeStatus(exec[x].reply) \in Statuses
            BY DEF EdgeStatus, Statuses
      <4>3. EdgeStatus(exec[x].reply) = 200 => exec[x].reply = 200
            BY DEF EdgeStatus
      <4> QED
          BY <4>1, <4>2, <4>3 DEF Inv, ExecInv
    <3> QED
        BY <1>2, <3>1, <3>2 DEF EdgeRefuse, EdgeTimeout, EdgeDisconnect, EdgeAbandon
  <2> QED
      BY <1>1, <2>1, <2>2, EdgeDoneInv DEF Grows
<1>3. ASSUME NEW t \in Submissions, NEW p \in Payload, NEW d \in Devices, NEW o \in Orders,
             EdgeBadRequest(t, p, d, o)
      PROVE  Inv'
      BY <1>1, <1>3, EdgeDoneInv DEF EdgeBadRequest, Submitted, Statuses, Grows
<1>4. ASSUME NEW x \in Deliveries, ExecLost(x) \/ ExecReject(x)
      PROVE  Inv'
      BY <1>1, <1>4, ExecDoneInv DEF ExecLost, ExecReject, Replies
<1>5. ASSUME Tick \/ UNCHANGED vars
      PROVE  Inv'
  <2>1. UNCHANGED <<keys, signed, registered, sub, exec, ledger>>
        BY <1>5 DEF Tick, vars
  <2>2. Grows
        BY <2>1 DEF Grows
  <2>3. \A t \in Submissions : EdgeInv(t)' /\ Kept(t)
        BY <2>1, <2>2, EdgeStays DEF Inv
  <2>4. \A x \in Deliveries : ExecInv(x)'
        BY <2>1, <2>2, <2>3, ExecStays DEF Inv
  <2> QED
      BY <1>1, <2>1, <2>2, <2>3, <2>4, LedgerStays DEF Inv, KeysInv
<1> QED
    BY <1>1, <1>2, <1>3, <1>4, <1>5, KeyTableInv, EdgeAcceptInv, EdgeSendInv, AlterInv,
       DuplicateInv, ExecAuthorizeInv, ExecGetKeysInv, ExecTransferInv
    DEF Next, Environment, EdgeStep, ExecStep

LEMMA Invariant == Spec => []Inv
BY InvInit, InvStep, PTL DEF Spec

-----------------------------------------------------------------------------
(* The properties.                                                           *)

\* Non-repudiation: no entry reaches the ledger without a signature over its
\* canonical bytes by a device that its user had registered.
THEOREM LedgerIsAuthorised == Spec => []LedgerAuthorised
<1>1. Inv => LedgerAuthorised
      BY DEF Inv
<1> QED
    BY <1>1, Invariant, PTL

\* The edge reports success only for transfers the ledger has.
THEOREM SuccessIsExecution == Spec => []SuccessMeansExecuted
<1>1. Inv => SuccessMeansExecuted
      BY DEF Inv, EdgeInv, Executed, SuccessMeansExecuted
<1> QED
    BY <1>1, Invariant, PTL

\* Rounding to whole seconds lengthens the life of an internal token by less
\* than one second, at every resolution of the clock and on every copy of the
\* request that carries it.
THEOREM TokensExpire == Spec => []TokenWindow
<1>1. Inv => TokenWindow
  <2> SUFFICES ASSUME Inv, NEW x \in Deliveries, Authorized(x)
               PROVE  exec[x].authAt - sub[exec[x].sub].swappedAt <
                         (TokenTTL + 1) * TicksPerSecond
      BY DEF TokenWindow
  <2>1. exec[x].phase # "none"
        BY DEF Inv, ExecInv, Authorized
  <2>2. exec[x].sub \in Submissions
        BY <2>1 DEF Inv, TypeInv, PhaseInv
  <2>3. Unix(exec[x].authAt) <= Unix(sub[exec[x].sub].swappedAt + TokenTTL * TicksPerSecond)
        BY <2>1 DEF Inv, ExecInv, TokenInv
  <2>4. exec[x].authAt \in Nat /\ sub[exec[x].sub].swappedAt \in Nat
        BY <2>2 DEF Inv, TypeInv, TypeOK, Execution, Submission
  <2> QED
      BY <2>3, <2>4, UnixWindow, ConstantsAssumption
<1> QED
    BY <1>1, Invariant, PTL

-----------------------------------------------------------------------------
(* What the signed bytes leave open.                                         *)

\* The symbols that make up the signed bytes of o.
Symbols(o) == Characters \cup {":", o.amount, o.currency, Unix(o.ts)}

\* The accounts as they appear in the signed bytes.
Joined(o) == o.sender \o <<":">> \o o.receiver

LEMMA SequenceOfOne ==
    ASSUME NEW S, NEW x \in S
    PROVE  <<x>> \in Seq(S) /\ Len(<<x>>) = 1 /\ <<x>>[1] = x
OBVIOUS

LEMMA Concatenation ==
    ASSUME NEW S, NEW s \in Seq(S), NEW t \in Seq(S)
    PROVE  /\ Len(s) \in Nat /\ Len(t) \in Nat
           /\ s \o t \in Seq(S) /\ Len(s \o t) = Len(s) + Len(t)
           /\ \A k \in 1..Len(s) : (s \o t)[k] = s[k]
           /\ \A k \in 1..Len(t) : (s \o t)[Len(s) + k] = t[k]
<1>1. ASSUME NEW k \in 1..Len(t)
      PROVE  (s \o t)[Len(s) + k] = t[k]
      OBVIOUS
<1> QED
    BY <1>1

LEMMA JoinedProperties ==
    ASSUME NEW o \in Orders
    PROVE  /\ Joined(o) \in Seq(Symbols(o))
           /\ o.sender \in Seq(Characters) /\ o.receiver \in Seq(Characters)
           /\ Len(o.sender) \in Nat /\ Len(o.receiver) \in Nat
           /\ Len(Joined(o)) = Len(o.sender) + 1 + Len(o.receiver)
           /\ \A k \in 1..Len(o.sender) : Joined(o)[k] = o.sender[k]
           /\ Joined(o)[Len(o.sender) + 1] = ":"
           /\ \A k \in 1..Len(o.receiver) : Joined(o)[Len(o.sender) + 1 + k] = o.receiver[k]
<1> DEFINE a == o.sender
           b == o.receiver
           c == <<":">>
           S == Symbols(o)
<1>1. a \in Seq(Characters) /\ b \in Seq(Characters)
      BY ConstantsAssumption DEF OrderType
<1>2. Characters \subseteq S /\ ":" \in S
      BY DEF Symbols
<1>3. Joined(o) = (a \o c) \o b
      BY DEF Joined
<1> HIDE DEF a, b, S
<1>4. a \in Seq(S) /\ b \in Seq(S)
      BY <1>1, <1>2, SeqMonotonic
<1>5. c \in Seq(S) /\ Len(c) = 1 /\ c[1] = ":"
      BY <1>2, SequenceOfOne
<1>6. Len(a) \in Nat /\ Len(b) \in Nat
      BY <1>1, LenProperties
<1> HIDE DEF c
<1>7. /\ a \o c \in Seq(S) /\ Len(a \o c) = Len(a) + 1
      /\ \A k \in 1..Len(a) : (a \o c)[k] = a[k]
      /\ (a \o c)[Len(a) + 1] = ":"
  <2>1. a \in Seq(S) /\ c \in Seq(S)
        BY <1>4, <1>5
  <2>2. /\ a \o c \in Seq(S) /\ Len(a \o c) = Len(a) + Len(c)
        /\ \A k \in 1..Len(a) : (a \o c)[k] = a[k]
        /\ \A k \in 1..Len(c) : (a \o c)[Len(a) + k] = c[k]
        BY <2>1, Concatenation
  <2> QED
      BY <1>5, <1>6, <2>2
<1> DEFINE d == a \o c
<1>8. d \in Seq(S) /\ Len(d) = Len(a) + 1
      BY <1>7
<1> HIDE DEF d
<1>9. /\ d \o b \in Seq(S)
      /\ Len(d \o b) = Len(a) + 1 + Len(b)
      /\ \A k \in 1..(Len(a) + 1) : (d \o b)[k] = d[k]
      /\ \A k \in 1..Len(b) : (d \o b)[Len(a) + 1 + k] = b[k]
      BY <1>4, <1>6, <1>8
<1>10. /\ Joined(o) \in Seq(S)
       /\ Len(Joined(o)) = Len(a) + 1 + Len(b)
       /\ \A k \in 1..Len(a) : Joined(o)[k] = a[k]
       /\ Joined(o)[Len(a) + 1] = ":"
       /\ \A k \in 1..Len(b) : Joined(o)[Len(a) + 1 + k] = b[k]
       BY <1>3, <1>6, <1>7, <1>9 DEF d
<1> QED
    BY <1>1, <1>6, <1>10 DEF a, b, S

\* The signed bytes: the accounts, and six symbols.
LEMMA BytesProperties ==
    ASSUME NEW o \in Orders
    PROVE  LET bytes == CanonicalTransferBytes(o)
               n == Len(Joined(o))
           IN  /\ Len(bytes) = n + 6
               /\ \A k \in 1..n : bytes[k] = Joined(o)[k]
               /\ bytes[n + 2] = o.amount
               /\ bytes[n + 4] = o.currency
               /\ bytes[n + 6] = Unix(o.ts)
<1> DEFINE tail == <<":", o.amount, ":", o.currency, ":", Unix(o.ts)>>
           n == Len(Joined(o))
           S == Symbols(o)
<1>1. Joined(o) \in Seq(S)
      BY JoinedProperties
<1>2. ":" \in S /\ o.amount \in S /\ o.currency \in S /\ Unix(o.ts) \in S
      BY DEF Symbols
<1> HIDE DEF S
<1>3. /\ tail \in Seq(S) /\ Len(tail) = 6
      /\ tail[2] = o.amount /\ tail[4] = o.currency /\ tail[6] = Unix(o.ts)
      BY <1>2
<1>4. CanonicalTransferBytes(o) = Joined(o) \o tail
      BY DEF CanonicalTransferBytes, Joined
<1> HIDE DEF tail
<1>5. n \in Nat
      BY <1>1
<1>6. /\ Len(Joined(o) \o tail) = n + 6
      /\ \A k \in 1..n : (Joined(o) \o tail)[k] = Joined(o)[k]
      /\ \A k \in 1..6 : (Joined(o) \o tail)[n + k] = tail[k]
  <2>1. /\ Len(Joined(o) \o tail) = n + Len(tail)
        /\ \A k \in 1..n : (Joined(o) \o tail)[k] = Joined(o)[k]
        /\ \A k \in 1..Len(tail) : (Joined(o) \o tail)[n + k] = tail[k]
    <3>1. Joined(o) \in Seq(S) /\ tail \in Seq(S)
          BY <1>1, <1>3
    <3> QED
        BY <3>1, Concatenation
  <2> QED
      BY <1>3, <2>1
<1> QED
    BY <1>3, <1>4, <1>6

\* The signed bytes determine amount, currency and second, and the accounts up to
\* the place of the colon between them.
LEMMA BytesDetermine ==
    ASSUME NEW o \in Orders, NEW p \in Orders,
           CanonicalTransferBytes(o) = CanonicalTransferBytes(p)
    PROVE  /\ o.amount = p.amount /\ o.currency = p.currency /\ Unix(o.ts) = Unix(p.ts)
           /\ Joined(o) = Joined(p)
<1> DEFINE n == Len(Joined(o))
           bytes == CanonicalTransferBytes(o)
<1>1. Joined(o) \in Seq(Symbols(o)) /\ Joined(p) \in Seq(Symbols(p))
      BY JoinedProperties
<1>2. /\ n \in Nat /\ Len(Joined(p)) \in Nat
      /\ Len(bytes) = n + 6 /\ Len(bytes) = Len(Joined(p)) + 6
      BY <1>1, BytesProperties, LenProperties
<1>3. Len(Joined(p)) = n
      BY <1>2
<1>4. /\ bytes[n + 2] = o.amount /\ bytes[n + 4] = o.currency /\ bytes[n + 6] = Unix(o.ts)
      /\ \A k \in 1..n : bytes[k] = Joined(o)[k]
      BY BytesProperties
<1>5. /\ bytes[n + 2] = p.amount /\ bytes[n + 4] = p.currency /\ bytes[n + 6] = Unix(p.ts)
      /\ \A k \in 1..n : bytes[k] = Joined(p)[k]
      BY <1>3, BytesProperties
<1>6. Joined(o) = Joined(p)
  <2> DEFINE T == Symbols(o) \cup Symbols(p)
  <2>1. Symbols(o) \subseteq T /\ Symbols(p) \subseteq T
        OBVIOUS
  <2> HIDE DEF T
  <2>2. Joined(o) \in Seq(T) /\ Joined(p) \in Seq(T)
        BY <1>1, <2>1, SeqMonotonic
  <2>3. \A k \in 1..n : Joined(o)[k] = Joined(p)[k]
        BY <1>4, <1>5
  <2> QED
      BY <1>3, <2>2, <2>3, SeqEqual
<1> QED
    BY <1>4, <1>5, <1>6

\* Accounts without a colon can be told apart.
LEMMA JoinedDetermines ==
    ASSUME NEW o \in Orders, NEW p \in Orders, Joined(o) = Joined(p), PlainAccounts(o)
    PROVE  o.sender = p.sender /\ o.receiver = p.receiver
<1> DEFINE n == Len(o.sender)
           m == Len(o.receiver)
           i == Len(p.sender)
           j == Len(p.receiver)
           word == Joined(o)
<1>1. /\ o.sender \in Seq(Characters) /\ o.receiver \in Seq(Characters) /\ n \in Nat /\ m \in Nat
      /\ Len(word) = n + 1 + m
      /\ \A k \in 1..n : word[k] = o.sender[k]
      /\ \A k \in 1..m : word[n + 1 + k] = o.receiver[k]
      BY JoinedProperties
<1>2. /\ p.sender \in Seq(Characters) /\ p.receiver \in Seq(Characters) /\ i \in Nat /\ j \in Nat
      /\ Len(word) = i + 1 + j
      /\ \A k \in 1..i : word[k] = p.sender[k]
      /\ word[i + 1] = ":"
      /\ \A k \in 1..j : word[i + 1 + k] = p.receiver[k]
      BY JoinedProperties
<1>3. /\ \A k \in 1..n : word[k] # ":"
      /\ \A k \in 1..m : word[n + 1 + k] # ":"
  <2>1. DOMAIN o.sender = 1..n /\ DOMAIN o.receiver = 1..m
        BY <1>1, LenProperties
  <2> QED
      BY <1>1, <2>1 DEF PlainAccounts
<1> HIDE DEF n, m, i, j, word
\* The only colon of word is the one at n + 1.
<1>4. i = n
  <2>1. CASE i < n
    <3>1. i + 1 \in 1..n
          BY <1>1, <1>2, <2>1
    <3> QED
        BY <1>2, <1>3, <3>1
  <2>2. CASE i > n
    <3> DEFINE k == i - n
    <3>1. k \in 1..m /\ n + 1 + k = i + 1
          BY <1>1, <1>2, <2>2
    <3> HIDE DEF k
    <3> QED
        BY <1>2, <1>3, <3>1
  <2> QED
      BY <1>1, <1>2, <2>1, <2>2
<1>5. j = m
      BY <1>1, <1>2, <1>4
<1>6. o.sender = p.sender
  <2>1. \A k \in 1..Len(o.sender) : o.sender[k] = p.sender[k]
        BY <1>1, <1>2, <1>4 DEF n
  <2>2. Len(o.sender) = Len(p.sender)
        BY <1>4 DEF n, i
  <2> QED
      BY <1>1, <1>2, <2>1, <2>2, SeqEqual
<1>7. o.receiver = p.receiver
  <2>1. \A k \in 1..Len(o.receiver) : o.receiver[k] = p.receiver[k]
        BY <1>1, <1>2, <1>4, <1>5 DEF m
  <2>2. Len(o.receiver) = Len(p.receiver)
        BY <1>5 DEF m, j
  <2> QED
      BY <1>1, <1>2, <2>1, <2>2, SeqEqual
<1> QED
    BY <1>6, <1>7

\* Whatever happens to a payload on the way, the ledger has what a registered
\* device signed, as far as the canonical bytes tell orders apart.
THEOREM LedgerIsAsSigned == Spec => []LedgerAsSigned
<1>1. Inv => LedgerAsSigned
  <2> SUFFICES ASSUME Inv, NEW e \in ledger
               PROVE  \E s \in signed :
                         LET order == s[2]
                             done == e.payload.order
                         IN  /\ <<e.user, s[1]>> \in registered
                             /\ order.amount = done.amount
                             /\ order.currency = done.currency
                             /\ Unix(order.ts) = Unix(done.ts)
                             /\ Joined(order) = Joined(done)
                             /\ PlainAccounts(order) =>
                                   order.sender = done.sender /\ order.receiver = done.receiver
      BY DEF LedgerAsSigned, Joined
  <2>1. PICK d \in Devices, o \in Orders : Authorises(d, o, e)
        BY DEF Inv, LedgerAuthorised
  <2> DEFINE p == e.payload.order
             s == <<d, o>>
  <2>2. p \in Orders
        BY DEF Inv, TypeInv, TypeOK, Entry, Payload
  <2>3. /\ s \in signed /\ s[1] = d /\ s[2] = o /\ <<e.user, d>> \in registered
        /\ CanonicalTransferBytes(o) = CanonicalTransferBytes(p)
        BY <2>1 DEF Authorises
  <2> HIDE DEF p, s
  <2>4. /\ o.amount = p.amount /\ o.currency = p.currency /\ Unix(o.ts) = Unix(p.ts)
        /\ Joined(o) = Joined(p)
        BY <2>2, <2>3, BytesDetermine
  <2>5. PlainAccounts(o) => o.sender = p.sender /\ o.receiver = p.receiver
        BY <2>2, <2>4, JoinedDetermines
  <2> QED
      BY <2>3, <2>4, <2>5 DEF p
<1> QED
    BY <1>1, Invariant, PTL

=============================================================================
