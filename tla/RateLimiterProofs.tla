------------------------- MODULE RateLimiterProofs -------------------------
(* The script on Valkey, with hashes that expire and timestamps of many      *)
(* clocks, implements buckets that are never forgotten; hence it admits no   *)
(* more than they do.                                                        *)
EXTENDS RateLimiter, Integers, TLAPS

\* The life EXPIRE gives a hash, in milliseconds.
Life == TTL * Second

\* A hash was written at most now, and its last_update was then at most MaxAhead
\* in the future.
Clocks ==
    \A c \in Clients :
       store[c] # None =>
          /\ store[c].expireAt <= now + Life
          /\ store[c].last + Life <= store[c].expireAt + MaxAhead

Inv == TypeOK /\ Clocks

-----------------------------------------------------------------------------
(* Arithmetic.                                                               *)

LEMMA FullType == Full \in Nat /\ Full > 0 /\ Full >= RefillPeriod
BY LimiterAssumption DEF Full

LEMMA CeilDivBound ==
    ASSUME NEW a \in Nat, NEW b \in Nat, b > 0
    PROVE  CeilDiv(a, b) \in Nat /\ CeilDiv(a, b) * b >= a
<1> DEFINE x == a + b - 1
<1>1. x \in Nat
  OBVIOUS
<1>2. x \div b \in Nat /\ x < (x \div b) * b + b
  <2> HIDE DEF x
  <2> QED BY <1>1
<1>3. (x \div b) * b \in Nat
  <2> HIDE DEF x
  <2> QED BY <1>2
<1>4. CeilDiv(a, b) = x \div b
  BY DEF CeilDiv
<1> DEFINE y == (x \div b) * b
<1>5. a + b - 1 < y + b /\ y \in Nat
  BY <1>2, <1>3
<1>6. y >= a
  <2> HIDE DEF y
  <2> QED BY <1>5
<1> QED
  BY <1>2, <1>4, <1>6

\* A hash lives at least as long as it takes to fill an empty bucket twice.
LEMMA LifeCovers == Life \in Nat /\ TTL \in Nat /\ Life * RefillRate >= 2 * Full
<1> DEFINE a == 2 * Capacity * RefillPeriod
           b == RefillRate * Second
<1>1. a \in Nat /\ b \in Nat /\ b > 0 /\ a = 2 * Full
  BY LimiterAssumption DEF Full
<1>2. TTL \in Nat /\ TTL * b >= a
  <2>1. TTL = CeilDiv(a, b)
    BY DEF TTL
  <2> HIDE DEF a, b
  <2> QED BY <1>1, <2>1, CeilDivBound
<1>3. TTL * b = (TTL * Second) * RefillRate /\ TTL * Second \in Nat
  BY <1>2, LimiterAssumption
<1> QED
  BY <1>1, <1>2, <1>3 DEF Life

LEMMA Refilled ==
    ASSUME NEW n \in Nat
    PROVE  n * RefillRate \in Nat
BY LimiterAssumption

\* Time refills monotonically.
LEMMA RefillMonotone ==
    ASSUME NEW m \in Nat, NEW n \in Nat, m <= n
    PROVE  m * RefillRate <= n * RefillRate
BY LimiterAssumption

\* Whoever looks at a hash after its life sees, despite the skew of the clocks,
\* enough time passed to fill the bucket.
LEMMA ExpiredIsFull ==
    ASSUME NEW last \in Nat, NEW expireAt \in Nat, NEW t \in Nat, NEW ts \in Nat,
           last + Life <= expireAt + MaxAhead,
           expireAt <= t,
           t <= ts + MaxBehind
    PROVE  ts > last /\ (ts - last) * RefillRate >= Full
<1> DEFINE skew == MaxAhead + MaxBehind
           L == Life * RefillRate
           S == skew * RefillRate
<1>1. skew \in Nat /\ S <= Full /\ Life \in Nat /\ L >= 2 * Full
  BY LifeCovers, SkewAssumption, LimiterAssumption DEF Full
<1>2. L \in Nat /\ S \in Nat
  BY <1>1, Refilled
<1>3. Life <= ts - last + skew
  BY <1>1, LimiterAssumption
<1>4. CASE ts - last < 0
  <2>1. Life <= skew
    BY <1>1, <1>3, <1>4
  <2>2. L <= S
    BY <1>1, <2>1, RefillMonotone
  <2> HIDE DEF L, S
  <2> QED
    BY <1>1, <1>2, <2>2, FullType
<1>5. CASE ts - last >= 0
  <2> DEFINE d == ts - last
             D == d * RefillRate
  <2>1. d \in Nat /\ d + skew \in Nat /\ Life <= d + skew
    BY <1>1, <1>3, <1>5
  <2>2. D \in Nat
    BY <2>1, Refilled
  <2>3. L <= (d + skew) * RefillRate
    BY <1>1, <2>1, RefillMonotone
  <2>4. (d + skew) * RefillRate = D + S
    BY <1>1, <2>1, LimiterAssumption
  <2>5. D >= Full
    <3>1. L <= D + S
      BY <2>3, <2>4
    <3> HIDE DEF L, S, D
    <3> QED BY <1>1, <1>2, <2>2, <3>1, FullType
  <2>6. d # 0
    <3>1. 0 * RefillRate = 0
      BY LimiterAssumption
    <3> QED BY <2>5, <3>1, FullType
  <2> QED
    BY <2>1, <2>5, <2>6
<1> QED
  BY <1>4, <1>5

-----------------------------------------------------------------------------
(* The script against the bucket.                                            *)

\* The timestamp of a request, and what bounds it.
LEMMA StampBounds ==
    ASSUME TypeOK, NEW ts \in Stamps
    PROVE  ts \in Nat /\ ts <= now + MaxAhead /\ now <= ts + MaxBehind
BY LimiterAssumption DEF Stamps, TypeOK

LEMMA HashFields ==
    ASSUME TypeOK, NEW c \in Clients, store[c] # None
    PROVE  /\ store[c] \in Hash
           /\ store[c].tokens \in Nat
           /\ store[c].tokens <= Full
           /\ store[c].last \in Nat
           /\ store[c].expireAt \in Nat
BY FullType DEF TypeOK, Hash

LEMMA CapBound ==
    ASSUME NEW n \in Nat
    PROVE  /\ Cap(n) \in 0..Full
           /\ n >= Full => Cap(n) = Full
BY FullType DEF Cap

\* The refilled level and last_update have their types.
LEMMA FoundTypes ==
    ASSUME Inv, NEW c \in Clients, NEW ts \in Stamps
    PROVE  /\ Tokens(c, ts) \in 0..Full
           /\ LastUpdate(c, ts) \in Nat
           /\ LastUpdate(c, ts) <= now + MaxAhead
<1>0. TypeOK /\ ts \in Nat /\ ts <= now + MaxAhead /\ now \in Nat
  BY StampBounds DEF Inv, TypeOK
<1>1. CASE ~Live(c)
  BY <1>0, <1>1, FullType DEF Tokens, LastUpdate
<1>2. CASE Live(c)
  <2>1. store[c] # None
    BY <1>2 DEF Live
  <2>2. /\ store[c].tokens \in Nat
        /\ store[c].tokens <= Full
        /\ store[c].last \in Nat
        /\ store[c].expireAt \in Nat
    BY <1>0, <2>1, HashFields
  <2>3. /\ store[c].expireAt <= now + Life
        /\ store[c].last + Life <= store[c].expireAt + MaxAhead
    BY <2>1 DEF Inv, Clocks
  <2>4. store[c].last <= now + MaxAhead
    BY <1>0, <2>2, <2>3, LifeCovers, LimiterAssumption
  <2>5. CASE ts > store[c].last
    <3> DEFINE more == (ts - store[c].last) * RefillRate
    <3>1. more \in Nat
      <4>1. ts - store[c].last \in Nat
        BY <1>0, <2>2, <2>5
      <4> QED BY <4>1, Refilled
    <3>2. Tokens(c, ts) = Cap(store[c].tokens + more)
      BY <1>2, <2>5 DEF Tokens
    <3>3. LastUpdate(c, ts) = ts
      BY <1>2, <2>5 DEF LastUpdate, Stamp
    <3> HIDE DEF more
    <3> QED
      BY <1>0, <2>2, <3>1, <3>2, <3>3, CapBound
  <2>6. CASE ~(ts > store[c].last)
    <3>1. Tokens(c, ts) = store[c].tokens /\ LastUpdate(c, ts) = store[c].last
      BY <1>2, <2>6 DEF Tokens, LastUpdate, Stamp
    <3> QED
      BY <2>2, <2>4, <3>1, FullType
  <2> QED
    BY <2>5, <2>6
<1> QED
  BY <1>1, <1>2

\* A request finds what it would find in a bucket that is never forgotten: the
\* heart of the refinement.
LEMMA FoundSame ==
    ASSUME Inv, NEW c \in Clients, NEW ts \in Stamps
    PROVE  Bucket!Found(c, ts) = [tokens |-> Tokens(c, ts), last |-> LastUpdate(c, ts)]
<1>0. TypeOK /\ ts \in Nat /\ now <= ts + MaxBehind /\ now \in Nat
  BY StampBounds DEF Inv, TypeOK
<1>1. CASE store[c] = None
  <2>1. Bucket!Found(c, ts) = [tokens |-> Full, last |-> ts]
    BY <1>1 DEF Bucket!Found, Full, Bucket!Full
  <2>2. Tokens(c, ts) = Full /\ LastUpdate(c, ts) = ts
    BY <1>1 DEF Tokens, LastUpdate, Live
  <2> QED
    BY <2>1, <2>2
<1>2. CASE store[c] # None
  <2> DEFINE h == store[c]
             b == [tokens |-> h.tokens, last |-> h.last]
             more == (ts - h.last) * RefillRate
  <2>1. /\ h.tokens \in Nat
        /\ h.tokens <= Full
        /\ h.last \in Nat
        /\ h.expireAt \in Nat
        /\ h.last + Life <= h.expireAt + MaxAhead
    BY <1>0, <1>2, HashFields DEF Inv, Clocks
  <2>2. b # None
    <3>1. b \in Bucket!Bucket
      <4>1. h.tokens \in 0..Full
        BY <2>1, FullType
      <4> QED BY <2>1, <4>1 DEF Bucket!Bucket, Bucket!Full, Full
    <3> QED BY <3>1, NoneAssumption
  <2>3. Bucket!Found(c, ts) =
           IF ts > h.last THEN [tokens |-> Cap(h.tokens + more), last |-> ts] ELSE b
    <3>1. Bucket!Found(c, ts) = Bucket!Refill(b, ts)
      BY <1>2, <2>2 DEF Bucket!Found
    <3>2. b.tokens = h.tokens /\ b.last = h.last
      OBVIOUS
    <3> QED
      BY <3>1, <3>2 DEF Bucket!Refill, Bucket!Cap, Cap, Bucket!Full, Full
  <2>4. CASE ~Live(c)
    <3>1. h.expireAt <= now
      BY <1>0, <1>2, <2>1, <2>4 DEF Live
    <3>2. ts > h.last /\ more >= Full
      BY <1>0, <2>1, <3>1, ExpiredIsFull
    <3>3. more \in Nat
      <4>1. ts - h.last \in Nat
        BY <1>0, <2>1, <3>2
      <4> QED BY <4>1, Refilled
    <3>4. Cap(h.tokens + more) = Full
      <4> HIDE DEF more
      <4> QED BY <2>1, <3>2, <3>3, FullType, CapBound
    <3>5. Tokens(c, ts) = Full /\ LastUpdate(c, ts) = ts
      BY <2>4 DEF Tokens, LastUpdate
    <3> QED
      BY <2>3, <3>2, <3>4, <3>5
  <2>5. CASE Live(c)
    <3>1. CASE ts > h.last
      <4>1. Tokens(c, ts) = Cap(h.tokens + more) /\ LastUpdate(c, ts) = ts
        BY <2>5, <3>1 DEF Tokens, LastUpdate, Stamp
      <4> QED BY <2>3, <3>1, <4>1
    <3>2. CASE ~(ts > h.last)
      <4>1. Tokens(c, ts) = h.tokens /\ LastUpdate(c, ts) = h.last
        BY <2>5, <3>2 DEF Tokens, LastUpdate, Stamp
      <4> QED BY <2>3, <3>2, <4>1
    <3> QED BY <3>1, <3>2
  <2> QED
    BY <2>4, <2>5
<1> QED
  BY <1>1, <1>2

-----------------------------------------------------------------------------
(* The invariant.                                                            *)

LEMMA InitInv == Init => Inv
<1> SUFFICES ASSUME Init PROVE Inv
  OBVIOUS
<1>1. TypeOK
  <2>1. reply \in [Clients -> Reply]
    BY DEF Init, Reply
  <2> QED BY <2>1 DEF Init, TypeOK
<1>2. Clocks
  BY DEF Init, Clocks
<1> QED
  BY <1>1, <1>2 DEF Inv

\* Every answer is well typed.
LEMMA AnsweredType ==
    ASSUME now \in Nat, reply \in [Clients -> Reply], NEW c \in Clients, NEW level \in Nat,
           NEW status \in {"allowed", "limited"}, Answered(c, status, level)
    PROVE  reply' \in [Clients -> Reply]
<1>1. level * 1000 \in Nat /\ RefillPeriod \in Nat /\ RefillPeriod > 0
  BY LimiterAssumption
<1>2. Remaining(level) \in Nat
  BY <1>1 DEF Remaining
<1>3. \A st \in {"allowed", "limited", "open"}, n \in Nat :
         [status |-> st, remaining |-> n, at |-> now] \in Reply
  BY DEF Reply
<1> QED
  BY <1>2, <1>3 DEF Answered, Open, Replied

LEMMA EvalAllowedInv ==
    ASSUME Inv, NEW c \in Clients, NEW ts \in Stamps, EvalAllowed(c, ts)
    PROVE  Inv'
<1> DEFINE left == Tokens(c, ts) - RefillPeriod
           h == [tokens |-> left, last |-> LastUpdate(c, ts), expireAt |-> now + Life]
<1>1. TypeOK /\ now \in Nat /\ ts \in Nat
  BY StampBounds DEF Inv, TypeOK
<1>2. /\ Tokens(c, ts) \in Nat
      /\ Tokens(c, ts) <= Full
      /\ LastUpdate(c, ts) \in Nat
      /\ LastUpdate(c, ts) <= now + MaxAhead
  BY FoundTypes, FullType
<1>3. /\ Tokens(c, ts) >= RefillPeriod
      /\ store' = [store EXCEPT ![c] = h]
      /\ Answered(c, "allowed", left)
      /\ since' = IF store[c] = None THEN [since EXCEPT ![c] = ts] ELSE since
      /\ admitted' = [admitted EXCEPT ![c] = @ + 1]
      /\ now' = now
  BY DEF EvalAllowed, Life
<1>4. left \in 0..Full /\ left \in Nat /\ now + Life \in Nat
  BY <1>1, <1>2, <1>3, FullType, LifeCovers, LimiterAssumption
<1>5. h \in Hash
  BY <1>2, <1>4 DEF Hash
<1>6. TypeOK'
  <2>1. reply' \in [Clients -> Reply]
    BY <1>1, <1>3, <1>4, AnsweredType DEF TypeOK
  <2>2. store' \in [Clients -> Hash \cup {None}]
    <3> HIDE DEF h
    <3> QED BY <1>1, <1>3, <1>5 DEF TypeOK
  <2>3. since' \in [Clients -> Nat] /\ admitted' \in [Clients -> Nat]
    BY <1>1, <1>3 DEF TypeOK
  <2> QED
    BY <1>1, <1>3, <2>1, <2>2, <2>3 DEF TypeOK
<1>7. Clocks'
  <2> SUFFICES ASSUME NEW d \in Clients, store'[d] # None
               PROVE  /\ store'[d].expireAt <= now + Life
                      /\ store'[d].last + Life <= store'[d].expireAt + MaxAhead
    BY <1>3 DEF Clocks, Life
  <2>1. CASE d = c
    <3>1. store'[d] = h
      BY <1>1, <1>3, <2>1 DEF TypeOK
    <3> QED
      BY <1>1, <1>2, <1>4, <3>1, LifeCovers, LimiterAssumption
  <2>2. CASE d # c
    <3>1. store'[d] = store[d]
      BY <1>1, <1>3, <2>2 DEF TypeOK
    <3> QED
      BY <3>1 DEF Inv, Clocks
  <2> QED
    BY <2>1, <2>2
<1> QED
  BY <1>6, <1>7 DEF Inv

LEMMA EvalLimitedInv ==
    ASSUME Inv, NEW c \in Clients, NEW ts \in Stamps, EvalLimited(c, ts)
    PROVE  Inv'
<1>1. Tokens(c, ts) \in Nat
  BY FoundTypes, FullType
<1>2. reply' \in [Clients -> Reply]
  BY <1>1, AnsweredType DEF EvalLimited, Inv, TypeOK
<1>3. UNCHANGED <<now, store, since, admitted>>
  BY DEF EvalLimited
<1>4. TypeOK'
  BY <1>2, <1>3 DEF Inv, TypeOK
<1>5. Clocks'
  BY <1>3 DEF Inv, Clocks, Life
<1> QED
  BY <1>4, <1>5 DEF Inv

LEMMA FailOpenInv ==
    ASSUME Inv, NEW c \in Clients, FailOpen(c)
    PROVE  Inv'
<1>1. reply' \in [Clients -> Reply]
  <2>1. [status |-> "open", remaining |-> 0, at |-> now] \in Reply
    BY DEF Reply, Inv, TypeOK
  <2> QED
    BY <2>1 DEF FailOpen, Open, Replied, Inv, TypeOK
<1>2. UNCHANGED <<now, store, since, admitted>>
  BY DEF FailOpen
<1>3. TypeOK'
  BY <1>1, <1>2 DEF Inv, TypeOK
<1>4. Clocks'
  BY <1>2 DEF Inv, Clocks, Life
<1> QED
  BY <1>3, <1>4 DEF Inv

LEMMA TickInv ==
    ASSUME Inv, Tick
    PROVE  Inv'
<1>1. TypeOK /\ now \in Nat
  BY DEF Inv, TypeOK
<1>2. now' = now + 1 /\ UNCHANGED <<store, reply, since, admitted>>
  BY DEF Tick
<1>3. TypeOK'
  BY <1>1, <1>2 DEF TypeOK
<1>4. Clocks'
  <2> SUFFICES ASSUME NEW d \in Clients, store[d] # None
               PROVE  /\ store[d].expireAt <= now + 1 + Life
                      /\ store[d].last + Life <= store[d].expireAt + MaxAhead
    BY <1>2 DEF Clocks, Life
  <2>1. store[d].expireAt \in Nat
    BY <1>1, HashFields
  <2>2. /\ store[d].expireAt <= now + Life
        /\ store[d].last + Life <= store[d].expireAt + MaxAhead
    BY DEF Inv, Clocks
  <2> QED
    BY <1>1, <2>1, <2>2, LifeCovers
<1> QED
  BY <1>3, <1>4 DEF Inv

LEMMA NextInv == Inv /\ [Next]_vars => Inv'
<1> SUFFICES ASSUME Inv, [Next]_vars PROVE Inv'
  OBVIOUS
<1>1. ASSUME NEW c \in Clients, NEW ts \in Stamps, EvalAllowed(c, ts) PROVE Inv'
  BY <1>1, EvalAllowedInv
<1>2. ASSUME NEW c \in Clients, NEW ts \in Stamps, EvalLimited(c, ts) PROVE Inv'
  BY <1>2, EvalLimitedInv
<1>3. ASSUME NEW c \in Clients, FailOpen(c) PROVE Inv'
  BY <1>3, FailOpenInv
<1>4. CASE Tick
  BY <1>4, TickInv
<1>5. CASE UNCHANGED vars
  BY <1>5 DEF vars, Inv, TypeOK, Clocks, Life
<1> QED
  BY <1>1, <1>2, <1>3, <1>4, <1>5 DEF Next

LEMMA InvHolds == Spec => []Inv
BY InitInv, NextInv, PTL DEF Spec

-----------------------------------------------------------------------------
(* The refinement.                                                           *)

LEMMA InitRefines == Init => Bucket!Init
BY DEF Init, Bucket!Init

LEMMA StutterRefines ==
    ASSUME UNCHANGED <<store, since, admitted>>
    PROVE  UNCHANGED Bucket!vars
BY DEF Bucket!vars

LEMMA EvalAllowedRefines ==
    ASSUME Inv, NEW c \in Clients, NEW ts \in Stamps, EvalAllowed(c, ts)
    PROVE  Bucket!Next
<1> DEFINE B == [d \in Clients |->
                   IF store[d] = None THEN None
                   ELSE [tokens |-> store[d].tokens, last |-> store[d].last]]
           left == Tokens(c, ts) - RefillPeriod
           h == [tokens |-> left, last |-> LastUpdate(c, ts), expireAt |-> now + Life]
<1>1. Bucket!Found(c, ts) = [tokens |-> Tokens(c, ts), last |-> LastUpdate(c, ts)]
  BY FoundSame
<1>2. /\ Bucket!Found(c, ts).tokens = Tokens(c, ts)
      /\ Bucket!Found(c, ts).last = LastUpdate(c, ts)
  BY <1>1
<1>3. /\ Tokens(c, ts) >= RefillPeriod
      /\ store' = [store EXCEPT ![c] = h]
      /\ since' = IF store[c] = None THEN [since EXCEPT ![c] = ts] ELSE since
      /\ admitted' = [admitted EXCEPT ![c] = @ + 1]
  BY DEF EvalAllowed, Life
<1>4. TypeOK /\ ts \in 0..(Horizon + MaxAhead)
  BY DEF Inv, Stamps
<1>5. h \in Hash
  <2>1. /\ Tokens(c, ts) \in Nat
        /\ Tokens(c, ts) <= Full
        /\ LastUpdate(c, ts) \in Nat
    BY FoundTypes, FullType
  <2>2. left \in 0..Full /\ now + Life \in Nat
    BY <1>3, <1>4, <2>1, FullType, LifeCovers, LimiterAssumption DEF TypeOK
  <2> QED BY <2>1, <2>2 DEF Hash
<1>6. h # None
  BY <1>5, NoneAssumption
<1>7. B[c] = None <=> store[c] = None
  <2>1. CASE store[c] = None
    BY <2>1
  <2>2. CASE store[c] # None
    <3>1. store[c].tokens \in 0..Full /\ store[c].last \in Nat
      BY <1>4, <2>2, HashFields, FullType
    <3>2. [tokens |-> store[c].tokens, last |-> store[c].last] \in Bucket!Bucket
      BY <3>1 DEF Bucket!Bucket, Bucket!Full, Full
    <3> QED
      BY <2>2, <3>2, NoneAssumption
  <2> QED BY <2>1, <2>2
<1>8. B' = [B EXCEPT ![c] = [tokens |-> left, last |-> LastUpdate(c, ts)]]
  <2>1. store'[c] = h
    BY <1>3, <1>4 DEF TypeOK
  <2>2. h.tokens = left /\ h.last = LastUpdate(c, ts)
    OBVIOUS
  <2>3. \A d \in Clients : d # c => store'[d] = store[d]
    BY <1>3, <1>4 DEF TypeOK
  <2> HIDE DEF h, left
  <2>4. B' = [d \in Clients |->
                IF store'[d] = None THEN None
                ELSE [tokens |-> store'[d].tokens, last |-> store'[d].last]]
    OBVIOUS
  <2> QED
    BY <1>6, <2>1, <2>2, <2>3, <2>4
<1>9. Bucket!Admit(c, ts)
  BY <1>2, <1>3, <1>7, <1>8 DEF Bucket!Admit
<1> QED
  BY <1>4, <1>9 DEF Bucket!Next

LEMMA NextRefines == Inv /\ [Next]_vars => [Bucket!Next]_(Bucket!vars)
<1> SUFFICES ASSUME Inv, [Next]_vars PROVE [Bucket!Next]_(Bucket!vars)
  OBVIOUS
<1>1. ASSUME NEW c \in Clients, NEW ts \in Stamps, EvalAllowed(c, ts)
      PROVE  Bucket!Next
  BY <1>1, EvalAllowedRefines
<1>2. ASSUME NEW c \in Clients, NEW ts \in Stamps, EvalLimited(c, ts)
      PROVE  UNCHANGED Bucket!vars
  BY <1>2, StutterRefines DEF EvalLimited
<1>3. ASSUME NEW c \in Clients, FailOpen(c)
      PROVE  UNCHANGED Bucket!vars
  BY <1>3, StutterRefines DEF FailOpen
<1>4. ASSUME Tick PROVE UNCHANGED Bucket!vars
  BY <1>4, StutterRefines DEF Tick
<1>5. ASSUME UNCHANGED vars PROVE UNCHANGED Bucket!vars
  BY <1>5, StutterRefines DEF vars
<1> QED
  BY <1>1, <1>2, <1>3, <1>4, <1>5 DEF Next

\* For every capacity, rate, period and admissible skew the script implements
\* buckets that are never forgotten, although its hashes expire.
THEOREM LimiterRefinesBucket == Spec => ImplementsBucket
<1>1. Init => Bucket!Init
  BY InitRefines
<1>2. Inv /\ [Next]_vars => [Bucket!Next]_(Bucket!vars)
  BY NextRefines
<1> QED
  BY <1>1, <1>2, InvHolds, PTL DEF Spec, ImplementsBucket, Bucket!Spec

\* Levels stay between empty and full, whatever the clocks do.
THEOREM TypeCorrect == Spec => []TypeOK
<1>1. Inv => TypeOK
  BY DEF Inv
<1> QED
  BY <1>1, InvHolds, PTL

BP == INSTANCE TokenBucketProofs WITH
    bucket <- [c \in Clients |->
                 IF store[c] = None THEN None
                 ELSE [tokens |-> store[c].tokens, last |-> store[c].last]],
    Times <- 0..(Horizon + MaxAhead)

\* The script admits no client more than a full bucket plus what was refilled,
\* across the expiries of its hash: it inherits the bound of the buckets.
THEOREM RateIsBounded == Spec => []RateBound
<1>1. BP!BucketAssumption /\ BP!NoBucketAssumption
  <2>1. 0..(Horizon + MaxAhead) \subseteq Nat
    BY LimiterAssumption
  <2> QED
    BY <2>1, LimiterAssumption, NoneAssumption
    DEF BP!BucketAssumption, BP!NoBucketAssumption, BP!Bucket, Bucket!Bucket,
        BP!Full, Bucket!Full
<1>2. Init => BP!Inv
  <2>1. Bucket!Init => BP!Init
    BY DEF Bucket!Init, BP!Init
  <2> QED
    BY <1>1, <2>1, InitRefines, BP!InitInv
<1>3. BP!Inv /\ Inv /\ [Next]_vars => BP!Inv'
  <2>1. [Bucket!Next]_(Bucket!vars) => [BP!Next]_(BP!vars)
    BY DEF Bucket!Next, BP!Next, Bucket!vars, BP!vars, Bucket!Admit, BP!Admit,
           Bucket!Found, BP!Found, Bucket!Refill, BP!Refill, Bucket!Cap, BP!Cap,
           Bucket!Full, BP!Full
  <2>2. BP!Inv /\ [BP!Next]_(BP!vars) => BP!Inv'
    BY <1>1, BP!NextInv
  <2> QED
    BY <2>1, <2>2, NextRefines
<1>4. BP!Inv => RateBound
  BY DEF BP!Inv, RateBound, Bucket!RateBound, BP!RateBound, Bucket!Full, BP!Full
<1> QED
  BY <1>2, <1>3, <1>4, InvHolds, PTL DEF Spec

-----------------------------------------------------------------------------
(* Retry-After.                                                              *)

\* The seconds of Retry-After, and the one the rounding drops, are not less than
\* the refill period.
LEMMA WaitCovers ==
    (RetryAfter + Dropped) * Second \in Nat /\ (RetryAfter + Dropped) * Second >= RefillPeriod
<1> DEFINE p == RefillPeriod
           s == Second
           q == p \div s
<1>1. p \in Nat /\ s \in Nat /\ s > 0
  BY LimiterAssumption
<1>2. q \in Nat /\ p < q * s + s
  BY <1>1
<1>3. q * s \in Nat /\ (q + 1) * s = q * s + s
  BY <1>1, <1>2
<1>4. RetryAfter = q
  BY DEF RetryAfter
<1> HIDE DEF q
<1>5. ASSUME NEW n \in 0..p, p = n * s
      PROVE  q * s >= p
  <2>1. CASE n <= q
    BY <1>1, <1>2, <1>5, <2>1
  <2>2. CASE n >= q + 1
    <3>1. n * s >= (q + 1) * s
      BY <1>1, <1>2, <2>2
    <3> QED
      BY <1>1, <1>2, <1>3, <1>5, <3>1
  <2> QED
    BY <1>1, <1>2, <2>1, <2>2
<1>6. CASE \E n \in 0..p : p = n * s
  <2>1. RetryAfter + Dropped = q
    BY <1>2, <1>4, <1>6 DEF Dropped
  <2> QED
    BY <1>3, <1>5, <1>6, <2>1
<1>7. CASE ~\E n \in 0..p : p = n * s
  <2>1. RetryAfter + Dropped = q + 1
    BY <1>4, <1>7 DEF Dropped
  <2> QED
    BY <1>1, <1>2, <1>3, <2>1
<1> QED
  BY <1>6, <1>7

\* Since a request of c was rejected its hash has not changed, and the last_update
\* in it was then at most MaxAhead in the future.
Rejected ==
    \A c \in Clients :
       reply[c].status = "limited" /\ store[c] # None =>
          store[c].last <= reply[c].at + MaxAhead

LEMMA LastBound ==
    ASSUME Inv, NEW c \in Clients, store[c] # None
    PROVE  store[c].last <= now + MaxAhead
<1>1. /\ store[c].expireAt <= now + Life
      /\ store[c].last + Life <= store[c].expireAt + MaxAhead
  BY DEF Inv, Clocks
<1>2. store[c].last \in Nat /\ store[c].expireAt \in Nat /\ now \in Nat
  BY HashFields DEF Inv, TypeOK
<1>3. MaxAhead \in Nat /\ Life \in Nat
  BY LimiterAssumption, LifeCovers
<1> QED
  BY <1>1, <1>2, <1>3

LEMMA RejectedStep == Inv /\ Rejected /\ [Next]_vars => Rejected'
<1> SUFFICES ASSUME Inv, Rejected, [Next]_vars PROVE Rejected'
  OBVIOUS
<1>1. reply \in [Clients -> Reply] /\ store \in [Clients -> Hash \cup {None}]
  BY DEF Inv, TypeOK
<1>2. ASSUME NEW c \in Clients, NEW ts \in Stamps, EvalAllowed(c, ts) PROVE Rejected'
  <2>1. reply'[c].status # "limited" /\ \A d \in Clients : d # c => reply'[d] = reply[d]
    BY <1>1, <1>2 DEF EvalAllowed, Answered, Open, Replied
  <2>2. \A d \in Clients : d # c => store'[d] = store[d]
    BY <1>1, <1>2 DEF EvalAllowed
  <2> QED
    BY <2>1, <2>2 DEF Rejected
<1>3. ASSUME NEW c \in Clients, NEW ts \in Stamps, EvalLimited(c, ts) PROVE Rejected'
  <2>1. store' = store
    BY <1>3 DEF EvalLimited
  <2>2. \A d \in Clients : d # c => reply'[d] = reply[d]
    BY <1>1, <1>3 DEF EvalLimited, Answered, Open, Replied
  <2>3. reply'[c].at = now
    BY <1>1, <1>3 DEF EvalLimited, Answered, Open, Replied
  <2> QED
    BY <2>1, <2>2, <2>3, LastBound DEF Rejected
<1>4. ASSUME NEW c \in Clients, FailOpen(c) PROVE Rejected'
  <2>1. reply'[c].status # "limited" /\ \A d \in Clients : d # c => reply'[d] = reply[d]
    BY <1>1, <1>4 DEF FailOpen, Open, Replied
  <2> QED
    BY <1>4, <2>1 DEF FailOpen, Rejected
<1>5. CASE Tick \/ UNCHANGED vars
  BY <1>5 DEF Tick, vars, Rejected
<1> QED
  BY <1>2, <1>3, <1>4, <1>5 DEF Next

\* Whatever the capacity, rate, period and skew, a client that observes
\* Retry-After is not limited again for want of time.
THEOREM RetryAfterIsEnough == Spec => []RetryAfterSuffices
<1>1. Init => Rejected
  BY DEF Init, Rejected
<1>2. Inv /\ Rejected => RetryAfterSuffices
  <2> DEFINE wait == (RetryAfter + Dropped) * Second
  <2> SUFFICES ASSUME Inv, Rejected, NEW c \in Clients, reply[c].status = "limited",
                      NEW ts \in Stamps, ts >= reply[c].at + MaxAhead + wait
               PROVE  Tokens(c, ts) >= RefillPeriod
    BY DEF RetryAfterSuffices
  <2>1. wait \in Nat /\ wait >= RefillPeriod
    BY WaitCovers
  <2> HIDE DEF wait
  <2>2. /\ ts \in Nat /\ reply[c].at \in Nat /\ MaxAhead \in Nat
        /\ RefillPeriod \in Nat /\ RefillPeriod > 0 /\ Full \in Nat /\ Full >= RefillPeriod
    BY StampBounds, LimiterAssumption, FullType DEF Inv, TypeOK, Reply
  <2>3. CASE ~Live(c)
    BY <2>2, <2>3 DEF Tokens
  <2>4. CASE Live(c)
    <3> DEFINE gap == ts - store[c].last
    <3>1. store[c] # None
      BY <2>4 DEF Live
    <3>2. store[c].tokens \in Nat /\ store[c].last \in Nat
      BY <3>1, HashFields DEF Inv
    <3>3. store[c].last <= reply[c].at + MaxAhead
      BY <3>1 DEF Rejected
    <3>4. gap \in Nat /\ gap >= RefillPeriod /\ ts > store[c].last
      BY <2>1, <2>2, <3>2, <3>3
    <3> HIDE DEF gap
    <3>5. gap * RefillRate \in Nat /\ gap * RefillRate >= gap
      BY <3>4, LimiterAssumption
    <3>6. Tokens(c, ts) = Cap(store[c].tokens + gap * RefillRate)
      BY <2>4, <3>4 DEF Tokens, gap
    <3> DEFINE level == store[c].tokens + gap * RefillRate
    <3>7. level \in Nat /\ level >= RefillPeriod
      BY <2>2, <3>2, <3>4, <3>5
    <3> HIDE DEF level
    <3> QED
      BY <2>2, <3>6, <3>7 DEF Cap, level
  <2> QED
    BY <2>3, <2>4
<1> QED
  BY <1>1, <1>2, RejectedStep, InvHolds, PTL DEF Spec

=============================================================================
