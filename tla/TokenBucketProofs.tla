------------------------- MODULE TokenBucketProofs -------------------------
(* The bound on what a bucket admits, for every capacity, rate and period    *)
(* and for timestamps in any order.                                          *)
EXTENDS TokenBucket, Integers, TLAPS

\* A client without a bucket has not been admitted yet.
Inv ==
    /\ TypeOK
    /\ RateBound
    /\ \A c \in Clients : bucket[c] = None => admitted[c] = 0

-----------------------------------------------------------------------------
(* Arithmetic.                                                               *)

LEMMA FullType == Full \in Nat /\ Full >= RefillPeriod
BY BucketAssumption DEF Full

LEMMA Distributes ==
    ASSUME NEW x \in Int, NEW y \in Int, NEW k \in Int
    PROVE  (x + y) * k = x * k + y * k
OBVIOUS

\* One more admitted request costs one more period.
LEMMA OneMore ==
    ASSUME NEW n \in Nat
    PROVE  /\ (n + 1) * RefillPeriod = n * RefillPeriod + RefillPeriod
           /\ n * RefillPeriod \in Nat
BY BucketAssumption, Distributes

LEMMA Refilled ==
    ASSUME NEW n \in Nat
    PROVE  n * RefillRate \in Nat
BY BucketAssumption

\* What is refilled over two stretches is what is refilled over both.
LEMMA Stretch ==
    ASSUME NEW a \in Nat, NEW b \in Nat, NEW t \in Nat, a <= b, b <= t
    PROVE  /\ (t - a) * RefillRate = (b - a) * RefillRate + (t - b) * RefillRate
           /\ (t - a) * RefillRate \in Nat
           /\ (t - b) * RefillRate \in Nat
           /\ (b - a) * RefillRate \in Nat
<1>1. t - a = (b - a) + (t - b)
  OBVIOUS
<1>2. t - a \in Nat /\ t - b \in Nat /\ b - a \in Nat
  OBVIOUS
<1>3. ((b - a) + (t - b)) * RefillRate = (b - a) * RefillRate + (t - b) * RefillRate
  BY <1>2, BucketAssumption, Distributes
<1> QED
  BY <1>1, <1>2, <1>3, Refilled

-----------------------------------------------------------------------------
\* A refill keeps the level in its range, never turns the clock back and adds
\* no more than the time that passed.
LEMMA RefillBound ==
    ASSUME NEW b \in Bucket, NEW ts \in Nat
    PROVE  /\ Refill(b, ts) \in Bucket
           /\ b.last <= Refill(b, ts).last
           /\ Refill(b, ts).tokens <= b.tokens + (Refill(b, ts).last - b.last) * RefillRate
<1>1. b.tokens \in Nat /\ b.tokens <= Full /\ b.last \in Nat
  BY FullType DEF Bucket
<1>2. CASE ts > b.last
  <2> DEFINE more == (ts - b.last) * RefillRate
  <2>1. more \in Nat
    <3>1. ts - b.last \in Nat
      BY <1>1, <1>2
    <3> QED
      BY <3>1, Refilled
  <2>2. Refill(b, ts) = [tokens |-> Cap(b.tokens + more), last |-> ts]
    BY <1>2 DEF Refill
  <2>3. Cap(b.tokens + more) \in 0..Full /\ Cap(b.tokens + more) <= b.tokens + more
    <3> HIDE DEF more
    <3> QED BY <1>1, <2>1, FullType DEF Cap
  <2>4. Refill(b, ts).tokens = Cap(b.tokens + more) /\ Refill(b, ts).last = ts
    BY <2>2
  <2>5. Refill(b, ts) \in Bucket
    BY <2>2, <2>3 DEF Bucket
  <2> QED
    BY <1>1, <1>2, <2>3, <2>4, <2>5
<1>3. CASE ~(ts > b.last)
  <2>1. Refill(b, ts) = b
    BY <1>3 DEF Refill
  <2>2. (b.last - b.last) * RefillRate = 0
    BY <1>1, BucketAssumption
  <2> QED
    BY <1>1, <2>1, <2>2
<1> QED
  BY <1>2, <1>3

LEMMA FoundType ==
    ASSUME TypeOK, NEW c \in Clients, NEW ts \in Nat
    PROVE  Found(c, ts) \in Bucket
<1>1. CASE bucket[c] = None
  BY <1>1, FullType DEF Found, Bucket
<1>2. CASE bucket[c] # None
  <2>1. bucket[c] \in Bucket
    BY <1>2 DEF TypeOK
  <2> QED
    BY <1>2, <2>1, RefillBound DEF Found
<1> QED
  BY <1>1, <1>2

-----------------------------------------------------------------------------
LEMMA InitInv == Init => Inv
<1> SUFFICES ASSUME Init PROVE Inv
  OBVIOUS
<1>1. TypeOK
  BY DEF Init, TypeOK
<1>2. \A c \in Clients : bucket[c] = None /\ admitted[c] = 0
  BY DEF Init
<1> QED
  BY <1>1, <1>2 DEF Inv, RateBound

LEMMA AdmitInv ==
    ASSUME Inv, NEW c \in Clients, NEW ts \in Times, Admit(c, ts)
    PROVE  Inv'
<1> DEFINE b == Found(c, ts)
           new == [tokens |-> b.tokens - RefillPeriod, last |-> b.last]
<1>1. TypeOK /\ ts \in Nat
  BY BucketAssumption DEF Inv
<1>2. b \in Bucket /\ b.tokens \in Nat /\ b.tokens <= Full /\ b.last \in Nat
  BY <1>1, FoundType, FullType DEF Bucket
<1>3. /\ b.tokens >= RefillPeriod
      /\ bucket' = [bucket EXCEPT ![c] = new]
      /\ since' = IF bucket[c] = None THEN [since EXCEPT ![c] = ts] ELSE since
      /\ admitted' = [admitted EXCEPT ![c] = @ + 1]
  BY DEF Admit
<1>4. new \in Bucket /\ new.tokens = b.tokens - RefillPeriod /\ new.last = b.last
  <2>1. b.tokens - RefillPeriod \in 0..Full
    BY <1>2, <1>3, FullType, BucketAssumption
  <2> QED
    BY <1>2, <2>1 DEF Bucket
<1>5. /\ bucket'[c] = new
      /\ admitted'[c] = admitted[c] + 1
      /\ admitted[c] \in Nat
      /\ since[c] \in Nat
      /\ since'[c] = IF bucket[c] = None THEN ts ELSE since[c]
  BY <1>1, <1>3 DEF TypeOK
<1> HIDE DEF new, b
<1>6. TypeOK'
  <2>1. bucket' \in [Clients -> Bucket \cup {None}]
    BY <1>1, <1>3, <1>4 DEF TypeOK
  <2>2. since' \in [Clients -> Nat] /\ admitted' \in [Clients -> Nat]
    BY <1>1, <1>3 DEF TypeOK
  <2> QED
    BY <2>1, <2>2 DEF TypeOK
<1>7. /\ since'[c] <= new.last
      /\ admitted'[c] * RefillPeriod + new.tokens
            <= Full + (new.last - since'[c]) * RefillRate
  <2>1. CASE bucket[c] = None
    <3>1. b.tokens = Full /\ b.last = ts
      BY <2>1 DEF b, Found
    <3>2. admitted[c] = 0 /\ since'[c] = ts
      BY <1>5, <2>1 DEF Inv
    <3>3. (ts - ts) * RefillRate = 0 /\ 1 * RefillPeriod = RefillPeriod
      BY <1>1, BucketAssumption
    <3> QED
      BY <1>1, <1>2, <1>4, <1>5, <3>1, <3>2, <3>3, FullType, BucketAssumption
  <2>2. CASE bucket[c] # None
    <3> DEFINE old == bucket[c]
    <3>1. /\ old \in Bucket
          /\ old.tokens \in Nat
          /\ old.last \in Nat
      BY <1>1, <2>2, FullType DEF TypeOK, Bucket
    <3>2. /\ since[c] <= old.last
          /\ admitted[c] * RefillPeriod + old.tokens <= Full + (old.last - since[c]) * RefillRate
      BY <2>2 DEF Inv, RateBound
    <3>3. b = Refill(old, ts)
      BY <2>2 DEF b, Found
    <3>4. /\ old.last <= b.last
          /\ b.tokens <= old.tokens + (b.last - old.last) * RefillRate
      BY <1>1, <3>1, <3>3, RefillBound
    <3>5. since'[c] = since[c]
      BY <1>5, <2>2
    <3> HIDE DEF old
    <3>6. /\ (b.last - since[c]) * RefillRate
                = (old.last - since[c]) * RefillRate + (b.last - old.last) * RefillRate
          /\ (old.last - since[c]) * RefillRate \in Nat
          /\ (b.last - old.last) * RefillRate \in Nat
      <4>1. since[c] \in Nat /\ old.last \in Nat /\ b.last \in Nat
        BY <1>2, <1>5, <3>1
      <4>2. since[c] <= old.last /\ old.last <= b.last
        BY <3>2, <3>4
      <4>3. \A x, y, z \in Nat :
               x <= y /\ y <= z =>
                  /\ (z - x) * RefillRate = (y - x) * RefillRate + (z - y) * RefillRate
                  /\ (y - x) * RefillRate \in Nat
                  /\ (z - y) * RefillRate \in Nat
        BY Stretch
      <4> QED
        BY <4>1, <4>2, <4>3, Zenon
    <3>7. /\ admitted'[c] * RefillPeriod = admitted[c] * RefillPeriod + RefillPeriod
          /\ admitted[c] * RefillPeriod \in Nat
      BY <1>5, OneMore
    <3>8. admitted'[c] * RefillPeriod + new.tokens = admitted[c] * RefillPeriod + b.tokens
      BY <1>2, <1>4, <3>7, BucketAssumption
    <3>9. admitted[c] * RefillPeriod + b.tokens
             <= Full + (b.last - since[c]) * RefillRate
      <4> DEFINE A == admitted[c] * RefillPeriod
                 X == (old.last - since[c]) * RefillRate
                 Y == (b.last - old.last) * RefillRate
      <4>1. /\ A \in Nat /\ X \in Nat /\ Y \in Nat
            /\ A + old.tokens <= Full + X
            /\ b.tokens <= old.tokens + Y
        BY <3>2, <3>4, <3>6, <3>7
      <4>2. (b.last - since[c]) * RefillRate = X + Y
        BY <3>6
      <4> HIDE DEF A, X, Y
      <4>3. A + b.tokens <= Full + (X + Y)
        BY <1>2, <3>1, <4>1, FullType
      <4> QED
        BY <4>2, <4>3 DEF A
    <3> QED
      BY <1>2, <1>4, <1>5, <3>2, <3>1, <3>4, <3>5, <3>8, <3>9
  <2> QED
    BY <2>1, <2>2
<1>8. ASSUME NEW d \in Clients, d # c
      PROVE  /\ bucket'[d] = bucket[d]
             /\ since'[d] = since[d]
             /\ admitted'[d] = admitted[d]
  BY <1>1, <1>3, <1>8 DEF TypeOK
<1>9. RateBound'
  <2> SUFFICES ASSUME NEW d \in Clients, bucket'[d] # None
               PROVE  /\ since'[d] <= bucket'[d].last
                      /\ admitted'[d] * RefillPeriod + bucket'[d].tokens
                            <= Full + (bucket'[d].last - since'[d]) * RefillRate
    BY DEF RateBound, Full
  <2>1. CASE d = c
    BY <1>5, <1>7, <2>1
  <2>2. CASE d # c
    <3>1. bucket[d] # None
      BY <1>8, <2>2
    <3>2. /\ since[d] <= bucket[d].last
          /\ admitted[d] * RefillPeriod + bucket[d].tokens
                <= Full + (bucket[d].last - since[d]) * RefillRate
      BY <3>1 DEF Inv, RateBound
    <3> QED
      BY <1>8, <2>2, <3>2
  <2> QED
    BY <2>1, <2>2
<1>10. \A d \in Clients : bucket'[d] = None => admitted'[d] = 0
  <2> SUFFICES ASSUME NEW d \in Clients, bucket'[d] = None PROVE admitted'[d] = 0
    OBVIOUS
  <2>1. d # c
    BY <1>4, <1>5, NoBucketAssumption
  <2> QED
    BY <1>8, <2>1 DEF Inv
<1> QED
  BY <1>6, <1>9, <1>10 DEF Inv

LEMMA NextInv == Inv /\ [Next]_vars => Inv'
<1> SUFFICES ASSUME Inv, [Next]_vars PROVE Inv'
  OBVIOUS
<1>1. CASE Next
  BY <1>1, AdmitInv DEF Next
<1>2. CASE UNCHANGED vars
  BY <1>2 DEF vars, Inv, TypeOK, RateBound
<1> QED
  BY <1>1, <1>2

LEMMA InvHolds == Spec => []Inv
BY InitInv, NextInv, PTL DEF Spec

\* A level is never above full nor below empty, in every bucket.
THEOREM TypeCorrect == Spec => []TypeOK
<1>1. Inv => TypeOK
  BY DEF Inv
<1> QED
  BY <1>1, InvHolds, PTL

\* No client is ever admitted more than a full bucket plus what was refilled
\* since its first request, whatever order its timestamps arrive in.
THEOREM RateIsBounded == Spec => []RateBound
<1>1. Inv => RateBound
  BY DEF Inv
<1> QED
  BY <1>1, InvHolds, PTL

=============================================================================
