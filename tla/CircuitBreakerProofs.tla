------------------------ MODULE CircuitBreakerProofs ------------------------
(* Proofs about CircuitBreaker for any number of overlapping calls and every *)
(* setting of the breaker.                                                   *)
EXTENDS CircuitBreaker, FiniteSetTheorems, TLAPS

-----------------------------------------------------------------------------
(* Type correctness.                                                         *)

\* A new generation is a breaker in the state asked for, with empty counts.
LEMMA NewGenerationType ==
    ASSUME NEW s \in {"closed", "halfopen", "open"}
    PROVE  /\ NewGeneration(s) \in Breaker
           /\ NewGeneration(s).state = s
           /\ NewGeneration(s).requests = 0
           /\ NewGeneration(s).successes = 0
           /\ NewGeneration(s).failures = 0
<1>1. Life(s) \in Nat
      BY BreakerAssumption DEF Life
<1> QED
    BY <1>1 DEF NewGeneration, Breaker

\* What a caller finds is a breaker: the one there is, or a new generation.
LEMMA CurrentStateType ==
    ASSUME TypeOK
    PROVE  /\ CurrentState \in Breaker
           /\ ~Lapsed => CurrentState = brk
           /\ Lapsed => \E s \in {"closed", "halfopen"} : CurrentState = NewGeneration(s)
BY NewGenerationType DEF CurrentState, TypeOK

\* Outdating calls keeps their type.
LEMMA OutdatedType ==
    ASSUME TypeOK
    PROVE  /\ Outdated(call) \in [Calls -> Call]
           /\ \A c \in Calls : ~Outdated(call)[c].current
BY DEF Outdated, TypeOK, Call

\* A result adds one to its count, or ends the generation.
LEMMA AfterType ==
    ASSUME NEW b \in Breaker
    PROVE  /\ AfterSuccess(b) \in Breaker
           /\ AfterFailure(b) \in Breaker
<1>1. /\ [b EXCEPT !.successes = @ + 1] \in Breaker
      /\ [b EXCEPT !.failures = @ + 1] \in Breaker
      BY DEF Breaker
<1> QED
    BY <1>1, NewGenerationType DEF AfterSuccess, AfterFailure

LEMMA TypeStep == TypeOK /\ [Next]_vars => TypeOK'
<1> SUFFICES ASSUME TypeOK, [Next]_vars
             PROVE  TypeOK'
    OBVIOUS
<1>1. /\ CurrentState \in Breaker
      /\ (IF Lapsed THEN Outdated(call) ELSE call) \in [Calls -> Call]
      BY CurrentStateType, OutdatedType DEF TypeOK
<1>2. NoCall \in Call
      BY BreakerAssumption DEF NoCall, Call
<1>3. ASSUME NEW c \in Calls, Begin(c)
      PROVE  TypeOK'
  <2>1. [CurrentState EXCEPT !.requests = @ + 1] \in Breaker
        BY <1>1 DEF Breaker
  <2>2. [running |-> TRUE, current |-> TRUE, age |-> 0, mayFail |-> faulty] \in Call
        BY BreakerAssumption DEF Call, TypeOK
  <2> QED
      BY <1>1, <1>3, <2>1, <2>2 DEF Begin, TypeOK
<1>4. ASSUME NEW c \in Calls, Refuse(c)
      PROVE  TypeOK'
      BY <1>1, <1>4 DEF Refuse, TypeOK
<1>5. ASSUME NEW c \in Calls, NEW b \in Breaker, Finish(c, b)
      PROVE  TypeOK'
      BY <1>1, <1>2, <1>5, OutdatedType DEF Finish, TypeOK
<1>6. ASSUME NEW c \in Calls, Succeed(c) \/ Fail(c)
      PROVE  TypeOK'
      BY <1>1, <1>5, <1>6, AfterType DEF Succeed, Fail
<1>7. CASE Tick
  <2>1. [brk EXCEPT !.left = IF @ > 0 THEN @ - 1 ELSE 0] \in Breaker
        BY DEF TypeOK, Breaker
  <2>2. \A c \in Calls : call[c].running => [call[c] EXCEPT !.age = @ + 1] \in Call
        BY <1>7, BreakerAssumption DEF Tick, InTime, TypeOK, Call
  <2> QED
      BY <1>7, <2>1, <2>2 DEF Tick, TypeOK
<1>8. CASE Turn \/ UNCHANGED vars
      BY <1>8 DEF Turn, vars, TypeOK
<1> QED
    BY <1>3, <1>4, <1>6, <1>7, <1>8 DEF Next

\* Type correctness, for every setting of the breaker.
THEOREM TypeCorrect == Spec => []TypeOK
<1>1. Init => TypeOK
      BY NewGenerationType, BreakerAssumption DEF Init, TypeOK, NoCall, Call
<1> QED
    BY <1>1, TypeStep, PTL DEF Spec

-----------------------------------------------------------------------------
(* The inductive invariant.                                                  *)

\* Breaker b has the calls P of its generation under way.
Good(b, P) ==
    /\ b.requests = b.successes + b.failures + Cardinality(P)
    /\ b.state = "open" => P = {}
    /\ b.state = "halfopen" =>
          b.failures = 0 /\ b.successes < MaxRequests /\ b.requests <= MaxRequests

Inv == TypeOK /\ Good(brk, Pending)

\* The calls of the generation a caller finds.
Found == IF Lapsed THEN {} ELSE Pending

\* There are finitely many calls under way.
LEMMA PendingFinite == IsFiniteSet(Pending) /\ Cardinality(Pending) \in Nat
<1>1. Pending \subseteq Calls
      BY DEF Pending
<1> QED
    BY <1>1, BreakerAssumption, FS_Subset, FS_CardinalityType

\* A new generation starts without calls.
LEMMA GoodNew ==
    ASSUME NEW s \in {"closed", "halfopen", "open"}
    PROVE  Good(NewGeneration(s), {})
BY NewGenerationType, FS_EmptySet, BreakerAssumption DEF Good

\* What a caller finds accounts for the calls of its generation.
LEMMA GoodFound ==
    ASSUME Inv
    PROVE  Good(CurrentState, Found) /\ IsFiniteSet(Found)
<1>1. CASE Lapsed
      BY <1>1, CurrentStateType, GoodNew, FS_EmptySet DEF Inv, Found
<1>2. CASE ~Lapsed
      BY <1>2, CurrentStateType, PendingFinite DEF Inv, Found
<1> QED
    BY <1>1, <1>2

\* The calls under way once those that were there have been outdated, if the
\* generation has lapsed, and call c has been replaced by e.
LEMMA PendingAfter ==
    ASSUME TypeOK, NEW c \in Calls, NEW e \in Call, NEW old \in BOOLEAN,
           call' = [(IF old THEN Outdated(call) ELSE call) EXCEPT ![c] = e]
    PROVE  Pending' = ((IF old THEN {} ELSE Pending) \ {c})
                         \cup (IF e.running /\ e.current THEN {c} ELSE {})
<1>1. CASE old
      BY <1>1, OutdatedType DEF Pending, TypeOK
<1>2. CASE ~old
      BY <1>2 DEF Pending, TypeOK
<1> QED
    BY <1>1, <1>2

LEMMA BeginInv ==
    ASSUME Inv, TypeOK', NEW c \in Calls, Begin(c)
    PROVE  Inv'
<1>1. c \notin Found /\ Pending' = Found \cup {c}
  <2> DEFINE e == [running |-> TRUE, current |-> TRUE, age |-> 0, mayFail |-> faulty]
  <2>1. e \in Call /\ e.running /\ e.current
        BY BreakerAssumption DEF Inv, TypeOK, Call
  <2>2. Lapsed \in BOOLEAN
        BY DEF Lapsed
  <2>3. call' = [(IF Lapsed THEN Outdated(call) ELSE call) EXCEPT ![c] = e]
        BY DEF Begin
  <2> HIDE DEF e
  <2>4. Pending' = (Found \ {c}) \cup {c}
        BY <2>1, <2>2, <2>3, PendingAfter DEF Inv, Found
  <2> QED
      BY <2>4 DEF Begin, Found, Pending
<1>2. Cardinality(Pending') = Cardinality(Found) + 1 /\ Cardinality(Found) \in Nat
      BY <1>1, GoodFound, FS_AddElement, FS_CardinalityType
<1>3. CurrentState \in Breaker
      BY CurrentStateType DEF Inv
<1>4. Good(brk', Pending')
      BY <1>2, <1>3, GoodFound, BreakerAssumption DEF Begin, Admits, Good, Breaker
<1> QED
    BY <1>4 DEF Inv

LEMMA RefuseInv ==
    ASSUME Inv, TypeOK', NEW c \in Calls, Refuse(c)
    PROVE  Inv'
<1>1. Pending' = Found
  <2>1. CASE Lapsed
        BY <2>1, OutdatedType DEF Refuse, Found, Pending, Inv
  <2>2. CASE ~Lapsed
        BY <2>2 DEF Refuse, Found, Pending
  <2> QED
      BY <2>1, <2>2
<1> QED
    BY <1>1, GoodFound DEF Inv, Refuse

\* A counted result leaves its generation with one call less under way, or ends it.
LEMMA AfterGood ==
    ASSUME Inv, NEW c \in Pending, NEW b \in {AfterSuccess(brk), AfterFailure(brk)}
    PROVE  \/ b.state # brk.state /\ Good(b, {})
           \/ b.state = brk.state /\ Good(b, Pending \ {c})
<1>1. /\ Cardinality(Pending \ {c}) = Cardinality(Pending) - 1
      /\ Cardinality(Pending) \in Nat /\ Cardinality(Pending) # 0
      BY PendingFinite, FS_RemoveElement, FS_EmptySet
<1>2. brk \in Breaker /\ Good(brk, Pending) /\ brk.state \in {"closed", "halfopen"}
      BY DEF Inv, TypeOK, Breaker, Good
<1>3. CASE b = AfterSuccess(brk)
  <2>1. CASE brk.state = "halfopen" /\ brk.successes + 1 >= MaxRequests
        BY <1>3, <2>1, NewGenerationType, GoodNew DEF AfterSuccess
  <2>2. CASE ~(brk.state = "halfopen" /\ brk.successes + 1 >= MaxRequests)
    <3>1. b = [brk EXCEPT !.successes = @ + 1]
          BY <1>3, <2>2 DEF AfterSuccess
    <3> QED
        BY <1>1, <1>2, <2>2, <3>1, BreakerAssumption DEF Good, Breaker
  <2> QED
      BY <2>1, <2>2
<1>4. CASE b = AfterFailure(brk)
  <2> DEFINE f == [brk EXCEPT !.failures = @ + 1]
  <2>1. CASE brk.state = "halfopen" \/ ReadyToTrip(f)
        BY <1>2, <1>4, <2>1, NewGenerationType, GoodNew DEF AfterFailure
  <2>2. CASE ~(brk.state = "halfopen" \/ ReadyToTrip(f))
    <3>1. b = f
          BY <1>4, <2>2 DEF AfterFailure
    <3> QED
        BY <1>1, <1>2, <2>2, <3>1 DEF Good, Breaker
  <2> QED
      BY <2>1, <2>2
<1> QED
    BY <1>3, <1>4

LEMMA FinishInv ==
    ASSUME Inv, TypeOK', NEW c \in Calls, call[c].running,
           Finish(c, AfterSuccess(CurrentState)) \/ Finish(c, AfterFailure(CurrentState))
    PROVE  Inv'
<1>1. PICK b \in {AfterSuccess(CurrentState), AfterFailure(CurrentState)} : Finish(c, b)
      OBVIOUS
<1> DEFINE old == Lapsed \/ (Counted(c) /\ b.state # brk.state)
<1>2. Pending' = (IF old THEN {} ELSE Pending) \ {c}
  <2>1. NoCall \in Call /\ ~NoCall.running
        BY BreakerAssumption DEF NoCall, Call
  <2>2. old \in BOOLEAN
        BY DEF Lapsed, Counted
  <2>3. call' = [(IF old THEN Outdated(call) ELSE call) EXCEPT ![c] = NoCall]
        BY <1>1 DEF Finish
  <2> HIDE DEF old
  <2>4. Pending' = ((IF old THEN {} ELSE Pending) \ {c}) \cup {}
        BY <2>1, <2>2, <2>3, PendingAfter DEF Inv
  <2> QED
      BY <2>4
<1>3. CASE Counted(c)
  <2>1. c \in Pending /\ ~Lapsed /\ CurrentState = brk
        BY <1>3, CurrentStateType DEF Counted, Pending, Inv
  <2>2. b \in {AfterSuccess(brk), AfterFailure(brk)} /\ brk' = b
        BY <1>1, <1>3, <2>1 DEF Finish
  <2> QED
      BY <1>2, <1>3, <2>1, <2>2, AfterGood DEF Inv
<1>4. CASE ~Counted(c)
  <2>1. brk' = CurrentState
        BY <1>1, <1>4 DEF Finish
  <2>2. Pending' = Found
        BY <1>2, <1>4 DEF Counted, Found, Pending
  <2> QED
      BY <2>1, <2>2, GoodFound DEF Inv
<1> QED
    BY <1>3, <1>4

LEMMA InvStep == Inv /\ [Next]_vars => Inv'
<1> SUFFICES ASSUME Inv, [Next]_vars
             PROVE  Inv'
    OBVIOUS
<1>1. TypeOK'
      BY TypeStep DEF Inv
<1>2. CASE Tick
  <2>1. Pending' = Pending
        BY <1>2 DEF Tick, Pending, Inv, TypeOK, Call
  <2>2. /\ brk'.state = brk.state /\ brk'.requests = brk.requests
        /\ brk'.successes = brk.successes /\ brk'.failures = brk.failures
        BY <1>2 DEF Tick, Inv, TypeOK, Breaker
  <2> QED
      BY <1>1, <2>1, <2>2 DEF Inv, Good
<1>3. CASE Turn \/ UNCHANGED vars
      BY <1>1, <1>3 DEF Turn, vars, Inv, Pending
<1> QED
    BY <1>1, <1>2, <1>3, BeginInv, RefuseInv, FinishInv DEF Next, Succeed, Fail

LEMMA Invariant == Spec => []Inv
<1>1. Init => Inv
  <2> SUFFICES ASSUME Init PROVE Inv
      OBVIOUS
  <2>1. TypeOK
        BY NewGenerationType, BreakerAssumption DEF Init, TypeOK, NoCall, Call
  <2>2. Pending = {}
        BY DEF Init, Pending, NoCall
  <2> QED
      BY <2>1, <2>2, GoodNew DEF Init, Inv
<1> QED
    BY <1>1, InvStep, PTL DEF Spec

-----------------------------------------------------------------------------
(* The properties.                                                           *)

\* Whatever calls overlap with whatever changes of the breaker, its counts are
\* those of the calls of its generation.
THEOREM CountsAreExact == Spec => []CountsAddUp
<1>1. Inv => CountsAddUp
      BY DEF Inv, Good, CountsAddUp
<1> QED
    BY <1>1, Invariant, PTL

\* A breaker that is not closed bounds the calls that reach the intranet.
THEOREM ProbesAreBounded == Spec => []ProbesBounded
<1>1. Inv => ProbesBounded
      BY PendingFinite, BreakerAssumption DEF Inv, Good, ProbesBounded, TypeOK, Breaker
<1> QED
    BY <1>1, Invariant, PTL

\* A half-open breaker never turns callers away with nothing left to decide it.
THEOREM ProbesAlwaysDecide == Spec => []ProbesDecide
<1>1. Inv => ProbesDecide
      BY FS_EmptySet, BreakerAssumption DEF Inv, Good, ProbesDecide, Admits, TypeOK, Breaker
<1> QED
    BY <1>1, Invariant, PTL

=============================================================================
