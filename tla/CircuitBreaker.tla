--------------------------- MODULE CircuitBreaker ---------------------------
(* The breaker around the edge's calls to the intranet: gobreaker with the   *)
(* settings of NewBankingService.  Calls overlap, so a call may end long     *)
(* after the breaker has changed: a generation is one stretch between two    *)
(* changes, and only a call of the current generation is counted.  Expiry    *)
(* is noticed when somebody asks, never by itself.  Every error counts as a  *)
(* failure, a transfer the intranet rejects as much as a lost connection.    *)
EXTENDS Integers, FiniteSets

CONSTANTS
    Calls,          \* InitiateTransfer handlers; one may call again and again
    MaxRequests,    \* probes of a half-open breaker (3 in the code)
    MinRequests,    \* calls before the failure ratio is looked at (5)
    Interval,       \* length of a counting interval, in ticks (10 s)
    Timeout,        \* time a breaker stays open (30 s)
    ClientTimeout,  \* longest time a call takes (10 s)
    Load            \* bound: calls admitted in one interval

ASSUME BreakerAssumption ==
    /\ IsFiniteSet(Calls)
    /\ MaxRequests \in Nat \ {0}
    /\ MinRequests \in Nat \ {0}
    /\ Interval \in Nat
    /\ Timeout \in Nat
    /\ ClientTimeout \in Nat
    /\ Load \in Nat

VARIABLES
    brk,    \* the breaker
    call,   \* call[c]: the call of handler c that is under way
    faulty  \* calls may fail: an outage, or callers the intranet rejects

vars == <<brk, call, faulty>>

-----------------------------------------------------------------------------
\* left: ticks until the state has expired; it has when none is left.
Breaker == [state: {"closed", "halfopen", "open"}, left: Nat, requests: Nat,
            successes: Nat, failures: Nat]

\* current: no generation has ended since the call began.
Call == [running: BOOLEAN, current: BOOLEAN, age: 0..ClientTimeout, mayFail: BOOLEAN]

NoCall == [running |-> FALSE, current |-> FALSE, age |-> 0, mayFail |-> FALSE]

\* A state has expired strictly after its time; half-open never does.
Life(state) ==
    CASE state = "closed" -> Interval + 1
      [] state = "open" -> Timeout + 1
      [] state = "halfopen" -> 0

\* toNewGeneration: the counts start again.
NewGeneration(state) ==
    [state |-> state, left |-> Life(state), requests |-> 0, successes |-> 0, failures |-> 0]

\* Variant: the expiry of an open breaker is not looked at.
LapsedClosedOnly == brk.left = 0 /\ brk.state = "closed"

Lapsed == brk.left = 0 /\ brk.state # "halfopen"

\* currentState: what the breaker is once its expiry has been noticed.
CurrentState ==
    IF ~Lapsed THEN brk
    ELSE NewGeneration(IF brk.state = "open" THEN "halfopen" ELSE "closed")

\* The calls of the generation that has ended no longer count.
Outdated(calls) == [c \in Calls |-> [calls[c] EXCEPT !.current = FALSE]]

\* Variant: a half-open breaker lets one call too many through.
AdmitsTooMany(b) == b.state = "closed" \/ (b.state = "halfopen" /\ b.requests <= MaxRequests)

Admits(b) == b.state = "closed" \/ (b.state = "halfopen" /\ b.requests < MaxRequests)

\* At least half of at least MinRequests calls have failed; calls under way are
\* among the requests.
ReadyToTrip(b) == b.requests >= MinRequests /\ 2 * b.failures >= b.requests

\* Variant: one success more than there are probes closes the breaker.
AfterSuccessTooLate(b) ==
    IF b.state = "halfopen" /\ b.successes + 1 > MaxRequests
    THEN NewGeneration("closed")
    ELSE [b EXCEPT !.successes = @ + 1]

AfterSuccess(b) ==
    IF b.state = "halfopen" /\ b.successes + 1 >= MaxRequests
    THEN NewGeneration("closed")
    ELSE [b EXCEPT !.successes = @ + 1]

AfterFailure(b) ==
    LET f == [b EXCEPT !.failures = @ + 1]
    IN  IF b.state = "halfopen" \/ ReadyToTrip(f) THEN NewGeneration("open") ELSE f

\* Variant: a result counts whenever its call began.
CountedAlways(c) == TRUE

\* afterRequest drops the result of a call of an earlier generation.
Counted(c) == call[c].current /\ ~Lapsed

-----------------------------------------------------------------------------
Init ==
    /\ brk = NewGeneration("closed")
    /\ call = [c \in Calls |-> NoCall]
    /\ faulty \in BOOLEAN

\* InitiateTransfer enters Execute: beforeRequest admits the call.
Begin(c) ==
    /\ ~call[c].running
    /\ Admits(CurrentState)
    /\ CurrentState.requests < Load
    /\ brk' = [CurrentState EXCEPT !.requests = @ + 1]
    /\ call' = [(IF Lapsed THEN Outdated(call) ELSE call) EXCEPT
                  ![c] = [running |-> TRUE, current |-> TRUE, age |-> 0, mayFail |-> faulty]]
    /\ UNCHANGED faulty

\* beforeRequest refuses: ErrOpenState or ErrTooManyRequests, a 500 at once.
Refuse(c) ==
    /\ ~call[c].running
    /\ ~Admits(CurrentState)
    /\ brk' = CurrentState
    /\ call' = (IF Lapsed THEN Outdated(call) ELSE call)
    /\ UNCHANGED faulty

\* afterRequest with the result of the call, b being what it makes of the
\* breaker when the result counts.
Finish(c, b) ==
    /\ brk' = (IF Counted(c) THEN b ELSE CurrentState)
    /\ call' = [(IF Lapsed \/ (Counted(c) /\ b.state # brk.state)
                 THEN Outdated(call) ELSE call) EXCEPT ![c] = NoCall]
    /\ UNCHANGED faulty

\* The intranet answers 200.
Succeed(c) == call[c].running /\ Finish(c, AfterSuccess(CurrentState))

\* No answer in time, no connection, any other status, a cancelled request.
Fail(c) ==
    /\ call[c].running
    /\ call[c].mayFail
    /\ Finish(c, AfterFailure(CurrentState))

\* Variant: an HTTP client without a timeout.
InTimeAlways == TRUE

\* No call outlives the timeout of the HTTP client.
InTime == \A c \in Calls : call[c].running => call[c].age < ClientTimeout

Tick ==
    /\ InTime
    /\ brk' = [brk EXCEPT !.left = IF @ > 0 THEN @ - 1 ELSE 0]
    /\ call' = [c \in Calls |-> IF call[c].running THEN [call[c] EXCEPT !.age = @ + 1]
                                ELSE call[c]]
    /\ UNCHANGED faulty

\* The outage, or the run of rejected transfers, begins or ends.
Turn ==
    /\ faulty' = ~faulty
    /\ UNCHANGED <<brk, call>>

Next ==
    \/ \E c \in Calls : Begin(c) \/ Refuse(c) \/ Succeed(c) \/ Fail(c)
    \/ Tick
    \/ Turn

Spec == Init /\ [][Next]_vars

(* Calls end (the HTTP client has a timeout), time passes and callers keep   *)
(* coming.                                                                   *)
Fairness ==
    /\ \A c \in Calls : WF_vars(Succeed(c) \/ Fail(c))
    /\ WF_vars(\E c \in Calls : Begin(c) \/ Refuse(c))
    /\ WF_vars(Tick)

FairSpec == Spec /\ Fairness

-----------------------------------------------------------------------------
(* Properties.                                                               *)

\* Every variable stays in the domain the code's types give it.
TypeOK ==
    /\ brk \in Breaker
    /\ call \in [Calls -> Call]
    /\ faulty \in BOOLEAN

\* The calls under way that count towards the current generation.
Pending == {c \in Calls : call[c].running /\ call[c].current}

\* Every call the breaker has admitted in its current generation has either
\* ended, and is counted once as what it was, or is still under way: no result
\* is counted twice, dropped, or credited to a generation it did not belong to.
CountsAddUp ==
    brk.requests = brk.successes + brk.failures + Cardinality(Pending)

\* While the breaker is not closed at most MaxRequests calls of its generation
\* are on their way to the intranet, and none while it is open.
ProbesBounded ==
    /\ brk.state = "halfopen" => Cardinality(Pending) <= MaxRequests
    /\ brk.state = "open" => Pending = {}

\* A half-open breaker that turns every caller away waits for a probe that is
\* under way: there is always a call whose end will open or close it.
ProbesDecide ==
    brk.state = "halfopen" /\ ~Admits(brk) => Pending # {}

\* Once calls have stopped failing the breaker closes and stays closed, whatever
\* late failures of earlier calls are still to come in.
Recovers == <>[]~faulty => <>[](brk.state = "closed")

=============================================================================
