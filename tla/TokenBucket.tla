---------------------------- MODULE TokenBucket ----------------------------
(* What the distributed rate limiter promises: one token bucket per client   *)
(* that is never forgotten.  Requests carry timestamps in no particular      *)
(* order.  Levels are counted in units of which one request costs            *)
(* RefillPeriod and one millisecond refills RefillRate.                      *)
EXTENDS Naturals

CONSTANTS
    Clients,
    Capacity,      \* requests a full bucket admits
    RefillRate,    \* requests added per period
    RefillPeriod,  \* in milliseconds
    Times,         \* timestamps of requests
    None

ASSUME BucketAssumption ==
    /\ Capacity \in Nat \ {0}
    /\ RefillRate \in Nat \ {0}
    /\ RefillPeriod \in Nat \ {0}
    /\ Times \subseteq Nat

VARIABLES
    bucket,    \* bucket[c]: None until the first request of client c
    since,     \* since[c]: the timestamp of that request
    admitted   \* admitted[c]: requests admitted so far

vars == <<bucket, since, admitted>>

Full == Capacity * RefillPeriod

Bucket == [tokens: 0..Full, last: Nat]

ASSUME NoBucketAssumption == None \notin Bucket

\* Variant: the refilled level is not capped.
Uncapped(level) == level

Cap(level) == IF level < Full THEN level ELSE Full

\* Variant: an out-of-order request turns the clock of the bucket back.
RefillAlwaysStamped(b, ts) ==
    IF ts > b.last
    THEN [tokens |-> Cap(b.tokens + (ts - b.last) * RefillRate), last |-> ts]
    ELSE [tokens |-> b.tokens, last |-> ts]

\* The bucket refilled up to ts; a timestamp that is not later changes nothing.
Refill(b, ts) ==
    IF ts > b.last
    THEN [tokens |-> Cap(b.tokens + (ts - b.last) * RefillRate), last |-> ts]
    ELSE b

\* The bucket a request at ts finds.
Found(c, ts) ==
    IF bucket[c] = None THEN [tokens |-> Full, last |-> ts] ELSE Refill(bucket[c], ts)

Init ==
    /\ bucket = [c \in Clients |-> None]
    /\ since = [c \in Clients |-> 0]
    /\ admitted = [c \in Clients |-> 0]

\* A rejected request leaves the bucket alone, so it is no step.
Admit(c, ts) ==
    /\ Found(c, ts).tokens >= RefillPeriod
    /\ bucket' = [bucket EXCEPT ![c] = [tokens |-> Found(c, ts).tokens - RefillPeriod,
                                        last |-> Found(c, ts).last]]
    /\ since' = IF bucket[c] = None THEN [since EXCEPT ![c] = ts] ELSE since
    /\ admitted' = [admitted EXCEPT ![c] = @ + 1]

Next == \E c \in Clients, ts \in Times : Admit(c, ts)

Spec == Init /\ [][Next]_vars

-----------------------------------------------------------------------------
\* A level is never above full nor below empty.
TypeOK ==
    /\ bucket \in [Clients -> Bucket \cup {None}]
    /\ since \in [Clients -> Nat]
    /\ admitted \in [Clients -> Nat]

\* From its first request on a client is admitted at most a full bucket plus
\* what was refilled since, in whatever order the timestamps arrive.
RateBound ==
    \A c \in Clients :
       bucket[c] # None =>
          /\ since[c] <= bucket[c].last
          /\ admitted[c] * RefillPeriod + bucket[c].tokens
                <= Full + (bucket[c].last - since[c]) * RefillRate

=============================================================================
