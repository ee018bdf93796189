---------------------------- MODULE RateLimiter ----------------------------
(* The rate limiting middleware over Valkey.  Every request evaluates one    *)
(* atomic script with the clock of its gateway: gateways disagree and        *)
(* requests overtake each other, so timestamps are out of order.  The hash   *)
(* of a client expires by Valkey's own clock.  When the backend fails the    *)
(* request is let through.  Levels are counted as in TokenBucket.            *)
EXTENDS Naturals

CONSTANTS
    Clients, Capacity, RefillRate, RefillPeriod, None,
    Second,     \* milliseconds in a second (1000; smaller in TLC's instances)
    MaxAhead,   \* how far a timestamp may be ahead of Valkey's clock
    MaxBehind,  \* how far it may be behind (a slow clock or a slow request)
    Horizon     \* bound of Valkey's clock

ASSUME LimiterAssumption ==
    /\ None \notin Clients
    /\ Capacity \in Nat \ {0}
    /\ RefillRate \in Nat \ {0}
    /\ RefillPeriod \in Nat \ {0}
    /\ Second \in Nat \ {0}
    /\ MaxAhead \in Nat
    /\ MaxBehind \in Nat
    /\ Horizon \in Nat

\* The disagreement of the clocks stays below the time an empty bucket takes to
\* fill: half of the life EXPIRE gives a hash.
ASSUME SkewAssumption ==
    (MaxAhead + MaxBehind) * RefillRate <= Capacity * RefillPeriod

VARIABLES
    now,       \* Valkey's clock, in milliseconds
    store,     \* store[c]: the hash of client c
    reply,     \* reply[c]: what the last request of c was answered
    since,     \* history: the timestamp of the first admitted request of c
    admitted   \* history: requests of c the script admitted

vars == <<now, store, reply, since, admitted>>

Full == Capacity * RefillPeriod

\* math.ceil((capacity / refill_rate) * (refill_period / 1000) * 2), in seconds.
CeilDiv(a, b) == (a + b - 1) \div b

\* Variant: the time of one refill, rounded down.
TTLTooShort == (Capacity * RefillPeriod) \div (RefillRate * Second)
TTL == CeilDiv(2 * Capacity * RefillPeriod, RefillRate * Second)

Hash == [tokens: 0..Full, last: Nat, expireAt: Nat]

\* at: when the script ran, by Valkey's clock.
Reply == [status: {"none", "allowed", "limited", "open"}, remaining: Nat, at: Nat]

\* Variant: the refilled level is not capped.
Uncapped(level) == level
Cap(level) == IF level < Full THEN level ELSE Full

\* A hash past its expiry is not there.
Live(c) == store[c] # None /\ now < store[c].expireAt

\* Variant: last_update is set although no time has passed.
StampAlways(last, ts) == ts
Stamp(last, ts) == IF ts > last THEN ts ELSE last

\* tokens and last_update after the refill of the script.
Tokens(c, ts) ==
    IF ~Live(c) THEN Full
    ELSE IF ts > store[c].last
         THEN Cap(store[c].tokens + (ts - store[c].last) * RefillRate)
         ELSE store[c].tokens
LastUpdate(c, ts) == IF ~Live(c) THEN ts ELSE Stamp(store[c].last, ts)

\* What the handler reports: thousandths of a token, as the script returns them.
Remaining(level) == (level * 1000) \div RefillPeriod

\* Variant: the millisecond that has begun is not counted.
RetryAfterShort == (RefillPeriod - 1) \div Second

\* int64(RefillPeriod.Seconds()): whole seconds, rounded down.
RetryAfter == RefillPeriod \div Second

Init ==
    /\ now = 0
    /\ store = [c \in Clients |-> None]
    /\ reply = [c \in Clients |-> [status |-> "none", remaining |-> 0, at |-> 0]]
    /\ since = [c \in Clients |-> 0]
    /\ admitted = [c \in Clients |-> 0]

\* The timestamps a request may carry when the script runs.
Stamps == {ts \in 0..(Horizon + MaxAhead) : ts <= now + MaxAhead /\ now <= ts + MaxBehind}

\* The answer of the script arrives, or is lost: then the handler fails open.
Replied(c, status, remaining) ==
    reply' = [reply EXCEPT ![c] = [status |-> status, remaining |-> remaining, at |-> now]]
Open(c) == Replied(c, "open", 0)
Answered(c, status, level) == Replied(c, status, Remaining(level)) \/ Open(c)

EvalAllowed(c, ts) ==
    LET left == Tokens(c, ts) - RefillPeriod IN
    /\ Tokens(c, ts) >= RefillPeriod
    /\ store' = [store EXCEPT ![c] = [tokens |-> left, last |-> LastUpdate(c, ts),
                                      expireAt |-> now + TTL * Second]]
    /\ Answered(c, "allowed", left)
    /\ since' = IF store[c] = None THEN [since EXCEPT ![c] = ts] ELSE since
    /\ admitted' = [admitted EXCEPT ![c] = @ + 1]
    /\ UNCHANGED now

\* A rejection writes nothing, not even the refill.
EvalLimited(c, ts) ==
    /\ Tokens(c, ts) < RefillPeriod
    /\ Answered(c, "limited", Tokens(c, ts))
    /\ UNCHANGED <<now, store, since, admitted>>

\* Valkey cannot be reached: the request is let through.
FailOpen(c) ==
    /\ Open(c)
    /\ UNCHANGED <<now, store, since, admitted>>

Tick ==
    /\ now < Horizon
    /\ now' = now + 1
    /\ UNCHANGED <<store, reply, since, admitted>>

Next ==
    \/ \E c \in Clients, ts \in Stamps : EvalAllowed(c, ts)
    \/ \E c \in Clients, ts \in Stamps : EvalLimited(c, ts)
    \/ \E c \in Clients : FailOpen(c)
    \/ Tick

Spec == Init /\ [][Next]_vars

-----------------------------------------------------------------------------
(* Properties.                                                               *)

\* Levels stay between empty and full, whatever the clocks do.
TypeOK ==
    /\ now \in Nat
    /\ store \in [Clients -> Hash \cup {None}]
    /\ reply \in [Clients -> Reply]
    /\ since \in [Clients -> Nat]
    /\ admitted \in [Clients -> Nat]

\* The hash of a client as the bucket it stands for, expired or not.
Bucket == INSTANCE TokenBucket WITH
    bucket <- [c \in Clients |->
                 IF store[c] = None THEN None
                 ELSE [tokens |-> store[c].tokens, last |-> store[c].last]],
    Times <- 0..(Horizon + MaxAhead)

ASSUME NoneAssumption ==
    /\ None \notin Hash
    /\ None \notin Bucket!Bucket

\* The script with its expiring hashes implements buckets that are never
\* forgotten: a hash only expires once its bucket would be full again, whatever
\* gateway clock looks at it next.
ImplementsBucket == Bucket!Spec

\* From its first request on the script admits a client at most a full bucket
\* plus what the time its timestamps span has refilled, across the expiries of
\* its hash and in whatever order the timestamps arrive.
RateBound == Bucket!RateBound

\* The second a client must add to Retry-After: none for a period of whole seconds.
Dropped == IF \E n \in 0..RefillPeriod : RefillPeriod = n * Second THEN 0 ELSE 1

\* A client that has waited for Retry-After since its 429, by a clock that has
\* caught up with the fastest, finds a token if nobody has drawn on its bucket
\* meanwhile ("the sleep cooldown (in seconds) the mobile client must observe
\* before retrying").  A period that is not of whole seconds costs it one more.
RetryAfterSuffices ==
    \A c \in Clients :
       reply[c].status = "limited" =>
          \A ts \in Stamps :
             ts >= reply[c].at + MaxAhead + (RetryAfter + Dropped) * Second =>
                Tokens(c, ts) >= RefillPeriod

=============================================================================
