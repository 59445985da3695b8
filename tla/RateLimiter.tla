----------------------------- MODULE RateLimiter -----------------------------
(***************************************************************************)
(* PeerTrafficTracker (src/src/vpn/stats.rs): the token bucket RateLimiter   *)
(* and the counters of TrafficStats.  Tokens are whole here (f64 in the      *)
(* code), time is in the unit in which Rate tokens come.                     *)
(***************************************************************************)
EXTENDS Integers, FiniteSets

CONSTANTS
    Rate, Capacity,     \* rate_per_sec, capacity
    Sizes,              \* sizes of the packets
    Waiter,             \* threads in wait_for
    CountMod,           \* 2^64: connection_count counts modulo this
    MaxTime, MaxConns   \* bounds on the clock and on the connections open

ASSUME RlAssumption ==
    /\ {Rate, Capacity, MaxTime, MaxConns} \subseteq Nat /\ Sizes \subseteq Nat
    /\ CountMod \in Nat /\ CountMod > MaxConns

VARIABLES
    tokens, lastRefill,     \* the bucket
    time,
    asleep,                 \* asleep[w]: the size a thread in wait_for sleeps for, or 0
    connCount,              \* connection_count
    granted,                \* history: bytes let through since the last reset
    resetAt,                \* history: time of the last reset of the limiter
    open,                   \* history: connections open
    statsReset              \* history: the statistics were reset with connections open

rlVars == <<tokens, lastRefill, time, asleep, connCount, granted, resetAt, open, statsReset>>
bucketVars == <<tokens, lastRefill, granted>>
connVars == <<connCount, open, statsReset>>

RlInit ==
    /\ tokens = Capacity /\ lastRefill = 0 /\ time = 0
    /\ asleep = [w \in Waiter |-> 0]
    /\ connCount = 0 /\ granted = 0 /\ resetAt = 0 /\ open = 0 /\ statsReset = FALSE

RefilledMutant == tokens + (time - lastRefill) * Rate

\* What the bucket holds once it is refilled.
Refilled ==
    LET full == tokens + (time - lastRefill) * Rate
    IN IF full > Capacity THEN Capacity ELSE full

TakeMutant(n) ==
    /\ tokens' = Refilled - n /\ UNCHANGED lastRefill /\ granted' = granted + n

\* Both check and consume refill the bucket, then take n from it.
Take(n) ==
    /\ tokens' = Refilled - n /\ lastRefill' = time /\ granted' = granted + n

\* check, which record_tx and record_rx call after they counted the bytes.
Check(n) == Take(IF Refilled >= n THEN n ELSE 0)

RecordTraffic(n) ==
    /\ Check(n)
    /\ UNCHANGED <<time, asleep, resetAt, connVars>>

\* consume takes what there is.
Consume(n) ==
    /\ Take(IF Refilled >= n THEN n ELSE Refilled)
    /\ UNCHANGED <<time, asleep, resetAt, connVars>>

\* wait_for: if the first check fails the thread sleeps, and checks once more.
\* It returns even if another thread took the tokens meanwhile.
WaitFor(w, n) ==
    /\ asleep[w] = 0 /\ Check(n)
    /\ asleep' = [asleep EXCEPT ![w] = IF Refilled >= n THEN 0 ELSE n]
    /\ UNCHANGED <<time, resetAt, connVars>>

WakeUp(w) ==
    /\ asleep[w] > 0 /\ Check(asleep[w])
    /\ asleep' = [asleep EXCEPT ![w] = 0]
    /\ UNCHANGED <<time, resetAt, connVars>>

\* RateLimiter::reset
ResetLimiter ==
    /\ tokens' = Capacity /\ lastRefill' = time
    /\ granted' = 0 /\ resetAt' = time
    /\ UNCHANGED <<time, asleep, connVars>>

AddConnection ==
    /\ open < MaxConns /\ open' = open + 1
    /\ connCount' = (connCount + 1) % CountMod
    /\ UNCHANGED <<bucketVars, time, asleep, resetAt, statsReset>>

\* fetch_sub wraps below zero.
RemoveConnection ==
    /\ open > 0 /\ open' = open - 1
    /\ connCount' = (connCount - 1) % CountMod
    /\ UNCHANGED <<bucketVars, time, asleep, resetAt, statsReset>>

\* TrafficStats::reset forgets the connections that are open, too.
ResetStats ==
    /\ connCount' = 0 /\ statsReset' = (statsReset \/ open > 0)
    /\ UNCHANGED <<bucketVars, time, asleep, resetAt, open>>

TimePasses ==
    /\ time < MaxTime /\ time' = time + 1
    /\ UNCHANGED <<bucketVars, asleep, resetAt, connVars>>

RlNext ==
    \/ \E n \in Sizes : RecordTraffic(n) \/ Consume(n) \/ \E w \in Waiter : WaitFor(w, n)
    \/ \E w \in Waiter : WakeUp(w)
    \/ ResetLimiter \/ AddConnection \/ RemoveConnection \/ ResetStats \/ TimePasses

RlSpec == RlInit /\ [][RlNext]_rlVars

----------------------------------------------------------------------------
(* Properties. *)

\* The variables have their types.
RlTypeOK ==
    /\ tokens \in 0..Capacity /\ time \in 0..MaxTime /\ lastRefill \in 0..time /\ resetAt \in 0..lastRefill
    /\ granted \in Nat /\ asleep \in [Waiter -> Sizes \cup {0}]
    /\ connCount \in 0..CountMod - 1 /\ open \in 0..MaxConns /\ statsReset \in BOOLEAN

\* The limit holds: since the last reset no more was let through than a full
\* bucket and what came in since, whichever threads checked, consumed or woke up.
RateHolds == granted <= Capacity + Rate * (time - resetAt)

\* connection_count is the number of connections open, unless the statistics were
\* reset with some open: then it runs below zero, to a count near 2^64.
ConnCountExact == ~statsReset => connCount = open
=============================================================================
