-------------------------- MODULE RateLimiterProofs --------------------------
(* What holds of RateLimiter for every rate, capacity and packet size.      *)
EXTENDS RateLimiter, TLAPS

\* The bucket holds at most what came in and was not let through.
Budget == granted + tokens <= Capacity + Rate * (lastRefill - resetAt)

RateInv == RlTypeOK /\ Budget /\ ConnCountExact

----------------------------------------------------------------------------

\* What comes in over two stretches of time is what comes in over both.
LEMMA RateAdds ==
    ASSUME NEW a \in Int, NEW b \in Int, NEW c \in Int
    PROVE  Rate * (b - a) + (c - b) * Rate = Rate * (c - a)
BY RlAssumption

\* Nothing goes out of the bucket by waiting.
LEMMA RateGrows ==
    ASSUME NEW d \in Nat PROVE d * Rate \in Nat /\ Rate * d \in Nat
BY RlAssumption

\* The counter does not wrap while it counts the connections that are open.
LEMMA NoWrap == \A k \in 0..CountMod - 1 : k % CountMod = k
BY RlAssumption

\* A refilled bucket is not over its capacity, nor over what came in.
LEMMA RefilledBounds ==
    ASSUME RlTypeOK
    PROVE  /\ Refilled \in 0..Capacity
           /\ Refilled <= tokens + (time - lastRefill) * Rate
<1>1. (time - lastRefill) \in Nat
    BY RlAssumption DEF RlTypeOK
<1>2. (time - lastRefill) * Rate \in Nat
    BY <1>1, RateGrows
<1> QED
    BY <1>2, RlAssumption DEF RlTypeOK, Refilled

\* Taking what the refilled bucket holds keeps the budget.
LEMMA TakeKeepsBudget ==
    ASSUME RlTypeOK, Budget, NEW n \in 0..Refilled, Take(n), UNCHANGED <<time, resetAt>>
    PROVE  /\ tokens' \in 0..Capacity /\ granted' \in Nat
           /\ lastRefill' \in 0..time' /\ resetAt' \in 0..lastRefill'
           /\ Budget'
<1> DEFINE before == Rate * (lastRefill - resetAt)
           came == (time - lastRefill) * Rate
           all == Rate * (time - resetAt)
<1>1. Refilled \in 0..Capacity /\ Refilled <= tokens + came
    BY RefilledBounds
<1>2. before + came = all
    BY RateAdds, RlAssumption DEF RlTypeOK
<1>3. before \in Nat /\ came \in Nat /\ all \in Nat
  <2>1. lastRefill - resetAt \in Nat /\ time - lastRefill \in Nat /\ time - resetAt \in Nat
    BY RlAssumption DEF RlTypeOK
  <2> QED
    BY <2>1, RateGrows
<1>4. granted' + tokens' = granted + Refilled
    BY <1>1 DEF Take, RlTypeOK
<1>5. granted + Refilled <= Capacity + all
    BY <1>1, <1>2, <1>3, RlAssumption DEF Budget, RlTypeOK
<1>6. Budget'
    BY <1>4, <1>5 DEF Budget, Take
<1> QED
    BY <1>1, <1>6, RlAssumption DEF Take, RlTypeOK

\* The limiter starts full, with no connection open.
LEMMA RateInvInit == RlInit => RateInv
<1> SUFFICES ASSUME RlInit PROVE RateInv
    OBVIOUS
<1>1. RlTypeOK
  <2>1. Capacity \in Nat /\ MaxTime \in Nat /\ MaxConns \in Nat /\ CountMod - 1 \in Nat
    BY RlAssumption
  <2>2. asleep \in [Waiter -> Sizes \cup {0}] /\ statsReset \in BOOLEAN
    BY DEF RlInit
  <2>3. tokens \in 0..Capacity /\ lastRefill = 0 /\ time = 0 /\ resetAt = 0 /\ granted = 0 /\ connCount = 0 /\ open = 0
    BY <2>1 DEF RlInit
  <2> QED
    BY <2>1, <2>2, <2>3 DEF RlTypeOK
<1>2. Budget
  <2>1. Rate * (0 - 0) = 0
    BY RlAssumption
  <2> QED
    BY <2>1, RlAssumption DEF RlInit, Budget
<1>3. ConnCountExact
    BY DEF RlInit, ConnCountExact
<1> QED
    BY <1>1, <1>2, <1>3 DEF RateInv

\* Every step keeps the types, the budget and the count.
LEMMA RateInvStep == RateInv /\ [RlNext]_rlVars => RateInv'
<1> SUFFICES ASSUME RateInv, [RlNext]_rlVars PROVE RateInv'
    OBVIOUS
<1> USE DEF RateInv
<1>1. ASSUME NEW n \in 0..Refilled, Take(n), UNCHANGED <<time, resetAt, connVars>>,
             asleep' \in [Waiter -> Sizes \cup {0}]
      PROVE  RateInv'
  <2>1. /\ tokens' \in 0..Capacity /\ granted' \in Nat /\ Budget'
        /\ lastRefill' \in 0..time' /\ resetAt' \in 0..lastRefill'
    BY <1>1, TakeKeepsBudget
  <2> QED
    BY <1>1, <2>1 DEF RlTypeOK, ConnCountExact, connVars
<1>2. Refilled \in 0..Capacity
    BY RefilledBounds
<1>3. \A n \in Sizes : (IF Refilled >= n THEN n ELSE 0) \in 0..Refilled
                       /\ (IF Refilled >= n THEN n ELSE Refilled) \in 0..Refilled
    BY <1>2, RlAssumption
<1>4. ASSUME NEW n \in Sizes, RecordTraffic(n) \/ Consume(n) PROVE RateInv'
    BY <1>1, <1>3, <1>4 DEF RecordTraffic, Consume, Check, RlTypeOK
<1>5. ASSUME NEW w \in Waiter, NEW n \in Sizes, WaitFor(w, n) PROVE RateInv'
    BY <1>1, <1>3, <1>5 DEF WaitFor, Check, RlTypeOK
<1>6. ASSUME NEW w \in Waiter, WakeUp(w) PROVE RateInv'
  <2>1. asleep[w] \in Sizes
    BY <1>6 DEF WakeUp, RlTypeOK
  <2> QED
    BY <1>1, <1>3, <1>6, <2>1 DEF WakeUp, Check, RlTypeOK
<1>7. CASE ResetLimiter
  <2>1. Rate * (lastRefill' - resetAt') = 0
    BY <1>7, RlAssumption DEF ResetLimiter, RlTypeOK
  <2> QED
    BY <1>7, <2>1, RlAssumption DEF ResetLimiter, RlTypeOK, Budget, ConnCountExact, connVars
<1>8. CASE AddConnection
  <2>1. ~statsReset => connCount' = open'
    BY <1>8, NoWrap, RlAssumption DEF AddConnection, RlTypeOK, ConnCountExact
  <2>2. connCount' \in 0..CountMod - 1
    BY <1>8, RlAssumption DEF AddConnection, RlTypeOK
  <2> QED
    BY <1>8, <2>1, <2>2, RlAssumption DEF AddConnection, RlTypeOK, ConnCountExact, Budget, bucketVars
<1>9. CASE RemoveConnection
  <2>1. ~statsReset => connCount' = open'
    BY <1>9, NoWrap, RlAssumption DEF RemoveConnection, RlTypeOK, ConnCountExact
  <2>2. connCount' \in 0..CountMod - 1
    BY <1>9, RlAssumption DEF RemoveConnection, RlTypeOK
  <2> QED
    BY <1>9, <2>1, <2>2, RlAssumption DEF RemoveConnection, RlTypeOK, ConnCountExact, Budget, bucketVars
<1>10. CASE ResetStats
  <2>1. statsReset' \in BOOLEAN
    BY <1>10 DEF ResetStats
  <2>2. ConnCountExact'
    <3>1. CASE open > 0
        BY <1>10, <3>1 DEF ResetStats, ConnCountExact
    <3>2. CASE ~(open > 0)
        BY <1>10, <3>2, RlAssumption DEF ResetStats, ConnCountExact, RlTypeOK
    <3> QED
        BY <3>1, <3>2
  <2> QED
    BY <1>10, <2>1, <2>2, RlAssumption DEF ResetStats, RlTypeOK, Budget, bucketVars
<1>11. CASE TimePasses
    BY <1>11, RlAssumption DEF TimePasses, RlTypeOK, ConnCountExact, Budget, bucketVars, connVars
<1>12. CASE UNCHANGED rlVars
    BY <1>12 DEF rlVars, RlTypeOK, ConnCountExact, Budget
<1> QED
    BY <1>4, <1>5, <1>6, <1>7, <1>8, <1>9, <1>10, <1>11, <1>12 DEF RlNext

\* So it holds at all times.
LEMMA RateInvariance == RlSpec => []RateInv
BY RateInvInit, RateInvStep, PTL DEF RlSpec

\* The bucket is never negative nor over its capacity, whatever threads check,
\* consume, wait and reset.
THEOREM LimiterTyping == RlSpec => []RlTypeOK
BY RateInvariance, PTL DEF RateInv

\* For every rate, capacity and size of packets: since the last reset no more was
\* let through than a full bucket and what came in since.
THEOREM LimitHolds == RlSpec => []RateHolds
<1>1. RateInv => RateHolds
  <2> SUFFICES ASSUME RateInv PROVE RateHolds
      OBVIOUS
  <2>1. /\ lastRefill - resetAt \in Nat /\ time - lastRefill \in Nat
        /\ lastRefill \in Int /\ resetAt \in Int /\ time \in Int
      BY RlAssumption DEF RateInv, RlTypeOK
  <2>2. Rate * (lastRefill - resetAt) + (time - lastRefill) * Rate = Rate * (time - resetAt)
      BY <2>1, RateAdds
  <2>3. Rate * (lastRefill - resetAt) \in Nat /\ (time - lastRefill) * Rate \in Nat
      BY <2>1, RateGrows
  <2>4. granted \in Nat /\ tokens \in Nat /\ Capacity \in Nat
      BY RlAssumption DEF RateInv, RlTypeOK
  <2> QED
      BY <2>2, <2>3, <2>4 DEF RateInv, Budget, RateHolds
<1> QED
    BY <1>1, RateInvariance, PTL

\* The counter is the number of open connections until the statistics are reset
\* with some open.
THEOREM ConnectionsCounted == RlSpec => []ConnCountExact
BY RateInvariance, PTL DEF RateInv
=============================================================================
