---------------------------- MODULE NetworkProofs ----------------------------
(***************************************************************************)
(* What holds of the parts that find nodes and move frames, for every number *)
(* of nodes, keys, threads, connections, loops, calls and users: values are  *)
(* served exactly as long as they live, routing tables are sound, caches     *)
(* answer honestly, the tables of the LAN router are sound, listeners hear   *)
(* every frame once and pings their own answers, the connection pool's       *)
(* counts are exact, and entry nodes are tried by priority.  Last, the parts *)
(* behave side by side as each does alone.                                   *)
(***************************************************************************)
EXTENDS MCNetwork, FiniteSetTheorems, SequenceTheorems, NaturalsInduction, WellFoundedInduction, TLAPS

\* Every set of natural numbers that is not empty has a least element: the form of
\* induction the proofs about recursive functions use.
LEMMA NatMinExists ==
    ASSUME NEW S \in SUBSET Nat, S # {}
    PROVE  \E x \in S : \A y \in S : x <= y
<1> DEFINE R == OpToRel(<, Nat)
<1>1. IsWellFoundedOn(R, Nat)
    BY NatLessThanWellFounded
<1>2. \A y, x \in Nat : y < x => <<y, x>> \in R
    BY DEF OpToRel
<1> HIDE DEF R
<1>3. PICK x \in S : \A y \in S : ~(<<y, x>> \in R)
    BY <1>1, WFMin
<1>4. \A y \in S : ~(y < x)
    BY <1>2, <1>3, Zenon
<1>5. \A y \in S : x <= y
    BY <1>4, SMT
<1> QED
    BY <1>5

----------------------------------------------------------------------------
(* Dht: the values. *)

\* The remainder is not above the number, and is the number below the modulus.
LEMMA Remainder ==
    ASSUME NEW n \in Nat, NEW w \in Nat, w > 0
    PROVE  n % w \in Nat /\ n % w <= n /\ (n < w => n % w = n)
OBVIOUS

DhtValue == [value : Value, created : 0..MaxDhtTime, ttl : Ttls]
LastPut == [value : Value, until : Nat]

\* A value that is stored is the last one put, with the time it is to end; one
\* that is not has ended, or its end overflows.
ValueInv ==
    /\ dhtTime \in 0..MaxDhtTime
    /\ values \in [Manager -> [Key -> DhtValue \cup {NoValue}]]
    /\ lastPut \in [Manager -> [Key -> LastPut \cup {NoValue}]]
    /\ \A m \in Manager, k \in Key : lastPut[m][k] # NoValue =>
          /\ values[m][k] = NoValue => dhtTime >= lastPut[m][k].until \/ lastPut[m][k].until >= Wrap
          /\ values[m][k] # NoValue => /\ values[m][k].value = lastPut[m][k].value
                                       /\ values[m][k].created + values[m][k].ttl = lastPut[m][k].until

\* The bounds are natural numbers.
LEMMA DhtConstants ==
    /\ MaxDhtTime \in Nat /\ Wrap \in Nat /\ Wrap > 0 /\ Ttls \subseteq Nat
    /\ NoValue \notin DhtValue
BY DhtAssumption DEF DhtValue

\* When a value has expired.
LEMMA Expiry ==
    ASSUME NEW v \in DhtValue, dhtTime \in Nat
    PROVE  /\ v.created + v.ttl \in Nat
           /\ dhtTime >= v.created + v.ttl => ValueExpired(v)
           /\ ValueExpired(v) => dhtTime >= v.created + v.ttl \/ v.created + v.ttl >= Wrap
<1> DEFINE n == v.created + v.ttl
<1>1. n \in Nat
  <2>1. v.created \in 0..MaxDhtTime /\ v.ttl \in Ttls
    BY DEF DhtValue
  <2>2. \A x \in 0..MaxDhtTime, y \in Ttls : x + y \in Nat
    BY DhtConstants
  <2> QED
    BY <2>1, <2>2, Zenon
<1>2. ValueExpired(v) <=> dhtTime >= n % Wrap
    BY DEF ValueExpired
<1> HIDE DEF n
<1>3. n % Wrap \in Nat /\ n % Wrap <= n /\ (n < Wrap => n % Wrap = n)
    BY <1>1, DhtConstants, Remainder
<1>4. (dhtTime >= n => ValueExpired(v)) /\ (ValueExpired(v) => dhtTime >= n \/ n >= Wrap)
    BY <1>1, <1>2, <1>3, DhtConstants
<1> QED
    BY <1>1, <1>4 DEF n

\* It holds at first.
LEMMA ValueInit == DhtInit => ValueInv
BY DhtConstants DEF DhtInit, ValueInv

\* Putting a value.
LEMMA PutStep ==
    ASSUME ValueInv, NEW m \in Manager, NEW k \in Key, NEW v \in Value, NEW ttl \in Ttls, PutValue(m, k, v, ttl)
    PROVE  ValueInv'
<1> DEFINE new == [value |-> v, created |-> dhtTime, ttl |-> ttl]
           put == [value |-> v, until |-> dhtTime + ttl]
<1>1. /\ values \in [Manager -> [Key -> DhtValue \cup {NoValue}]]
      /\ lastPut \in [Manager -> [Key -> LastPut \cup {NoValue}]]
      /\ dhtTime \in 0..MaxDhtTime /\ dhtTime' = dhtTime
    BY DEF ValueInv, PutValue
<1>2. /\ new \in DhtValue /\ new # NoValue /\ new.value = v /\ new.created + new.ttl = dhtTime + ttl
      /\ put \in LastPut /\ put.value = v /\ put.until = dhtTime + ttl
    BY <1>1, DhtConstants DEF DhtValue, LastPut
<1>3. values' = [values EXCEPT ![m][k] = new] /\ lastPut' = [lastPut EXCEPT ![m][k] = put]
    BY DEF PutValue
<1> HIDE DEF new, put
<1>4. \A p \in Manager, q \in Key : /\ values'[p][q] = IF p = m /\ q = k THEN new ELSE values[p][q]
                                    /\ lastPut'[p][q] = IF p = m /\ q = k THEN put ELSE lastPut[p][q]
    BY <1>1, <1>3
<1>5. /\ values' \in [Manager -> [Key -> DhtValue \cup {NoValue}]]
      /\ lastPut' \in [Manager -> [Key -> LastPut \cup {NoValue}]]
    BY <1>1, <1>2, <1>3
<1> QED
    BY <1>1, <1>2, <1>4, <1>5 DEF ValueInv

\* Dropping the values that have expired.
LEMMA CleanupStep ==
    ASSUME ValueInv, NEW m \in Manager, CleanupValues(m)
    PROVE  ValueInv'
<1>1. /\ values \in [Manager -> [Key -> DhtValue \cup {NoValue}]]
      /\ lastPut \in [Manager -> [Key -> LastPut \cup {NoValue}]]
      /\ dhtTime \in 0..MaxDhtTime /\ dhtTime \in Nat /\ dhtTime' = dhtTime /\ lastPut' = lastPut
    BY DhtConstants DEF ValueInv, CleanupValues
<1>2. values' = [values EXCEPT ![m] = [k \in Key |->
          IF values[m][k] # NoValue /\ ValueExpired(values[m][k]) THEN NoValue ELSE values[m][k]]]
    BY DEF CleanupValues
<1>3. \A p \in Manager, q \in Key :
         \/ values'[p][q] = values[p][q]
         \/ values[p][q] # NoValue /\ ValueExpired(values[p][q]) /\ values'[p][q] = NoValue
    BY <1>1, <1>2
<1>4. values' \in [Manager -> [Key -> DhtValue \cup {NoValue}]]
    BY <1>1, <1>2
<1>5. \A p \in Manager, q \in Key : values[p][q] # NoValue /\ ValueExpired(values[p][q]) =>
         dhtTime >= values[p][q].created + values[p][q].ttl \/ values[p][q].created + values[p][q].ttl >= Wrap
    BY <1>1, Expiry
<1> QED
    BY <1>1, <1>3, <1>4, <1>5 DEF ValueInv

\* Every step preserves it.
LEMMA ValueStep ==
    ASSUME ValueInv, [TableNext \/ ValueNext]_dhtVars
    PROVE  ValueInv'
<1>1. CASE UNCHANGED <<values, lastPut, dhtTime>>
    BY <1>1 DEF ValueInv
<1>2. CASE DhtTick
  <2>1. /\ dhtTime' = dhtTime + 1 /\ dhtTime \in Nat /\ dhtTime' \in 0..MaxDhtTime
        /\ values' = values /\ lastPut' = lastPut
    BY <1>2, DhtConstants DEF DhtTick, valueVars, ValueInv
  <2>2. \A n \in Nat : dhtTime >= n => dhtTime' >= n
    BY <2>1
  <2>3. \A m \in Manager, k \in Key : lastPut[m][k] # NoValue => lastPut[m][k].until \in Nat
    BY DEF ValueInv, LastPut
  <2> QED
    BY <2>1, <2>2, <2>3 DEF ValueInv
<1>3. CASE \E m \in Manager : \E k \in Key, v \in Value, ttl \in Ttls : PutValue(m, k, v, ttl) \/ HandlePut(m, k, v, ttl)
    BY <1>3, PutStep DEF HandlePut
<1>4. CASE \E m \in Manager : CleanupValues(m)
    BY <1>4, CleanupStep
<1>5. CASE TableNext
  <2>1. UNCHANGED <<values, lastPut, dhtTime>> \/ DhtTick
    BY <1>5 DEF TableNext, InsertNode, RemoveNode, BootstrapFromNodes, RefreshList, RefreshRemove, Query, PeerSends,
                ProcessMessage, DhtLose, valueVars
  <2> QED
    BY <1>1, <1>2, <2>1
<1> QED
    BY <1>1, <1>2, <1>3, <1>4, <1>5 DEF ValueNext, dhtVars, valueVars

\* A value is served exactly until its time to live is over, and it is the last
\* one put (put_value, the Put message, cleanup), unless its end overflows.
THEOREM ValuesServed == DhtSpec => []ValuesExact
<1>1. ValueInv /\ [TableNext \/ ValueNext]_dhtVars => ValueInv'
    BY ValueStep
<1>2. ValueInv => ValuesExact
  <2> SUFFICES ASSUME ValueInv, NEW m \in Manager, NEW k \in Key, lastPut[m][k] # NoValue
               PROVE  /\ dhtTime >= lastPut[m][k].until => GetValue(m, k) = NoValue
                      /\ dhtTime < lastPut[m][k].until /\ lastPut[m][k].until < Wrap => GetValue(m, k) = lastPut[m][k].value
    BY DEF ValuesExact
  <2>1. /\ dhtTime \in Nat /\ values[m][k] \in DhtValue \cup {NoValue} /\ lastPut[m][k] \in LastPut
        /\ lastPut[m][k].until \in Nat /\ Wrap \in Nat
    BY DhtConstants DEF ValueInv, LastPut
  <2>2. CASE values[m][k] = NoValue
    BY <2>1, <2>2 DEF ValueInv, GetValue
  <2>3. CASE values[m][k] # NoValue
    BY <2>1, <2>3, Expiry DEF ValueInv, GetValue
  <2> QED
    BY <2>2, <2>3
<1> QED
    BY <1>1, <1>2, ValueInit, PTL DEF DhtSpec

----------------------------------------------------------------------------
(* Dht: the routing tables. *)

\* The ids a table may hold, its entries, and below the messages.
DhtId == DhtNode \cup {Placeholder}
DhtEntry == [id : DhtId, seen : Nat]

\* f is what the recursion from a by g computes up to n.
Solves(f, S, n, a, g) == f \in [0..n -> S] /\ f[0] = a /\ \A k \in 1..n : f[k] = g[<<k, f[k - 1]>>]

\* A recursion over the numbers up to n has a solution.
LEMMA Recursion ==
    ASSUME NEW S, NEW n \in Nat, NEW a \in S, NEW g \in [(1..n) \X S -> S]
    PROVE  \E f : Solves(f, S, n, a, g)
<1> DEFINE Good(m) == \E f \in [0..m -> S] : f[0] = a /\ \A k \in 1..m : f[k] = g[<<k, f[k - 1]>>]
           Bad == {m \in 0..n : ~Good(m)}
<1>1. SUFFICES ASSUME Bad # {} PROVE FALSE
  <2>1. n \in 0..n
    OBVIOUS
  <2>2. Bad = {} => Good(n)
    BY <2>1
  <2> QED
    BY <2>2 DEF Solves
<1>2. PICK m \in Bad : \A l \in Bad : m <= l
  <2>1. Bad \in SUBSET Nat
    OBVIOUS
  <2> HIDE DEF Bad
  <2> QED
    BY <1>1, <2>1, NatMinExists
<1>3. Good(0)
  <2>1. [k \in 0..0 |-> a] \in [0..0 -> S] /\ [k \in 0..0 |-> a][0] = a /\ 1..0 = {}
    OBVIOUS
  <2> QED
    BY <2>1
<1> HIDE DEF Good
<1>4. m \in 1..n /\ m - 1 \in 0..n /\ ~(m <= m - 1) /\ ~Good(m)
    BY <1>2, <1>3
<1>5. Good(m - 1)
    BY <1>2, <1>4
<1>6. PICK f \in [0..m - 1 -> S] : f[0] = a /\ \A k \in 1..m - 1 : f[k] = g[<<k, f[k - 1]>>]
    BY <1>5 DEF Good
<1>7. PICK x \in S : x = g[<<m, f[m - 1]>>]
  <2>1. f[m - 1] \in S
    BY <1>4
  <2> QED
    BY <1>4, <2>1
<1> DEFINE h == [k \in 0..m |-> IF k = m THEN x ELSE f[k]]
<1>8. h \in [0..m -> S] /\ h[m] = x /\ \A k \in 0..m - 1 : h[k] = f[k]
    BY <1>4
<1> HIDE DEF h
<1>9. h[0] = a
    BY <1>4, <1>6, <1>8
<1>10. ASSUME NEW k \in 1..m PROVE h[k] = g[<<k, h[k - 1]>>]
  <2>1. k - 1 \in 0..m - 1 /\ h[k - 1] = f[k - 1]
    BY <1>4, <1>8
  <2>2. CASE k = m
    BY <1>7, <1>8, <2>1, <2>2
  <2>3. CASE k # m
    <3>1. k \in 1..m - 1 /\ k \in 0..m - 1
      BY <1>4, <2>3
    <3> QED
      BY <1>6, <1>8, <2>1, <3>1
  <2> QED
    BY <2>2, <2>3
<1>11. Good(m)
    BY <1>8, <1>9, <1>10 DEF Good
<1> QED
    BY <1>4, <1>11

\* The constants of the tables.
LEMMA TableConstants ==
    /\ Bits \in Nat /\ Bits > 0 /\ K \in Nat /\ StaleAfter \in Nat /\ MaxDhtTime \in Nat
    /\ DhtId \subseteq [1..Bits -> {0, 1}] /\ Manager \subseteq DhtId /\ Placeholder \in DhtId /\ Placeholder \notin Manager
    /\ DhtNode \subseteq DhtId /\ Manager \subseteq DhtNode
<1>1. Bits \in Nat /\ Bits > 0 /\ K \in Nat /\ StaleAfter \in Nat /\ MaxDhtTime \in Nat
    BY DhtAssumption
<1>2. Placeholder \in [1..Bits -> {0, 1}]
    BY DEF Placeholder
<1> QED
    BY <1>1, <1>2, DhtAssumption DEF DhtId

\* d[k] is the distance of the first k bits.
Distances(d, a, b) ==
    /\ d \in [0..Bits -> Nat] /\ d[0] = 0 /\ XorDistance(a, b) = d[Bits]
    /\ \A k \in 1..Bits : d[k] = 2 * d[k - 1] + (IF a[k] = b[k] THEN 0 ELSE 1)

\* The distance, bit by bit.
LEMMA DistanceIs == ASSUME NEW a, NEW b PROVE \E d : Distances(d, a, b)
<1>0. Bits \in Nat
    BY TableConstants
<1> DEFINE g == [x \in (1..Bits) \X Nat |-> 2 * x[2] + (IF a[x[1]] = b[x[1]] THEN 0 ELSE 1)]
           D == CHOOSE d : d = [i \in 0..Bits |-> IF i = 0 THEN 0 ELSE 2 * d[i - 1] + IF a[i] = b[i] THEN 0 ELSE 1]
<1>1. g \in [(1..Bits) \X Nat -> Nat]
    BY <1>0
<1>2. PICK f \in [0..Bits -> Nat] : f[0] = 0 /\ \A k \in 1..Bits : f[k] = g[<<k, f[k - 1]>>]
  <2>1. 0 \in Nat
    OBVIOUS
  <2>2. PICK n \in Nat : n = Bits
    BY <1>0
  <2>3. PICK h \in [(1..n) \X Nat -> Nat] : h = g
    BY <1>1, <2>2
  <2>4. PICK f : Solves(f, Nat, n, 0, h)
    BY <2>1, Recursion
  <2> HIDE DEF g
  <2> QED
    BY <2>2, <2>3, <2>4 DEF Solves
<1>3. \A k \in 1..Bits : k \in 0..Bits /\ k - 1 \in 0..Bits /\ k # 0 /\ f[k - 1] \in Nat
    BY <1>0
<1>4. \A k \in 1..Bits : f[k] = 2 * f[k - 1] + (IF a[k] = b[k] THEN 0 ELSE 1)
    BY <1>2, <1>3
<1> HIDE DEF g
<1>5. f = [i \in 0..Bits |-> IF i = 0 THEN 0 ELSE 2 * f[i - 1] + IF a[i] = b[i] THEN 0 ELSE 1]
  <2>1. \A i \in 0..Bits : f[i] = IF i = 0 THEN 0 ELSE 2 * f[i - 1] + IF a[i] = b[i] THEN 0 ELSE 1
    <3>1. \A i \in 0..Bits : i = 0 \/ i \in 1..Bits
      BY <1>0
    <3> QED
      BY <1>2, <1>4, <3>1
  <2> QED
    BY <2>1
<1>6. D = [i \in 0..Bits |-> IF i = 0 THEN 0 ELSE 2 * D[i - 1] + IF a[i] = b[i] THEN 0 ELSE 1]
    BY <1>5
<1>7. XorDistance(a, b) = D[Bits]
    BY DEF XorDistance
<1> HIDE DEF D
<1>8. D[0] = 0 /\ \A k \in 1..Bits : D[k] = 2 * D[k - 1] + (IF a[k] = b[k] THEN 0 ELSE 1)
    BY <1>0, <1>3, <1>6
<1>9. \A k \in 0..Bits : D[k] \in Nat
  <2> DEFINE Bad == {k \in 0..Bits : D[k] \notin Nat}
  <2>1. SUFFICES ASSUME Bad # {} PROVE FALSE
    OBVIOUS
  <2>2. Bad \in SUBSET Nat
    BY <1>0
  <2>3. PICK k \in Bad : \A l \in Bad : k <= l
    <3> HIDE DEF Bad
    <3> QED
      BY <2>1, <2>2, NatMinExists
  <2>4. k \in 1..Bits
    BY <1>0, <1>8, <2>3
  <2>5. k - 1 \in 0..Bits /\ ~(k <= k - 1)
    BY <1>0, <2>4
  <2>6. D[k - 1] \in Nat
    BY <2>3, <2>5
  <2>7. D[k] \in Nat
    BY <1>8, <2>4, <2>6
  <2> QED
    BY <2>3, <2>7
<1>10. D \in [0..Bits -> Nat]
    BY <1>6, <1>9
<1>11. Distances(D, a, b)
    BY <1>7, <1>8, <1>10 DEF Distances
<1> QED
    BY <1>11

\* The bucket of another id is the place of the first bit on which they differ.
LEMMA BucketIs ==
    ASSUME NEW a \in DhtId, NEW b \in DhtId, a # b
    PROVE  /\ BucketIndex(a, b) \in Bucket
           /\ \E i \in 1..Bits : BucketIndex(a, b) = i - 1 /\ a[i] # b[i] /\ \A k \in 1..Bits : k < i => a[k] = b[k]
<1>0. Bits \in Nat /\ a \in [1..Bits -> {0, 1}] /\ b \in [1..Bits -> {0, 1}]
    BY TableConstants
<1> DEFINE D == {i \in 1..Bits : a[i] # b[i]}
<1>1. D # {}
    BY <1>0
<1>2. D \in SUBSET Nat
    BY <1>0
<1>3. \E x \in D : \A y \in D : x <= y
  <2> HIDE DEF D
  <2> QED
    BY <1>1, <1>2, NatMinExists
<1>4. Min(D) \in D /\ \A y \in D : Min(D) <= y
  <2> HIDE DEF D
  <2> QED
    BY <1>3 DEF Min
<1>5. BucketIndex(a, b) = Min(D) - 1
    BY DEF BucketIndex
<1>6. PICK i \in D : i = Min(D) /\ \A y \in D : i <= y
    BY <1>4
<1>7. i \in 1..Bits /\ a[i] # b[i] /\ \A k \in 1..Bits : k < i => a[k] = b[k]
  <2>1. i \in 1..Bits /\ a[i] # b[i]
    OBVIOUS
  <2>2. ASSUME NEW k \in 1..Bits, k < i PROVE a[k] = b[k]
    <3>1. k \in Nat /\ i \in Nat /\ ~(i <= k)
      BY <1>0, <2>1, <2>2
    <3>2. k \notin D
      BY <1>6, <3>1
    <3> QED
      BY <3>2
  <2> QED
    BY <2>1, <2>2
<1>8. BucketIndex(a, b) = i - 1 /\ i - 1 \in Bucket
    BY <1>0, <1>5, <1>6, <1>7 DEF Bucket
<1> QED
    BY <1>7, <1>8

\* A node in a later bucket is closer.
LEMMA LaterIsCloser ==
    ASSUME NEW m \in DhtId, NEW a \in DhtId, NEW b \in DhtId, a # m, b # m, BucketIndex(m, a) < BucketIndex(m, b)
    PROVE  XorDistance(m, b) < XorDistance(m, a)
<1>0. Bits \in Nat
    BY TableConstants
<1>1. PICK i \in 1..Bits : BucketIndex(m, a) = i - 1 /\ m[i] # a[i]
    BY BucketIs
<1>2. PICK j \in 1..Bits : BucketIndex(m, b) = j - 1 /\ \A k \in 1..Bits : k < j => m[k] = b[k]
    BY BucketIs
<1>3. i < j /\ i \in Nat /\ j \in Nat
    BY <1>0, <1>1, <1>2
<1>4. PICK d \in [0..Bits -> Nat] : /\ d[0] = 0 /\ \A k \in 1..Bits : d[k] = 2 * d[k - 1] + (IF m[k] = a[k] THEN 0 ELSE 1)
                                    /\ XorDistance(m, a) = d[Bits]
  <2>1. PICK x : Distances(x, m, a)
    BY DistanceIs
  <2> QED
    BY <2>1 DEF Distances
<1>5. PICK e \in [0..Bits -> Nat] : /\ e[0] = 0 /\ \A k \in 1..Bits : e[k] = 2 * e[k - 1] + (IF m[k] = b[k] THEN 0 ELSE 1)
                                    /\ XorDistance(m, b) = e[Bits]
  <2>1. PICK x : Distances(x, m, b)
    BY DistanceIs
  <2> QED
    BY <2>1 DEF Distances
<1>6. \A k \in 0..i : e[k] = 0
  <2> DEFINE Bad == {k \in 0..i : e[k] # 0}
  <2>1. SUFFICES ASSUME Bad # {} PROVE FALSE
    OBVIOUS
  <2>2. Bad \in SUBSET Nat
    BY <1>3
  <2>3. PICK k \in Bad : \A l \in Bad : k <= l
    <3> HIDE DEF Bad
    <3> QED
      BY <2>1, <2>2, NatMinExists
  <2>4. k \in 1..Bits /\ k < j
    <3>1. k \in 0..i /\ k # 0
      BY <1>5, <2>3
    <3> QED
      BY <1>0, <1>3, <3>1
  <2>5. k - 1 \in 0..i /\ ~(k <= k - 1)
    BY <1>3, <2>3, <2>4
  <2>6. e[k - 1] = 0
    BY <2>3, <2>5
  <2>7. e[k] = 0
    BY <1>2, <1>5, <2>4, <2>6
  <2> QED
    BY <2>3, <2>7
<1>7. \A k \in i..Bits : e[k] < d[k]
  <2> DEFINE Bad == {k \in i..Bits : ~(e[k] < d[k])}
  <2>1. SUFFICES ASSUME Bad # {} PROVE FALSE
    OBVIOUS
  <2>2. Bad \in SUBSET Nat
    BY <1>0, <1>3
  <2>3. PICK k \in Bad : \A l \in Bad : k <= l
    <3> HIDE DEF Bad
    <3> QED
      BY <2>1, <2>2, NatMinExists
  <2>4. k \in 1..Bits /\ k - 1 \in 0..Bits /\ d[k - 1] \in Nat /\ e[k - 1] \in Nat /\ d[k] \in Nat /\ e[k] \in Nat
    BY <1>0, <1>1, <2>3
  <2>5. CASE k = i
    <3>1. d[i] = 2 * d[i - 1] + 1
      BY <1>1, <1>4
    <3>2. e[i] = 0
      BY <1>3, <1>6
    <3> QED
      BY <2>3, <2>4, <2>5, <3>1, <3>2
  <2>6. CASE k # i
    <3>1. k - 1 \in i..Bits /\ ~(k <= k - 1)
      BY <1>0, <1>1, <2>3, <2>6
    <3>2. e[k - 1] < d[k - 1]
      BY <2>3, <3>1
    <3>3. PICK u \in {0, 1}, v \in {0, 1} : d[k] = 2 * d[k - 1] + u /\ e[k] = 2 * e[k - 1] + v
      BY <1>4, <1>5, <2>4
    <3>4. \A x, y \in Nat, p, q \in {0, 1} : y < x => 2 * y + q < 2 * x + p
      OBVIOUS
    <3>5. e[k] < d[k]
      BY <2>4, <3>2, <3>3, <3>4
    <3> QED
      BY <2>3, <3>5
  <2> QED
    BY <2>5, <2>6
<1> QED
    BY <1>0, <1>1, <1>4, <1>5, <1>7

\* F[k] is what removing id leaves of the first k entries.
Kept(F, s, id) ==
    /\ F[0] = <<>>
    /\ \A k \in 1..Len(s) : F[k] = IF s[k].id # id THEN Append(F[k - 1], s[k]) ELSE F[k - 1]

\* What KBucket::remove leaves is the end of a recursion over the entries.
LEMMA WithoutIs ==
    ASSUME NEW s \in Seq(DhtEntry), NEW id
    PROVE  \E F : F \in [0..Len(s) -> Seq(DhtEntry)] /\ Kept(F, s, id) /\ Without(s, id) = F[Len(s)]
<1>0. Len(s) \in Nat /\ \A k \in 1..Len(s) : s[k] \in DhtEntry
    OBVIOUS
<1> DEFINE E == Seq(DhtEntry)
           g == [x \in (1..Len(s)) \X E |-> IF s[x[1]].id # id THEN Append(x[2], s[x[1]]) ELSE x[2]]
           D == CHOOSE F : F = [k \in 0..Len(s) |-> IF k = 0 THEN <<>>
                    ELSE IF s[k].id # id THEN Append(F[k - 1], s[k]) ELSE F[k - 1]]
<1>1. g \in [(1..Len(s)) \X E -> E]
  <2>1. ASSUME NEW x \in (1..Len(s)) \X E PROVE g[x] \in E
    <3>1. x[2] \in Seq(DhtEntry) /\ s[x[1]] \in DhtEntry
      BY <1>0
    <3>2. Append(x[2], s[x[1]]) \in Seq(DhtEntry)
      BY <3>1, AppendProperties
    <3> QED
      BY <3>1, <3>2
  <2> QED
    BY <2>1
<1>2. PICK f : /\ f \in [0..Len(s) -> E] /\ f[0] = <<>>
               /\ \A k \in 1..Len(s) : f[k] = g[<<k, f[k - 1]>>]
  <2>1. <<>> \in E
    OBVIOUS
  <2>2. PICK n \in Nat : n = Len(s)
    BY <1>0
  <2>3. PICK h \in [(1..n) \X E -> E] : h = g
    BY <1>1, <2>2
  <2> HIDE DEF E, g
  <2>4. PICK f : Solves(f, E, n, <<>>, h)
    BY <2>1, Recursion
  <2> QED
    BY <2>2, <2>3, <2>4 DEF Solves
<1>3. \A k \in 1..Len(s) : k \in 0..Len(s) /\ k - 1 \in 0..Len(s) /\ k # 0 /\ f[k - 1] \in E
  <2>1. \A n \in Nat : \A k \in 1..n : k \in 0..n /\ k - 1 \in 0..n /\ k # 0
    OBVIOUS
  <2> HIDE DEF E, g
  <2> QED
    BY <1>0, <1>2, <2>1
<1>4. \A k \in 1..Len(s) : f[k] = IF s[k].id # id THEN Append(f[k - 1], s[k]) ELSE f[k - 1]
    BY <1>2, <1>3
<1> HIDE DEF g
<1>5. f = [k \in 0..Len(s) |-> IF k = 0 THEN <<>> ELSE IF s[k].id # id THEN Append(f[k - 1], s[k]) ELSE f[k - 1]]
  <2>1. \A k \in 0..Len(s) : k = 0 \/ k \in 1..Len(s)
    BY <1>0
  <2>2. \A k \in 0..Len(s) : f[k] = IF k = 0 THEN <<>> ELSE IF s[k].id # id THEN Append(f[k - 1], s[k]) ELSE f[k - 1]
    BY <1>2, <1>4, <2>1
  <2> QED
    BY <1>2, <2>2
<1>6. D = [k \in 0..Len(s) |-> IF k = 0 THEN <<>> ELSE IF s[k].id # id THEN Append(D[k - 1], s[k]) ELSE D[k - 1]]
    BY <1>5
<1>7. Without(s, id) = D[Len(s)]
    BY DEF Without
<1> HIDE DEF D
<1>8. D[0] = <<>> /\ \A k \in 1..Len(s) : D[k] = IF s[k].id # id THEN Append(D[k - 1], s[k]) ELSE D[k - 1]
  <2>1. 0 \in 0..Len(s)
    BY <1>0
  <2>2. D[0] = <<>>
    BY <1>6, <2>1
  <2>3. ASSUME NEW k \in 1..Len(s) PROVE D[k] = IF s[k].id # id THEN Append(D[k - 1], s[k]) ELSE D[k - 1]
    <3>1. k \in 0..Len(s) /\ k # 0
      BY <1>3
    <3> QED
      BY <1>6, <3>1
  <2> QED
    BY <2>2, <2>3
<1>9. Kept(D, s, id)
    BY <1>8 DEF Kept
<1>10. \A k \in 0..Len(s) : D[k] \in E
  <2> DEFINE Bad == {k \in 0..Len(s) : D[k] \notin E}
  <2>1. SUFFICES ASSUME Bad # {} PROVE FALSE
    OBVIOUS
  <2>2. Bad \in SUBSET Nat
    BY <1>0
  <2>3. PICK k \in Bad : \A l \in Bad : k <= l
    <3> HIDE DEF Bad
    <3> QED
      BY <2>1, <2>2, NatMinExists
  <2>4. k \in 1..Len(s)
    <3>1. <<>> \in E
      OBVIOUS
    <3>2. k # 0
      BY <1>8, <2>3, <3>1
    <3> QED
      BY <1>0, <2>3, <3>2
  <2>5. k - 1 \in 0..Len(s) /\ ~(k <= k - 1)
    BY <1>0, <2>4
  <2>6. D[k - 1] \in Seq(DhtEntry) /\ s[k] \in DhtEntry
    BY <1>0, <2>3, <2>4, <2>5
  <2>7. Append(D[k - 1], s[k]) \in Seq(DhtEntry)
    BY <2>6, AppendProperties
  <2>8. D[k] \in E
    BY <1>8, <2>4, <2>6, <2>7
  <2> QED
    BY <2>3, <2>8
<1>11. D \in [0..Len(s) -> E]
    BY <1>6, <1>10
<1> QED
    BY <1>7, <1>9, <1>11

\* Every id is in a bucket once.
Once(s) == \A j, k \in 1..Len(s) : s[j].id = s[k].id => j = k

\* What is left of the first n entries.
Leaves(t, s, id, n) ==
    /\ t \in Seq(DhtEntry) /\ Len(t) <= n /\ Once(t)
    /\ \A j \in 1..Len(t) : t[j].id # id /\ \E k \in 1..n : t[j] = s[k]
    /\ \A k \in 1..n : s[k].id = id => Len(t) < n

\* A bucket without an id: the other entries, each as often as before, and one
\* less when the id was in it.
LEMMA WithoutLeaves ==
    ASSUME NEW s \in Seq(DhtEntry), Once(s), NEW id
    PROVE  Leaves(Without(s, id), s, id, Len(s))
<1>0. Len(s) \in Nat /\ \A k \in 1..Len(s) : s[k] \in DhtEntry
    OBVIOUS
<1>1. PICK F : F \in [0..Len(s) -> Seq(DhtEntry)] /\ Kept(F, s, id) /\ Without(s, id) = F[Len(s)]
    BY WithoutIs
<1> DEFINE Bad == {n \in 0..Len(s) : ~Leaves(F[n], s, id, n)}
<1>2. SUFFICES ASSUME Bad # {} PROVE FALSE
  <2>1. Len(s) \in 0..Len(s)
    BY <1>0
  <2> QED
    BY <1>1, <2>1
<1>3. Bad \in SUBSET Nat
    BY <1>0
<1>4. PICK n \in Bad : \A l \in Bad : n <= l
  <2> HIDE DEF Bad
  <2> QED
    BY <1>2, <1>3, NatMinExists
<1>5. Leaves(F[0], s, id, 0)
  <2>1. F[0] = <<>> /\ 1..0 = {} /\ Len(<<>>) = 0 /\ <<>> \in Seq(DhtEntry)
    BY <1>1 DEF Kept
  <2> QED
    BY <2>1 DEF Leaves, Once
<1>6. n \in 1..Len(s) /\ ~Leaves(F[n], s, id, n)
  <2>1. n \in 0..Len(s) /\ n # 0 /\ ~Leaves(F[n], s, id, n)
    BY <1>4, <1>5
  <2> QED
    BY <1>0, <2>1
<1>7. n - 1 \in 0..Len(s) /\ ~(n <= n - 1) /\ n \in Nat /\ n - 1 \in Nat
    BY <1>0, <1>6
<1>8. PICK t : t = F[n - 1] /\ Leaves(t, s, id, n - 1)
    BY <1>4, <1>7
<1>9. F[n] = IF s[n].id # id THEN Append(t, s[n]) ELSE t
    BY <1>1, <1>6, <1>8 DEF Kept
<1>10. /\ t \in Seq(DhtEntry) /\ Len(t) \in Nat /\ Len(t) <= n - 1 /\ s[n] \in DhtEntry
       /\ \A j \in 1..Len(t) : t[j].id # id /\ \E k \in 1..n - 1 : t[j] = s[k]
    BY <1>0, <1>6, <1>8 DEF Leaves
<1>11. /\ 1..n - 1 \subseteq 1..n /\ \A k \in 1..n : k # n => k \in 1..n - 1
    BY <1>7
<1>12. CASE s[n].id = id
  <2>1. F[n] = t
    BY <1>9, <1>12
  <2>2. Len(t) < n /\ Len(t) <= n
    BY <1>7, <1>10
  <2>3. Leaves(t, s, id, n)
    BY <1>8, <1>10, <1>11, <2>2 DEF Leaves
  <2> QED
    BY <1>6, <2>1, <2>3
<1>13. CASE s[n].id # id
  <2>1. PICK u : u = Append(t, s[n])
    OBVIOUS
  <2>2. u \in Seq(DhtEntry) /\ Len(u) = Len(t) + 1 /\ u[Len(t) + 1] = s[n] /\ \A j \in 1..Len(t) : u[j] = t[j]
    BY <1>10, <2>1, AppendProperties
  <2>3. \A j \in 1..Len(u) : j = Len(t) + 1 \/ j \in 1..Len(t)
    BY <1>10, <2>2
  <2>4. Len(u) <= n
    BY <1>7, <1>10, <2>2
  <2>5. \A j \in 1..Len(u) : u[j].id # id /\ \E k \in 1..n : u[j] = s[k]
    <3> SUFFICES ASSUME NEW j \in 1..Len(u) PROVE u[j].id # id /\ \E k \in 1..n : u[j] = s[k]
      OBVIOUS
    <3>1. CASE j = Len(t) + 1
      <4>1. u[j] = s[n] /\ n \in 1..n
        BY <1>7, <1>6, <2>2, <3>1
      <4> QED
        BY <1>13, <4>1
    <3>2. CASE j \in 1..Len(t)
      <4>1. PICK k \in 1..n - 1 : t[j] = s[k]
        BY <1>10, <3>2
      <4>2. u[j] = t[j] /\ t[j].id # id /\ k \in 1..n
        BY <1>10, <1>11, <2>2, <3>2
      <4> QED
        BY <4>1, <4>2
    <3> QED
      BY <2>3, <3>1, <3>2
  <2>6. \A k \in 1..n : s[k].id = id => Len(u) < n
    <3>1. ASSUME NEW k \in 1..n, s[k].id = id PROVE Len(u) < n
      <4>1. Len(t) < n - 1
        BY <1>8, <1>11, <1>13, <3>1 DEF Leaves
      <4> QED
        BY <1>7, <1>10, <2>2, <4>1
    <3> QED
      BY <3>1
  <2>7. \A j \in 1..Len(t) : t[j].id # s[n].id
    <3> SUFFICES ASSUME NEW j \in 1..Len(t), t[j].id = s[n].id PROVE FALSE
      OBVIOUS
    <3>1. PICK k \in 1..n - 1 : t[j] = s[k]
      BY <1>10
    <3>2. k \in 1..Len(s) /\ k # n
      BY <1>0, <1>6, <1>7
    <3> QED
      BY <1>6, <3>1, <3>2 DEF Once
  <2>8. Once(u)
    <3> SUFFICES ASSUME NEW i \in 1..Len(u), NEW j \in 1..Len(u), u[i].id = u[j].id PROVE i = j
      BY DEF Once
    <3>1. CASE i \in 1..Len(t) /\ j \in 1..Len(t)
      BY <1>8, <2>2, <3>1 DEF Leaves, Once
    <3>2. CASE i \in 1..Len(t) /\ j = Len(t) + 1
      BY <2>2, <2>7, <3>2
    <3>3. CASE j \in 1..Len(t) /\ i = Len(t) + 1
      BY <2>2, <2>7, <3>3
    <3> QED
      BY <2>3, <3>1, <3>2, <3>3
  <2>9. Leaves(u, s, id, n)
    BY <2>2, <2>4, <2>5, <2>6, <2>8 DEF Leaves
  <2> QED
    BY <1>6, <1>9, <1>13, <2>1, <2>9
<1> QED
    BY <1>12, <1>13

\* A bucket of m: its length, its ids and where they belong, and no entry of the future.
BucketOK(m, i, s, at) ==
    /\ s \in Seq(DhtEntry) /\ Len(s) <= K /\ Once(s)
    /\ \A k \in 1..Len(s) : s[k].id # m /\ BucketIndex(m, s[k].id) = i /\ s[k].seen <= at
DhtTableOK(m, table, at) == table = [i \in Bucket |-> table[i]] /\ \A i \in Bucket : BucketOK(m, i, table[i], at)

\* The ids of a bucket.
LEMMA IdsAre == ASSUME NEW s \in Seq(DhtEntry) PROVE Ids(s) = {s[k].id : k \in 1..Len(s)}
BY DEF Ids, ToSet

\* KBucket::remove keeps a bucket sound, and makes room if the id was there.
LEMMA WithoutSound ==
    ASSUME NEW m, NEW i, NEW at, NEW s, BucketOK(m, i, s, at), NEW id
    PROVE  /\ BucketOK(m, i, Without(s, id), at)
           /\ id \in Ids(s) => Len(Without(s, id)) < Len(s)
           /\ \A j \in 1..Len(Without(s, id)) : Without(s, id)[j].id # id
<1>0. s \in Seq(DhtEntry) /\ Len(s) \in Nat /\ Len(s) <= K /\ Once(s)
    BY DEF BucketOK
<1>1. PICK t : t = Without(s, id) /\ Leaves(t, s, id, Len(s))
    BY <1>0, WithoutLeaves
<1>2. /\ t \in Seq(DhtEntry) /\ Len(t) \in Nat /\ Len(t) <= Len(s) /\ Once(t)
      /\ \A j \in 1..Len(t) : t[j].id # id /\ \E k \in 1..Len(s) : t[j] = s[k]
    BY <1>1 DEF Leaves
<1>3. Len(t) <= K
    BY <1>0, <1>2, TableConstants
<1>4. \A j \in 1..Len(t) : t[j].id # m /\ BucketIndex(m, t[j].id) = i /\ t[j].seen <= at
    BY <1>2 DEF BucketOK
<1>5. id \in Ids(s) => Len(t) < Len(s)
  <2> SUFFICES ASSUME id \in Ids(s) PROVE Len(t) < Len(s)
    OBVIOUS
  <2>1. Ids(s) = {s[k].id : k \in 1..Len(s)}
    BY <1>0, IdsAre
  <2>2. PICK k \in 1..Len(s) : s[k].id = id
    BY <2>1
  <2> QED
    BY <1>1, <2>2 DEF Leaves
<1> QED
    BY <1>1, <1>2, <1>3, <1>4, <1>5 DEF BucketOK

\* A new entry at the end.
LEMMA AppendSound ==
    ASSUME NEW m, NEW i, NEW at \in Nat, NEW s, BucketOK(m, i, s, at), Len(s) < K,
           NEW id \in DhtId, id # m, BucketIndex(m, id) = i, \A j \in 1..Len(s) : s[j].id # id
    PROVE  BucketOK(m, i, Append(s, [id |-> id, seen |-> at]), at)
<1>0. s \in Seq(DhtEntry) /\ Len(s) \in Nat
    BY DEF BucketOK
<1>1. PICK e \in DhtEntry : e = [id |-> id, seen |-> at]
    BY DEF DhtEntry
<1>2. PICK u : u = Append(s, e)
    OBVIOUS
<1>3. u \in Seq(DhtEntry) /\ Len(u) = Len(s) + 1 /\ u[Len(s) + 1] = e /\ \A j \in 1..Len(s) : u[j] = s[j]
    BY <1>0, <1>2, AppendProperties
<1>4. \A j \in 1..Len(u) : j = Len(s) + 1 \/ j \in 1..Len(s)
    BY <1>0, <1>3
<1>5. Len(u) <= K
    BY <1>0, <1>3, TableConstants
<1>6. Once(u)
  <2> SUFFICES ASSUME NEW j \in 1..Len(u), NEW k \in 1..Len(u), u[j].id = u[k].id PROVE j = k
    BY DEF Once
  <2>1. CASE j \in 1..Len(s) /\ k \in 1..Len(s)
    BY <1>3, <2>1 DEF BucketOK, Once
  <2>2. CASE j \in 1..Len(s) /\ k = Len(s) + 1
    BY <1>1, <1>3, <2>2
  <2>3. CASE k \in 1..Len(s) /\ j = Len(s) + 1
    BY <1>1, <1>3, <2>3
  <2> QED
    BY <1>4, <2>1, <2>2, <2>3
<1>7. e.seen = at /\ e.id = id /\ at <= at
    BY <1>1
<1>8. \A k \in 1..Len(u) : u[k].id # m /\ BucketIndex(m, u[k].id) = i /\ u[k].seen <= at
    BY <1>3, <1>4, <1>7 DEF BucketOK
<1>9. BucketOK(m, i, u, at)
    BY <1>3, <1>5, <1>6, <1>8 DEF BucketOK
<1> QED
    BY <1>1, <1>2, <1>9

\* KBucket::insert keeps a bucket sound.
LEMMA KInsertSound ==
    ASSUME dhtTime \in Nat, NEW m, NEW i, NEW s, BucketOK(m, i, s, dhtTime), NEW id \in DhtId, id # m, BucketIndex(m, id) = i
    PROVE  BucketOK(m, i, KInsert(s, id), dhtTime)
<1>0. s \in Seq(DhtEntry) /\ Len(s) \in Nat
    BY DEF BucketOK
<1>1. CASE id \in Ids(s)
  <2>1. PICK e \in DhtEntry : e = [id |-> id, seen |-> dhtTime]
    BY DEF DhtEntry
  <2>2. PICK u : u = [k \in 1..Len(s) |-> IF s[k].id = id THEN e ELSE s[k]]
    OBVIOUS
  <2>3. u \in [1..Len(s) -> DhtEntry] /\ \A k \in 1..Len(s) : u[k] = IF s[k].id = id THEN e ELSE s[k]
    BY <1>0, <2>2
  <2>4. u \in Seq(DhtEntry) /\ Len(u) = Len(s)
    BY <1>0, <2>3, IsASeq
  <2>5. \A k \in 1..Len(s) : u[k].id = s[k].id /\ (u[k].seen = dhtTime \/ u[k].seen = s[k].seen)
    BY <2>1, <2>3
  <2>6. dhtTime <= dhtTime
    OBVIOUS
  <2>7. BucketOK(m, i, u, dhtTime)
    BY <2>4, <2>5, <2>6 DEF BucketOK, Once
  <2>8. KInsert(s, id) = u
    BY <1>1, <2>1, <2>2 DEF KInsert
  <2> QED
    BY <2>7, <2>8
<1>2. CASE id \notin Ids(s) /\ Len(s) < K
  <2>1. \A j \in 1..Len(s) : s[j].id # id
    BY <1>0, <1>2, IdsAre
  <2>2. BucketOK(m, i, Append(s, [id |-> id, seen |-> dhtTime]), dhtTime)
    BY <1>2, <2>1, AppendSound
  <2> QED
    BY <1>2, <2>2 DEF KInsert
<1>3. CASE id \notin Ids(s) /\ ~(Len(s) < K)
  <2>1. KInsert(s, id) = s
    BY <1>3 DEF KInsert
  <2> QED
    BY <2>1
<1> QED
    BY <1>1, <1>2, <1>3

\* KBucket::touch keeps a bucket sound.
LEMMA KTouchSound ==
    ASSUME dhtTime \in Nat, NEW m, NEW i, NEW s, BucketOK(m, i, s, dhtTime), NEW id \in DhtId, id # m, BucketIndex(m, id) = i
    PROVE  BucketOK(m, i, KTouch(s, id), dhtTime)
<1>1. CASE id \in Ids(s)
  <2>1. PICK t : t = Without(s, id)
    OBVIOUS
  <2>2. BucketOK(m, i, t, dhtTime) /\ Len(t) < Len(s) /\ \A j \in 1..Len(t) : t[j].id # id
    BY <1>1, <2>1, WithoutSound
  <2>3. Len(t) \in Nat /\ Len(s) \in Nat /\ Len(s) <= K
    BY <2>2 DEF BucketOK
  <2>4. Len(t) < K
    BY <2>2, <2>3, TableConstants
  <2>5. BucketOK(m, i, Append(t, [id |-> id, seen |-> dhtTime]), dhtTime)
    BY <2>2, <2>4, AppendSound
  <2> QED
    BY <1>1, <2>1, <2>5 DEF KTouch
<1>2. CASE id \notin Ids(s)
    BY <1>2 DEF KTouch
<1> QED
    BY <1>1, <1>2

\* insert_node and touch_node keep a table sound.
LEMMA InsertSound ==
    ASSUME dhtTime \in Nat, NEW m \in Manager, NEW table, DhtTableOK(m, table, dhtTime), NEW id \in DhtId
    PROVE  DhtTableOK(m, AfterInsert(m, table, id), dhtTime) /\ DhtTableOK(m, AfterTouch(m, table, id), dhtTime)
<1>1. CASE id = m
    BY <1>1 DEF AfterInsert, AfterTouch
<1>2. CASE id # m
  <2>0. m \in DhtId
    BY TableConstants
  <2>1. PICK i \in Bucket : i = BucketIndex(m, id)
    BY <1>2, <2>0, BucketIs
  <2>2. BucketOK(m, i, table[i], dhtTime)
    BY DEF DhtTableOK
  <2>3. PICK s, t : /\ s = KInsert(table[i], id) /\ BucketOK(m, i, s, dhtTime)
                    /\ t = KTouch(table[i], id) /\ BucketOK(m, i, t, dhtTime)
    BY <1>2, <2>1, <2>2, KInsertSound, KTouchSound
  <2>4. AfterInsert(m, table, id) = [table EXCEPT ![i] = s] /\ AfterTouch(m, table, id) = [table EXCEPT ![i] = t]
    BY <1>2, <2>1, <2>3 DEF AfterInsert, AfterTouch
  <2>5. ASSUME NEW u, BucketOK(m, i, u, dhtTime) PROVE DhtTableOK(m, [table EXCEPT ![i] = u], dhtTime)
    <3>1. PICK new : new = [table EXCEPT ![i] = u]
      OBVIOUS
    <3>2. table = [j \in Bucket |-> table[j]]
      BY DEF DhtTableOK
    <3>3. new = [j \in Bucket |-> new[j]] /\ new[i] = u /\ \A j \in Bucket : j # i => new[j] = table[j]
      BY <3>1, <3>2
    <3>4. DhtTableOK(m, new, dhtTime)
      BY <2>5, <3>3 DEF DhtTableOK
    <3> QED
      BY <3>1, <3>4
  <2> QED
    BY <2>3, <2>4, <2>5
<1> QED
    BY <1>1, <1>2

\* The tables of m that are sound.
SoundTables(m, at) == {t \in [Bucket -> Seq(DhtEntry)] : DhtTableOK(m, t, at)}

\* So does a list of nodes, inserted one after the other.
LEMMA InsertsSound ==
    ASSUME dhtTime \in Nat, NEW m \in Manager, NEW table, DhtTableOK(m, table, dhtTime), NEW list \in Seq(DhtId)
    PROVE  DhtTableOK(m, AfterInserts(m, table, list), dhtTime)
<1>0. Len(list) \in Nat /\ \A k \in 1..Len(list) : list[k] \in DhtId
    OBVIOUS
<1> DEFINE S == SoundTables(m, dhtTime)
           g == [x \in (1..Len(list)) \X S |-> AfterInsert(m, x[2], list[x[1]])]
           D == CHOOSE t : t = [k \in 0..Len(list) |-> IF k = 0 THEN table ELSE AfterInsert(m, t[k - 1], list[k])]
<1>1. \A t : DhtTableOK(m, t, dhtTime) <=> t \in S
  <2> SUFFICES ASSUME NEW t, DhtTableOK(m, t, dhtTime) PROVE t \in [Bucket -> Seq(DhtEntry)]
    BY DEF SoundTables
  <2>1. t = [i \in Bucket |-> t[i]] /\ \A i \in Bucket : t[i] \in Seq(DhtEntry)
    BY DEF DhtTableOK, BucketOK
  <2> QED
    BY <2>1
<1> HIDE DEF S
<1>2. \A t \in S, k \in 1..Len(list) : AfterInsert(m, t, list[k]) \in S
    BY <1>0, <1>1, InsertSound
<1>3. g \in [(1..Len(list)) \X S -> S]
    BY <1>2
<1>4. PICK f : /\ f \in [0..Len(list) -> S] /\ f[0] = table
               /\ \A k \in 1..Len(list) : f[k] = g[<<k, f[k - 1]>>]
  <2>1. table \in S
    BY <1>1
  <2>2. PICK n \in Nat : n = Len(list)
    BY <1>0
  <2>3. PICK h \in [(1..n) \X S -> S] : h = g
    BY <1>3, <2>2
  <2>4. PICK T : T = S
    OBVIOUS
  <2>0. PICK a \in T : a = table
    BY <2>1, <2>4
  <2> HIDE DEF g
  <2>5. h \in [(1..n) \X T -> T]
    BY <2>3, <2>4
  <2>6. PICK f : Solves(f, T, n, a, h)
    BY <2>5, Recursion
  <2> QED
    BY <2>0, <2>2, <2>3, <2>4, <2>6 DEF Solves
<1>5. \A k \in 1..Len(list) : k \in 0..Len(list) /\ k - 1 \in 0..Len(list) /\ k # 0 /\ f[k - 1] \in S
  <2>1. \A n \in Nat : \A k \in 1..n : k \in 0..n /\ k - 1 \in 0..n /\ k # 0
    OBVIOUS
  <2> HIDE DEF g
  <2> QED
    BY <1>0, <1>4, <2>1
<1>6. \A k \in 1..Len(list) : f[k] = AfterInsert(m, f[k - 1], list[k])
    BY <1>4, <1>5
<1> HIDE DEF g
<1>7. f = [k \in 0..Len(list) |-> IF k = 0 THEN table ELSE AfterInsert(m, f[k - 1], list[k])]
  <2>1. \A k \in 0..Len(list) : k = 0 \/ k \in 1..Len(list)
    BY <1>0
  <2>2. \A k \in 0..Len(list) : f[k] = IF k = 0 THEN table ELSE AfterInsert(m, f[k - 1], list[k])
    BY <1>4, <1>6, <2>1
  <2> QED
    BY <1>4, <2>2
<1>8. D = [k \in 0..Len(list) |-> IF k = 0 THEN table ELSE AfterInsert(m, D[k - 1], list[k])]
    BY <1>7
<1>9. AfterInserts(m, table, list) = D[Len(list)]
    BY DEF AfterInserts
<1> HIDE DEF D
<1>10. D[0] = table /\ \A k \in 1..Len(list) : D[k] = AfterInsert(m, D[k - 1], list[k])
  <2>1. 0 \in 0..Len(list)
    BY <1>0
  <2>2. D[0] = table
    BY <1>8, <2>1
  <2>3. ASSUME NEW k \in 1..Len(list) PROVE D[k] = AfterInsert(m, D[k - 1], list[k])
    <3>1. k \in 0..Len(list) /\ k # 0
      BY <1>5
    <3> QED
      BY <1>8, <3>1
  <2> QED
    BY <2>2, <2>3
<1>11. \A k \in 0..Len(list) : D[k] \in S
  <2> DEFINE Bad == {k \in 0..Len(list) : D[k] \notin S}
  <2>1. SUFFICES ASSUME Bad # {} PROVE FALSE
    OBVIOUS
  <2>2. Bad \in SUBSET Nat
    BY <1>0
  <2>3. PICK k \in Bad : \A l \in Bad : k <= l
    <3> HIDE DEF Bad
    <3> QED
      BY <2>1, <2>2, NatMinExists
  <2>4. k \in 1..Len(list)
    <3>1. k # 0
      BY <1>1, <1>10, <2>3
    <3> QED
      BY <1>0, <2>3, <3>1
  <2>5. k - 1 \in 0..Len(list) /\ ~(k <= k - 1)
    BY <1>0, <2>4
  <2>6. D[k - 1] \in S
    BY <2>3, <2>5
  <2>7. D[k] \in S
    BY <1>2, <1>10, <2>4, <2>6
  <2> QED
    BY <2>3, <2>7
<1>12. Len(list) \in 0..Len(list)
    BY <1>0
<1> QED
    BY <1>1, <1>9, <1>11, <1>12

DhtMsg == [type : DhtMessageType, from : DhtNode, to : DhtId, target : DhtNode, nodes : SUBSET DhtId]

\* Every table is sound, what refresh has listed are places of the table, and
\* messages have their type.
DhtTableInv ==
    /\ dhtTime \in 0..MaxDhtTime
    /\ buckets = [m \in Manager |-> buckets[m]] /\ \A m \in Manager : DhtTableOK(m, buckets[m], dhtTime)
    /\ refreshing \in [Manager -> SUBSET (Bucket \X DhtId)]
    /\ dhtWire \subseteq DhtMsg

\* It holds at first.
LEMMA DhtTableInit == DhtInit => DhtTableInv
<1> SUFFICES ASSUME DhtInit PROVE DhtTableInv
    OBVIOUS
<1>1. \A m \in Manager, i \in Bucket : buckets[m][i] = <<>>
    BY DEF DhtInit
<1>2. <<>> \in Seq(DhtEntry) /\ Len(<<>>) = 0 /\ 1..0 = {} /\ 0 <= K /\ 0 \in 0..MaxDhtTime
    BY TableConstants
<1>3. \A m \in Manager, i \in Bucket : \A at : BucketOK(m, i, <<>>, at)
    BY <1>2 DEF BucketOK, Once
<1>4. \A m \in Manager : DhtTableOK(m, buckets[m], dhtTime)
    BY <1>1, <1>3 DEF DhtInit, DhtTableOK
<1> QED
    BY <1>2, <1>4 DEF DhtInit, DhtTableInv

\* Time only makes entries older.
LEMMA StillSound ==
    ASSUME NEW m, NEW table, NEW at \in Nat, NEW since \in Nat, at <= since, DhtTableOK(m, table, at)
    PROVE  DhtTableOK(m, table, since)
<1>1. ASSUME NEW i \in Bucket PROVE BucketOK(m, i, table[i], since)
  <2>1. BucketOK(m, i, table[i], at)
    BY DEF DhtTableOK
  <2>2. ASSUME NEW k \in 1..Len(table[i]) PROVE table[i][k].seen <= since
    <3>1. table[i][k] \in DhtEntry /\ table[i][k].seen <= at
      BY <2>1 DEF BucketOK
    <3>2. table[i][k].seen \in Nat
      BY <3>1 DEF DhtEntry
    <3> QED
      BY <3>1, <3>2
  <2> QED
    BY <2>1, <2>2 DEF BucketOK
<1> QED
    BY <1>1 DEF DhtTableOK

\* One table changes.
LEMMA OneTable ==
    ASSUME DhtTableInv, NEW m \in Manager, NEW table, DhtTableOK(m, table, dhtTime), buckets' = [buckets EXCEPT ![m] = table],
           dhtTime' = dhtTime, refreshing' \in [Manager -> SUBSET (Bucket \X DhtId)], dhtWire' \subseteq DhtMsg
    PROVE  DhtTableInv'
<1>1. buckets = [n \in Manager |-> buckets[n]] /\ dhtTime \in 0..MaxDhtTime
    BY DEF DhtTableInv
<1>2. buckets' = [n \in Manager |-> buckets'[n]] /\ buckets'[m] = table /\ \A n \in Manager : n # m => buckets'[n] = buckets[n]
    BY <1>1
<1>3. \A n \in Manager : DhtTableOK(n, buckets'[n], dhtTime)
    BY <1>2 DEF DhtTableInv
<1>4. \A n \in Manager : DhtTableOK(n, buckets[n], dhtTime)'
  <2>1. PICK at : at = dhtTime
    OBVIOUS
  <2>2. PICK tables : tables = buckets'
    OBVIOUS
  <2>3. dhtTime' = at /\ \A n \in Manager : DhtTableOK(n, tables[n], at)
    BY <1>3, <2>1, <2>2
  <2> QED
    BY <2>2, <2>3 DEF DhtTableOK, BucketOK
<1> QED
    BY <1>1, <1>2, <1>4 DEF DhtTableInv

\* An entry is removed.
LEMMA RemoveSound ==
    ASSUME DhtTableInv, NEW m \in Manager, NEW i \in Bucket, NEW id
    PROVE  /\ DhtTableOK(m, [buckets[m] EXCEPT ![i] = Without(@, id)], dhtTime)
           /\ [buckets EXCEPT ![m][i] = Without(@, id)] = [buckets EXCEPT ![m] = [buckets[m] EXCEPT ![i] = Without(@, id)]]
<1>1. DhtTableOK(m, buckets[m], dhtTime)
    BY DEF DhtTableInv
<1>2. PICK table : table = buckets[m]
    OBVIOUS
<1>3. PICK s : s = Without(table[i], id) /\ BucketOK(m, i, s, dhtTime)
    BY <1>1, <1>2, WithoutSound DEF DhtTableOK
<1>4. PICK new : new = [table EXCEPT ![i] = s]
    OBVIOUS
<1>5. table = [j \in Bucket |-> table[j]]
    BY <1>1, <1>2 DEF DhtTableOK
<1>6. new = [j \in Bucket |-> new[j]] /\ new[i] = s /\ \A j \in Bucket : j # i => new[j] = table[j]
    BY <1>4, <1>5
<1>7. DhtTableOK(m, new, dhtTime)
    BY <1>1, <1>2, <1>3, <1>6 DEF DhtTableOK
<1> QED
    BY <1>2, <1>3, <1>4, <1>7

\* The tables stay.
LEMMA TablesStay ==
    ASSUME DhtTableInv, UNCHANGED <<buckets, dhtTime>>,
           refreshing' \in [Manager -> SUBSET (Bucket \X DhtId)], dhtWire' \subseteq DhtMsg
    PROVE  DhtTableInv'
<1>1. PICK at, tables : at = dhtTime /\ tables = buckets
    OBVIOUS
<1>2. /\ at \in 0..MaxDhtTime /\ tables = [m \in Manager |-> tables[m]]
      /\ \A m \in Manager : DhtTableOK(m, tables[m], at)
    BY <1>1 DEF DhtTableInv
<1>3. dhtTime' = at /\ buckets' = tables
    BY <1>1
<1>4. \A m \in Manager : DhtTableOK(m, buckets[m], dhtTime)'
    BY <1>2, <1>3 DEF DhtTableOK, BucketOK
<1> QED
    BY <1>2, <1>3, <1>4 DEF DhtTableInv

\* insert_node and bootstrap_from_nodes.
LEMMA InsertStep ==
    ASSUME DhtTableInv, NEW m \in Manager, NEW id \in DhtId,
           buckets' = [buckets EXCEPT ![m] = AfterInsert(m, @, id)], UNCHANGED <<refreshing, dhtWire, dhtTime>>
    PROVE  DhtTableInv'
<1>1. DhtTableOK(m, buckets[m], dhtTime) /\ dhtTime \in Nat
    BY TableConstants DEF DhtTableInv
<1>2. PICK table : table = AfterInsert(m, buckets[m], id) /\ DhtTableOK(m, table, dhtTime)
  <2>1. PICK old : old = buckets[m]
    OBVIOUS
  <2>2. DhtTableOK(m, AfterInsert(m, old, id), dhtTime)
    BY <1>1, <2>1, InsertSound
  <2> QED
    BY <2>1, <2>2
<1>3. buckets' = [buckets EXCEPT ![m] = table]
    BY <1>2
<1>4. refreshing' \in [Manager -> SUBSET (Bucket \X DhtId)] /\ dhtWire' \subseteq DhtMsg
    BY DEF DhtTableInv
<1> QED
    BY <1>2, <1>3, <1>4, OneTable

\* remove_node, and refresh when it removes what it has listed.
LEMMA RemoveStep ==
    ASSUME DhtTableInv, NEW m \in Manager, NEW i \in Bucket, NEW id,
           buckets' = [buckets EXCEPT ![m][i] = Without(@, id)], UNCHANGED dhtTime,
           refreshing' \in [Manager -> SUBSET (Bucket \X DhtId)], dhtWire' \subseteq DhtMsg
    PROVE  DhtTableInv'
<1>1. PICK table : table = [buckets[m] EXCEPT ![i] = Without(@, id)] /\ DhtTableOK(m, table, dhtTime)
    BY RemoveSound
<1>2. buckets' = [buckets EXCEPT ![m] = table]
    BY <1>1, RemoveSound
<1> QED
    BY <1>1, <1>2, OneTable

\* What a table knows are ids.
LEMMA KnownAreIds ==
    ASSUME DhtTableInv, NEW m \in Manager
    PROVE  Known(m) \subseteq DhtId /\ \A i \in Bucket : Ids(buckets[m][i]) \subseteq DhtId
<1>1. ASSUME NEW i \in Bucket PROVE Ids(buckets[m][i]) \subseteq DhtId
  <2>1. buckets[m][i] \in Seq(DhtEntry)
    BY DEF DhtTableInv, DhtTableOK, BucketOK
  <2>2. PICK s \in Seq(DhtEntry) : s = buckets[m][i]
    BY <2>1
  <2>3. Ids(s) = {s[k].id : k \in 1..Len(s)}
    BY IdsAre
  <2>4. \A k \in 1..Len(s) : s[k] \in DhtEntry
    OBVIOUS
  <2>5. Ids(s) \subseteq DhtId
    BY <2>3, <2>4 DEF DhtEntry
  <2> QED
    BY <2>2, <2>5
<1> QED
    BY <1>1 DEF Known

\* refresh looks at a bucket.
LEMMA RefreshListStep ==
    ASSUME DhtTableInv, NEW m \in Manager, NEW i \in Bucket, RefreshList(m, i)
    PROVE  DhtTableInv'
<1>1. PICK ids : ids = Ids(buckets[m][i]) /\ ids \subseteq DhtId
    BY KnownAreIds
<1>2. {<<i, id>> : id \in ids} \subseteq Bucket \X DhtId
    BY <1>1
<1>3. refreshing' = [refreshing EXCEPT ![m] = {<<i, id>> : id \in ids}]
    BY <1>1 DEF RefreshList
<1>4. refreshing' \in [Manager -> SUBSET (Bucket \X DhtId)]
    BY <1>2, <1>3 DEF DhtTableInv
<1>5. UNCHANGED <<buckets, dhtTime>> /\ dhtWire' \subseteq DhtMsg
    BY DEF RefreshList, DhtTableInv
<1> QED
    BY <1>4, <1>5, TablesStay

\* refresh removes one of the nodes it has listed.
LEMMA RefreshRemoveStep ==
    ASSUME DhtTableInv, NEW m \in Manager, RefreshRemove(m)
    PROVE  DhtTableInv'
<1>1. PICK x \in refreshing[m] : /\ buckets' = [buckets EXCEPT ![m][x[1]] = Without(@, x[2])]
                                 /\ refreshing' = [refreshing EXCEPT ![m] = @ \ {x}]
                                 /\ UNCHANGED <<dhtWire, dhtTime>>
    BY DEF RefreshRemove
<1>2. x \in Bucket \X DhtId
    BY DEF DhtTableInv
<1>3. PICK i \in Bucket, id \in DhtId : i = x[1] /\ id = x[2]
    BY <1>2
<1>4. refreshing' \in [Manager -> SUBSET (Bucket \X DhtId)] /\ dhtWire' \subseteq DhtMsg
    BY <1>1 DEF DhtTableInv
<1> QED
    BY <1>1, <1>3, <1>4, RemoveStep

\* What is sent has its type.
LEMMA SendStep ==
    ASSUME DhtTableInv, NEW m \in Manager,
           \/ \E type \in {"Ping", "FindNode"}, to \in DhtNode : Query(m, type, to)
           \/ \E n \in DhtNode : PeerSends(n, m)
    PROVE  DhtTableInv'
<1>1. m \in DhtNode /\ m \in DhtId /\ DhtNode \subseteq DhtId
    BY TableConstants
<1>2. \E msg \in DhtMsg : dhtWire' = dhtWire \cup {msg}
  <2>1. CASE \E type \in {"Ping", "FindNode"}, to \in DhtNode : Query(m, type, to)
    <3>1. PICK type \in {"Ping", "FindNode"}, to \in DhtNode : Query(m, type, to)
      BY <2>1
    <3>2. PICK sought \in DhtNode :
             dhtWire' = dhtWire \cup {[type |-> type, from |-> m, to |-> to, target |-> sought, nodes |-> {}]}
      BY <1>1, <3>1 DEF Query, DhtSend
    <3>3. [type |-> type, from |-> m, to |-> to, target |-> sought, nodes |-> {}] \in DhtMsg
      BY <1>1 DEF DhtMsg, DhtMessageType
    <3> QED
      BY <3>2, <3>3
  <2>2. CASE \E n \in DhtNode : PeerSends(n, m)
    <3>1. PICK n \in DhtNode : PeerSends(n, m)
      BY <2>2
    <3>2. PICK type \in DhtMessageType, sought \in DhtNode, nodes \in SUBSET DhtId :
             dhtWire' = dhtWire \cup {[type |-> type, from |-> n, to |-> m, target |-> sought, nodes |-> nodes]}
      BY <3>1 DEF PeerSends, DhtSend, DhtId
    <3>3. [type |-> type, from |-> n, to |-> m, target |-> sought, nodes |-> nodes] \in DhtMsg
      BY <1>1 DEF DhtMsg
    <3> QED
      BY <3>2, <3>3
  <2> QED
    BY <2>1, <2>2
<1>3. dhtWire' \subseteq DhtMsg
    BY <1>2 DEF DhtTableInv
<1>4. UNCHANGED <<buckets, refreshing, dhtTime>>
    BY DEF Query, PeerSends
<1>5. refreshing' \in [Manager -> SUBSET (Bucket \X DhtId)]
    BY <1>4 DEF DhtTableInv
<1> QED
    BY <1>3, <1>4, <1>5, TablesStay

\* Answers have their type.
LEMMA AnswersTyped ==
    ASSUME DhtTableInv, NEW msg \in DhtMsg, msg.to \in Manager
    PROVE  Answers(msg) \subseteq DhtMsg
<1>1. Manager \subseteq DhtNode /\ DhtNode \subseteq DhtId
    BY TableConstants
<1>2. CASE msg.type = "Ping"
  <2>1. [msg EXCEPT !.type = "Pong", !.from = msg.to, !.to = msg.from] \in DhtMsg
    BY <1>1 DEF DhtMsg, DhtMessageType
  <2> QED
    BY <1>2, <2>1 DEF Answers
<1>3. CASE msg.type = "FindNode"
  <2>1. PICK m \in Manager : m = msg.to
    OBVIOUS
  <2>2. PICK near \in SUBSET DhtId : near = FindNearest(m, msg.target)
    BY KnownAreIds DEF FindNearest
  <2>3. [msg EXCEPT !.type = "Nodes", !.from = msg.to, !.to = msg.from, !.nodes = near] \in DhtMsg
    BY <1>1 DEF DhtMsg, DhtMessageType
  <2>4. Answers(msg) = {[msg EXCEPT !.type = "Nodes", !.from = msg.to, !.to = msg.from, !.nodes = near]}
    BY <1>3, <2>1, <2>2 DEF Answers
  <2> QED
    BY <2>3, <2>4
<1>4. CASE msg.type \notin {"Ping", "FindNode"}
    BY <1>4 DEF Answers
<1> QED
    BY <1>2, <1>3, <1>4

\* An order of ids is a sequence of ids.
LEMMA ListsAreIds == ASSUME NEW nodes \in SUBSET DhtId, NEW list \in SetToSeqs(nodes) PROVE list \in Seq(DhtId)
<1>1. IsFiniteSet(DhtId)
    BY DhtAssumption, FS_AddElement DEF DhtId
<1>2. IsFiniteSet(nodes)
    BY <1>1, FS_Subset
<1>3. PICK n \in Nat : n = Cardinality(nodes)
    BY <1>2, FS_CardinalityType
<1>4. list \in [1..n -> nodes]
    BY <1>3 DEF SetToSeqs
<1>5. list \in [1..n -> DhtId]
    BY <1>4
<1> QED
    BY <1>5, IsASeq

\* process_message.
LEMMA ProcessStep ==
    ASSUME DhtTableInv, NEW msg \in dhtWire, ProcessMessage(msg)
    PROVE  DhtTableInv'
<1>1. msg \in DhtMsg /\ dhtTime \in Nat
    BY TableConstants DEF DhtTableInv
<1>2. PICK m \in Manager : m = msg.to
    BY DEF ProcessMessage
<1>3. msg.nodes \in SUBSET DhtId /\ msg.from \in DhtId
    BY <1>1, TableConstants DEF DhtMsg
<1>4. PICK list \in SetToSeqs(msg.nodes) :
         buckets' = [buckets EXCEPT ![m] =
              IF msg.type = "Nodes" THEN AfterInserts(m, @, list)
              ELSE IF msg.type \in {"Ping", "Pong"} THEN AfterTouch(m, @, msg.from) ELSE @]
    BY <1>2 DEF ProcessMessage
<1>5. list \in Seq(DhtId)
    BY <1>3, ListsAreIds
<1>6. PICK old : old = buckets[m] /\ DhtTableOK(m, old, dhtTime)
    BY DEF DhtTableInv
<1>7. DhtTableOK(m, AfterInserts(m, old, list), dhtTime) /\ DhtTableOK(m, AfterTouch(m, old, msg.from), dhtTime)
    BY <1>1, <1>3, <1>5, <1>6, InsertsSound, InsertSound
<1>8. PICK table : /\ table = IF msg.type = "Nodes" THEN AfterInserts(m, old, list)
                              ELSE IF msg.type \in {"Ping", "Pong"} THEN AfterTouch(m, old, msg.from) ELSE old
                   /\ DhtTableOK(m, table, dhtTime)
    BY <1>6, <1>7
<1>9. buckets' = [buckets EXCEPT ![m] = table]
    BY <1>4, <1>6, <1>8
<1>10. Answers(msg) \subseteq DhtMsg
    BY <1>1, <1>2, AnswersTyped
<1>11. dhtWire' \subseteq DhtMsg
    BY <1>10 DEF ProcessMessage, DhtTableInv
<1>12. refreshing' \in [Manager -> SUBSET (Bucket \X DhtId)] /\ dhtTime' = dhtTime
    BY DEF ProcessMessage, DhtTableInv
<1> QED
    BY <1>8, <1>9, <1>11, <1>12, OneTable

\* A tick.
LEMMA TickStep == ASSUME DhtTableInv, DhtTick PROVE DhtTableInv'
<1>1. PICK at, tables : at = dhtTime /\ tables = buckets
    OBVIOUS
<1>2. /\ at \in 0..MaxDhtTime /\ tables = [m \in Manager |-> tables[m]] /\ at < MaxDhtTime
      /\ \A m \in Manager : DhtTableOK(m, tables[m], at)
    BY <1>1 DEF DhtTableInv, DhtTick
<1>3. dhtTime' = at + 1 /\ buckets' = tables
    BY <1>1 DEF DhtTick, bucketVars
<1>4. at + 1 \in 0..MaxDhtTime /\ at \in Nat /\ at + 1 \in Nat /\ at <= at + 1
    BY <1>2, TableConstants
<1>5. \A m \in Manager : DhtTableOK(m, tables[m], at + 1)
    BY <1>2, <1>4, StillSound
<1>6. \A m \in Manager : DhtTableOK(m, buckets[m], dhtTime)'
    BY <1>3, <1>5 DEF DhtTableOK, BucketOK
<1>7. refreshing' \in [Manager -> SUBSET (Bucket \X DhtId)] /\ dhtWire' \subseteq DhtMsg
    BY DEF DhtTick, bucketVars, DhtTableInv
<1> QED
    BY <1>2, <1>3, <1>4, <1>6, <1>7 DEF DhtTableInv

\* Every step keeps the tables sound.
LEMMA TableStep == ASSUME DhtTableInv, [TableNext \/ ValueNext]_dhtVars PROVE DhtTableInv'
<1>0. refreshing \in [Manager -> SUBSET (Bucket \X DhtId)] /\ dhtWire \subseteq DhtMsg
    BY DEF DhtTableInv
<1>1. ASSUME NEW m \in Manager, NEW id \in DhtNode, InsertNode(m, id) PROVE DhtTableInv'
  <2>1. id \in DhtId
    BY TableConstants
  <2> QED
    BY <1>1, <2>1, InsertStep DEF InsertNode
<1>2. ASSUME NEW m \in Manager, NEW id \in DhtNode, RemoveNode(m, id) PROVE DhtTableInv'
  <2>1. id \in DhtId /\ m \in DhtId /\ id # m
    BY <1>2, TableConstants DEF RemoveNode
  <2>2. PICK i \in Bucket : i = BucketIndex(m, id)
    BY <2>1, BucketIs
  <2>3. buckets' = [buckets EXCEPT ![m][i] = Without(@, id)] /\ UNCHANGED <<refreshing, dhtWire, dhtTime>>
    BY <1>2, <2>2 DEF RemoveNode
  <2> QED
    BY <1>0, <2>3, RemoveStep
<1>3. ASSUME NEW m \in Manager, BootstrapFromNodes(m) PROVE DhtTableInv'
  <2>1. Placeholder \in DhtId
    BY TableConstants
  <2>2. PICK id \in DhtId : id = Placeholder
    BY <2>1
  <2>3. buckets' = [buckets EXCEPT ![m] = AfterInsert(m, @, id)] /\ UNCHANGED <<refreshing, dhtWire, dhtTime>>
    BY <1>3, <2>2 DEF BootstrapFromNodes
  <2> QED
    BY <2>3, InsertStep
<1>4. ASSUME NEW msg \in dhtWire, DhtLose(msg) PROVE DhtTableInv'
  <2>1. UNCHANGED <<buckets, dhtTime, refreshing>> /\ dhtWire' \subseteq dhtWire
    BY <1>4 DEF DhtLose
  <2> QED
    BY <1>0, <2>1, TablesStay
<1>5. ASSUME TableNext PROVE DhtTableInv'
    BY <1>1, <1>2, <1>3, <1>4, <1>5, RefreshListStep, RefreshRemoveStep, SendStep, ProcessStep, TickStep DEF TableNext
<1>6. ASSUME UNCHANGED <<bucketVars, dhtTime>> PROVE DhtTableInv'
  <2>1. UNCHANGED <<buckets, dhtTime, refreshing, dhtWire>>
    BY <1>6 DEF bucketVars
  <2> QED
    BY <1>0, <2>1, TablesStay
<1>7. ASSUME ValueNext PROVE DhtTableInv'
  <2>1. UNCHANGED <<bucketVars, dhtTime>> \/ DhtTick
    BY <1>7 DEF ValueNext, PutValue, HandlePut, CleanupValues
  <2> QED
    BY <1>6, <2>1, TickStep
<1>8. ASSUME UNCHANGED dhtVars PROVE DhtTableInv'
    BY <1>6, <1>8 DEF dhtVars
<1> QED
    BY <1>5, <1>7, <1>8

\* The tables are then what find_nearest takes them for, and typed.
LEMMA SoundTablesAreExact == DhtTableInv => TableSound /\ DhtTypeOK
<1> SUFFICES ASSUME DhtTableInv PROVE TableSound /\ DhtTypeOK
    OBVIOUS
<1>1. ASSUME NEW m \in Manager, NEW i \in Bucket
      PROVE  /\ BucketOK(m, i, buckets[m][i], dhtTime)
             /\ Ids(buckets[m][i]) = {buckets[m][i][k].id : k \in 1..Len(buckets[m][i])}
  <2>1. BucketOK(m, i, buckets[m][i], dhtTime)
    BY DEF DhtTableInv, DhtTableOK
  <2>2. PICK s \in Seq(DhtEntry) : s = buckets[m][i]
    BY <2>1 DEF BucketOK
  <2> QED
    BY <2>1, <2>2, IdsAre
<1>2. ASSUME NEW m \in Manager, NEW i \in Bucket, NEW id \in Ids(buckets[m][i])
      PROVE  id \in DhtId /\ id # m /\ BucketIndex(m, id) = i
  <2>1. id \in DhtId
    BY KnownAreIds
  <2> QED
    BY <1>1, <2>1, SMTT(40) DEF BucketOK
<1>3. TablesExact
  <2> SUFFICES ASSUME NEW m \in Manager, NEW i \in Bucket
               PROVE  /\ Len(buckets[m][i]) <= K
                      /\ IsInjective([k \in 1..Len(buckets[m][i]) |-> buckets[m][i][k].id])
    BY <1>2 DEF TablesExact
  <2>1. Len(buckets[m][i]) <= K /\ Once(buckets[m][i])
    BY <1>1 DEF BucketOK
  <2>2. PICK s : s = buckets[m][i] /\ Once(s)
    BY <2>1
  <2>3. IsInjective([k \in 1..Len(s) |-> s[k].id])
    BY <2>2 DEF IsInjective, Once
  <2> QED
    BY <2>1, <2>2, <2>3
<1>4. BucketsByDistance
  <2> SUFFICES ASSUME NEW m \in Manager, NEW i \in Bucket, NEW j \in Bucket, i < j,
                      NEW a \in Ids(buckets[m][i]), NEW b \in Ids(buckets[m][j])
               PROVE  XorDistance(m, b) < XorDistance(m, a)
    BY DEF BucketsByDistance, Closer
  <2>1. a \in DhtId /\ a # m /\ BucketIndex(m, a) = i /\ b \in DhtId /\ b # m /\ BucketIndex(m, b) = j
    BY <1>2
  <2>2. m \in DhtId /\ BucketIndex(m, a) < BucketIndex(m, b)
    BY <2>1, TableConstants
  <2> QED
    BY <2>1, <2>2, LaterIsCloser
<1>5. DhtTypeOK
  <2>1. ASSUME NEW m \in Manager, NEW i \in Bucket, NEW e \in ToSet(buckets[m][i])
        PROVE  e.id \in DhtNode \cup {Placeholder} /\ e.seen \in 0..dhtTime
    <3>1. PICK s \in Seq(DhtEntry) : s = buckets[m][i] /\ \A k \in 1..Len(s) : s[k].seen <= dhtTime
      BY <1>1 DEF BucketOK
    <3>2. PICK k \in 1..Len(s) : e = s[k]
      BY <3>1 DEF ToSet
    <3>3. e \in DhtEntry /\ e.seen <= dhtTime
      BY <3>1, <3>2
    <3>4. e.id \in DhtId /\ e.seen \in Nat /\ dhtTime \in Nat
      BY <3>3, TableConstants DEF DhtEntry, DhtTableInv
    <3> QED
      BY <3>3, <3>4 DEF DhtId
  <2> QED
    BY <2>1 DEF DhtTypeOK, DhtTableInv, DhtMsg, DhtId
<1> QED
    BY <1>3, <1>4, <1>5 DEF TableSound

\* Whatever lists of nodes arrive, in whatever order, while refresh removes nodes:
\* a routing table holds every node once, in the bucket of its distance, and what
\* is in a later bucket is closer.
THEOREM TablesAreSound == DhtSpec => [](TableSound /\ DhtTypeOK)
<1>1. DhtInit => DhtTableInv
    BY DhtTableInit
<1>2. DhtTableInv /\ [TableNext \/ ValueNext]_dhtVars => DhtTableInv'
    BY TableStep
<1>3. DhtTableInv => TableSound /\ DhtTypeOK
    BY SoundTablesAreExact
<1> QED
    BY <1>1, <1>2, <1>3, PTL DEF DhtSpec

----------------------------------------------------------------------------
(* Bootstrap. *)

\* The entry nodes are in the order of their priorities.
Ranked(list) == \A i, j \in 1..Len(list) : i <= j => list[i].priority <= list[j].priority

\* An entry node's priority is a number.
LEMMA PriorityIsNat == \A n \in BootstrapNode : n.priority \in Nat
BY BootAssumption DEF BootstrapNode

\* list is nodes with the node inserted after the first p of them.
Inserted(list, nodes, node, p) ==
    /\ list \in Seq(BootstrapNode) /\ Len(list) = Len(nodes) + 1
    /\ \A k \in 1..p : list[k] = nodes[k]
    /\ list[p + 1] = node
    /\ \A k \in p + 2..Len(nodes) + 1 : list[k] = nodes[k - 1]

\* What InsertAt returns.
LEMMA InsertIs ==
    ASSUME NEW nodes \in Seq(BootstrapNode), NEW node \in BootstrapNode, NEW p \in 0..Len(nodes)
    PROVE  Inserted(InsertAt(nodes, 1 + p, node), nodes, node, p)
<1> DEFINE a == SubSeq(nodes, 1, p)
           b == SubSeq(nodes, 1 + p, Len(nodes))
           c == a \o <<node>>
<1>1. Len(nodes) \in Nat /\ p \in Nat /\ p <= Len(nodes) /\ \A k \in 1..Len(nodes) : nodes[k] \in BootstrapNode
    OBVIOUS
<1>2. a \in Seq(BootstrapNode) /\ Len(a) = p /\ \A k \in 1..p : a[k] = nodes[k]
    BY <1>1
<1>3. b \in Seq(BootstrapNode) /\ Len(b) = Len(nodes) - p /\ \A k \in 1..Len(nodes) - p : b[k] = nodes[p + k]
    BY <1>1
<1>4. InsertAt(nodes, 1 + p, node) = c \o b
  <2>1. (1 + p) - 1 = p
    BY <1>1
  <2>2. InsertAt(nodes, 1 + p, node) = SubSeq(nodes, 1, (1 + p) - 1) \o <<node>> \o SubSeq(nodes, 1 + p, Len(nodes))
    BY DEF InsertAt
  <2> QED
    BY <2>1, <2>2, Zenon
<1> HIDE DEF a, b
<1>5. c \in Seq(BootstrapNode) /\ Len(c) = p + 1 /\ c[p + 1] = node /\ \A k \in 1..p : c[k] = nodes[k]
    BY <1>1, <1>2
<1> HIDE DEF c
<1>6. /\ c \o b \in Seq(BootstrapNode) /\ Len(c \o b) = Len(nodes) + 1
      /\ \A k \in 1..p + 1 : (c \o b)[k] = c[k]
      /\ \A k \in p + 2..Len(nodes) + 1 : (c \o b)[k] = b[k - (p + 1)]
    BY <1>1, <1>3, <1>5
<1>7. \A k \in p + 2..Len(nodes) + 1 : k - (p + 1) \in 1..Len(nodes) - p /\ p + (k - (p + 1)) = k - 1
    BY <1>1
<1>8. \A k \in 1..p : k \in 1..p + 1
    BY <1>1
<1>9. p + 1 \in 1..p + 1
    BY <1>1
<1> QED
    BY <1>3, <1>4, <1>5, <1>6, <1>7, <1>8, <1>9 DEF Inserted

\* In a ranked list, the entry nodes of a priority or a lower one come first.
LEMMA RankedPrefix ==
    ASSUME NEW nodes \in Seq(BootstrapNode), Ranked(nodes), NEW node \in BootstrapNode
    PROVE  \E p \in 0..Len(nodes) : {k \in DOMAIN nodes : nodes[k].priority <= node.priority} = 1..p
<1> DEFINE above == {k \in 1..Len(nodes) : ~(nodes[k].priority <= node.priority)}
<1>1. Len(nodes) \in Nat /\ DOMAIN nodes = 1..Len(nodes) /\ node.priority \in Nat /\ \A k \in 1..Len(nodes) : nodes[k].priority \in Nat
    BY PriorityIsNat
<1>2. CASE above = {}
    BY <1>1, <1>2
<1>3. CASE above # {}
  <2>1. above \in SUBSET Nat
    BY <1>1
  <2>2. PICK m \in above : \A k \in above : m <= k
    BY <1>3, <2>1, NatMinExists
  <2>3. m \in 1..Len(nodes) /\ m - 1 \in 0..Len(nodes) /\ ~(nodes[m].priority <= node.priority)
    BY <1>1, <2>2
  <2>4. \A k \in 1..Len(nodes) : k \notin 1..m - 1 => ~(nodes[k].priority <= node.priority)
    <3> SUFFICES ASSUME NEW k \in 1..Len(nodes), k \notin 1..m - 1 PROVE ~(nodes[k].priority <= node.priority)
      OBVIOUS
    <3>1. m <= k
      BY <1>1, <2>3
    <3>2. nodes[m].priority <= nodes[k].priority
      BY <2>3, <3>1 DEF Ranked
    <3> QED
      BY <1>1, <2>3, <3>2
  <2>5. \A k \in 1..m - 1 : k \in 1..Len(nodes) /\ ~(m <= k)
    BY <1>1, <2>3
  <2>6. \A k \in 1..m - 1 : nodes[k].priority <= node.priority
    BY <2>2, <2>5
  <2>7. {k \in DOMAIN nodes : nodes[k].priority <= node.priority} = 1..m - 1
    BY <1>1, <2>4, <2>5, <2>6
  <2> QED
    BY <2>3, <2>7
<1> QED
    BY <1>2, <1>3

\* add_node keeps the list ranked: the push and the stable sort put the node behind
\* the last one of its priority or a lower one.
LEMMA AmongIs ==
    ASSUME NEW nodes \in Seq(BootstrapNode), Ranked(nodes), NEW node \in BootstrapNode
    PROVE  /\ Among(nodes, node) \in Seq(BootstrapNode) /\ Ranked(Among(nodes, node))
           /\ Len(Among(nodes, node)) = Len(nodes) + 1
<1>1. PICK p \in 0..Len(nodes) : {k \in DOMAIN nodes : nodes[k].priority <= node.priority} = 1..p
    BY RankedPrefix
<1>2. Cardinality(1..p) = p
  <2>1. p \in Int /\ 1 \in Int /\ 0 <= p
    OBVIOUS
  <2>2. Cardinality(1..p) = IF 1 > p THEN 0 ELSE p - 1 + 1
    BY <2>1, FS_Interval
  <2> QED
    BY <2>1, <2>2
<1>3. Among(nodes, node) = InsertAt(nodes, 1 + p, node)
    BY <1>1, <1>2 DEF Among
<1> DEFINE list == Among(nodes, node)
<1>4. Inserted(list, nodes, node, p)
    BY <1>3, InsertIs
<1> HIDE DEF list
<1>5. /\ Len(nodes) \in Nat /\ p \in Nat /\ p <= Len(nodes) /\ node.priority \in Nat /\ DOMAIN nodes = 1..Len(nodes)
      /\ \A k \in 1..Len(nodes) : nodes[k].priority \in Nat
    BY PriorityIsNat
<1>6. /\ \A k \in 1..p : nodes[k].priority <= node.priority
      /\ \A k \in p + 1..Len(nodes) : node.priority <= nodes[k].priority
  <2>1. \A k \in 1..p : k \in {j \in DOMAIN nodes : nodes[j].priority <= node.priority}
    BY <1>1
  <2>2. \A k \in p + 1..Len(nodes) : k \in 1..Len(nodes) /\ k \notin 1..p
    BY <1>5
  <2>3. \A k \in p + 1..Len(nodes) : ~(nodes[k].priority <= node.priority)
    BY <1>1, <1>5, <2>2
  <2> QED
    BY <1>5, <2>1, <2>2, <2>3
<1>7. ASSUME NEW i \in 1..Len(nodes) + 1, NEW j \in 1..Len(nodes) + 1, i <= j
      PROVE  list[i].priority <= list[j].priority
  <2>1. CASE i <= p
    <3>1. i \in 1..p /\ i \in 1..Len(nodes) /\ list[i] = nodes[i]
      BY <1>4, <1>5, <2>1 DEF Inserted
    <3>2. CASE j <= p
      <4>1. j \in 1..p /\ j \in 1..Len(nodes)
        BY <1>5, <3>2
      <4>2. list[j] = nodes[j]
        BY <1>4, <4>1 DEF Inserted
      <4> QED
        BY <1>7, <3>1, <4>1, <4>2 DEF Ranked
    <3>3. CASE j = p + 1
      BY <1>4, <1>6, <3>1, <3>3 DEF Inserted
    <3>4. CASE j > p + 1
      <4>1. j \in p + 2..Len(nodes) + 1 /\ j - 1 \in 1..Len(nodes) /\ i <= j - 1
        BY <1>5, <3>1, <3>4
      <4>2. list[j] = nodes[j - 1]
        BY <1>4, <4>1 DEF Inserted
      <4> QED
        BY <3>1, <4>1, <4>2 DEF Ranked
    <3> QED
      BY <1>5, <3>2, <3>3, <3>4
  <2>2. CASE i = p + 1
    <3>1. list[i] = node
      BY <1>4, <2>2 DEF Inserted
    <3>2. CASE j = p + 1
      BY <1>5, <2>2, <3>1, <3>2
    <3>3. CASE j > p + 1
      <4>1. j \in p + 2..Len(nodes) + 1 /\ j - 1 \in p + 1..Len(nodes)
        BY <1>5, <3>3
      <4>2. list[j] = nodes[j - 1]
        BY <1>4, <4>1 DEF Inserted
      <4> QED
        BY <1>6, <3>1, <4>1, <4>2
    <3> QED
      BY <1>5, <1>7, <2>2, <3>2, <3>3
  <2>3. CASE i > p + 1
    <3>1. /\ i \in p + 2..Len(nodes) + 1 /\ i - 1 \in 1..Len(nodes)
          /\ j \in p + 2..Len(nodes) + 1 /\ j - 1 \in 1..Len(nodes) /\ i - 1 <= j - 1
      BY <1>5, <1>7, <2>3
    <3>2. list[i] = nodes[i - 1] /\ list[j] = nodes[j - 1]
      BY <1>4, <3>1 DEF Inserted
    <3> QED
      BY <3>1, <3>2 DEF Ranked
  <2> QED
    BY <1>5, <2>1, <2>2, <2>3
<1>8. list \in Seq(BootstrapNode) /\ Len(list) = Len(nodes) + 1
    BY <1>4 DEF Inserted
<1>9. Ranked(list)
    BY <1>7, <1>8 DEF Ranked
<1> QED
    BY <1>8, <1>9 DEF list

\* The recursion of the sort has a solution.
LEMMA SortExists ==
    ASSUME NEW s \in Seq(BootstrapNode)
    PROVE  \E F : F = [k \in 0..Len(s) |-> IF k = 0 THEN <<>> ELSE Among(F[k - 1], s[k])]
<1> DEFINE Good(n) == \E F : F = [k \in 0..n |-> IF k = 0 THEN <<>> ELSE Among(F[k - 1], s[k])]
           Bad == {n \in Nat : ~Good(n)}
<1>1. SUFFICES ASSUME Bad # {} PROVE FALSE
  <2>1. Len(s) \in Nat
    OBVIOUS
  <2>2. Good(Len(s))
    BY <2>1
  <2> QED
    BY <2>2
<1>2. PICK n \in Bad : \A m \in Bad : n <= m
    BY <1>1, NatMinExists
<1>3. Good(0)
  <2>1. [k \in {0} |-> <<>>] = [k \in 0..0 |-> IF k = 0 THEN <<>> ELSE Among([j \in {0} |-> <<>>][k - 1], s[k])]
    OBVIOUS
  <2> QED
    BY <2>1
<1>4. n # 0 /\ n \in Nat /\ n - 1 \in Nat /\ n - 1 \notin Bad
  <2> HIDE DEF Good
  <2>1. n \in Nat /\ n # 0
    BY <1>2, <1>3
  <2>2. n - 1 \in Nat /\ ~(n <= n - 1)
    BY <2>1
  <2> QED
    BY <1>2, <2>1, <2>2
<1>5. PICK G : G = [k \in 0..n - 1 |-> IF k = 0 THEN <<>> ELSE Among(G[k - 1], s[k])]
    BY <1>4
<1> DEFINE H == [k \in 0..n |-> IF k = n THEN Among(G[n - 1], s[n]) ELSE G[k]]
<1>6. H = [k \in 0..n |-> IF k = 0 THEN <<>> ELSE Among(H[k - 1], s[k])]
  <2>1. \A k \in 0..n - 1 : H[k] = G[k]
    BY <1>4
  <2>2. \A k \in 1..n : k - 1 \in 0..n - 1 /\ (k # n => k \in 0..n - 1)
    BY <1>4
  <2>3. \A k \in 0..n : H[k] = IF k = 0 THEN <<>> ELSE Among(H[k - 1], s[k])
    <3> SUFFICES ASSUME NEW k \in 0..n PROVE H[k] = IF k = 0 THEN <<>> ELSE Among(H[k - 1], s[k])
      OBVIOUS
    <3>1. CASE k = n
      <4>1. H[n] = Among(G[n - 1], s[n]) /\ H[n - 1] = G[n - 1]
        BY <1>4, <2>1
      <4> QED
        BY <1>4, <3>1, <4>1
    <3>2. CASE k # n
      <4>1. k \in 0..n - 1
        BY <1>4, <3>2
      <4>2. G[k] = IF k = 0 THEN <<>> ELSE Among(G[k - 1], s[k])
        BY <1>5, <4>1
      <4>3. k # 0 => H[k - 1] = G[k - 1]
        BY <2>1, <2>2
      <4> HIDE DEF H
      <4> QED
        BY <2>1, <4>1, <4>2, <4>3
    <3> QED
      BY <3>1, <3>2
  <2> QED
    BY <2>3
<1>7. Good(n)
    BY <1>6
<1> QED
    BY <1>2, <1>7

\* from_json leaves a ranked list of all the nodes read: shown of every prefix.
LEMMA SortIs ==
    ASSUME NEW s \in Seq(BootstrapNode)
    PROVE  /\ SortByPriority(s) \in Seq(BootstrapNode) /\ Ranked(SortByPriority(s))
           /\ Len(SortByPriority(s)) = Len(s)
<1> DEFINE F == CHOOSE F : F = [k \in 0..Len(s) |-> IF k = 0 THEN <<>> ELSE Among(F[k - 1], s[k])]
           N == Len(s)
<1>1. SortByPriority(s) = F[N]
    BY DEF SortByPriority
<1>2. F = [k \in 0..N |-> IF k = 0 THEN <<>> ELSE Among(F[k - 1], s[k])]
    BY SortExists, ZenonT(40)
<1>3. N \in Nat /\ \A k \in 1..N : s[k] \in BootstrapNode
    OBVIOUS
<1> HIDE DEF F, N
<1> DEFINE Good(n) == F[n] \in Seq(BootstrapNode) /\ Ranked(F[n]) /\ Len(F[n]) = n
           Bad == {n \in 0..N : ~Good(n)}
<1>4. SUFFICES ASSUME Bad # {} PROVE FALSE
  <2>1. Good(N)
    BY <1>3
  <2> QED
    BY <1>1, <2>1 DEF N
<1>5. Bad \in SUBSET Nat
    BY <1>3
<1>6. PICK n \in Bad : \A m \in Bad : n <= m
    BY <1>4, <1>5, NatMinExists
<1>7. Good(0)
  <2>1. F[0] = <<>>
    BY <1>2, <1>3
  <2> QED
    BY <2>1 DEF Ranked
<1> HIDE DEF Good
<1>8. n \in 0..N /\ ~Good(n) /\ n # 0
    BY <1>6, <1>7
<1>9. n - 1 \in 0..N /\ ~(n <= n - 1) /\ n \in 1..N /\ n - 1 + 1 = n
    BY <1>3, <1>8
<1>10. Good(n - 1)
    BY <1>6, <1>9
<1>11. F[n] = Among(F[n - 1], s[n])
    BY <1>2, <1>8, <1>9
<1>12. Good(n)
    BY <1>3, <1>9, <1>10, <1>11, AmongIs DEF Good
<1> QED
    BY <1>8, <1>12

\* A sequence read with a bound on its length is a sequence.
LEMMA BoundedAre ==
    ASSUME NEW S, NEW n \in Nat, NEW s \in BoundedSeq(S, n)
    PROVE  s \in Seq(S)
BY DEF BoundedSeq, SeqOf

\* The entry nodes are ranked, and the last one tried is the last one connected.
BootInv ==
    /\ bootNodes \in Seq(BootstrapNode) /\ Ranked(bootNodes) /\ connected \in Seq(BootstrapNode)
    /\ trying \in -1..Len(bootNodes) /\ known \subseteq KnownId
    /\ outcome \in {"none", "ConfigError", "AllNodesUnreachable", "Ok"}
    /\ trying > 0 => connected # <<>> /\ Last(connected) = bootNodes[trying]

\* It holds at first.
LEMMA BootInitInv == BootInit => BootInv
BY DEF BootInit, BootInv, Ranked

\* The list is changed while bootstrap does not run.
LEMMA ListStep ==
    ASSUME BootInv, trying = -1, bootNodes' \in Seq(BootstrapNode), Ranked(bootNodes'),
           UNCHANGED <<trying, connected, known, outcome>>
    PROVE  BootInv'
<1>1. \A n \in Nat : -1 \in -1..n
    OBVIOUS
<1>2. Len(bootNodes') \in Nat
    OBVIOUS
<1>3. ~(-1 > 0)
    OBVIOUS
<1> QED
    BY <1>1, <1>2, <1>3 DEF BootInv

\* Every step preserves it.
LEMMA BootStep ==
    ASSUME BootInv, [BootNext]_bootVars
    PROVE  BootInv'
<1>0. bootNodes \in Seq(BootstrapNode) /\ Ranked(bootNodes) /\ connected \in Seq(BootstrapNode) /\ trying \in -1..Len(bootNodes)
    BY DEF BootInv
<1>1. ASSUME NEW h \in BootHost, NEW p \in Priority, AddNode(h, p) PROVE BootInv'
  <2>1. [host |-> h, priority |-> p] \in BootstrapNode
    BY DEF BootstrapNode
  <2>2. PICK node : node = [host |-> h, priority |-> p] /\ node \in BootstrapNode
    BY <2>1
  <2>3. trying = -1 /\ bootNodes' = Among(bootNodes, node) /\ UNCHANGED <<trying, connected, known, outcome>>
    BY <1>1, <2>2 DEF AddNode
  <2>4. bootNodes' \in Seq(BootstrapNode) /\ Ranked(bootNodes')
    BY <1>0, <2>2, <2>3, AmongIs
  <2> QED
    BY <2>3, <2>4, ListStep
<1>2. ASSUME FromJson PROVE BootInv'
  <2>1. PICK nodes \in BoundedSeq(BootstrapNode, MaxConfig) : bootNodes' = SortByPriority(nodes)
    BY <1>2 DEF FromJson
  <2>2. nodes \in Seq(BootstrapNode)
    BY BootAssumption, BoundedAre
  <2>3. bootNodes' \in Seq(BootstrapNode) /\ Ranked(bootNodes')
    BY <2>1, <2>2, SortIs
  <2> QED
    BY <1>2, <2>3, ListStep DEF FromJson
<1>3. ASSUME FromYamlSimple PROVE BootInv'
  <2>1. PICK S : S = [host : BootHost, priority : {0}]
    OBVIOUS
  <2>2. PICK list \in BoundedSeq(S, MaxConfig) : bootNodes' = list
    BY <1>3, <2>1 DEF FromYamlSimple
  <2>3. list \in Seq(S)
    BY BootAssumption, BoundedAre
  <2>4. \A n \in S : n \in BootstrapNode /\ n.priority = 0
    BY <2>1, BootAssumption DEF BootstrapNode
  <2>5. Len(list) \in Nat /\ list = [k \in 1..Len(list) |-> list[k]] /\ \A k \in 1..Len(list) : list[k] \in S
    BY <2>3
  <2>6. list \in Seq(BootstrapNode) /\ \A k \in 1..Len(list) : list[k].priority = 0
    BY <2>4, <2>5
  <2>7. Ranked(list)
    BY <2>6 DEF Ranked
  <2> QED
    BY <1>3, <2>2, <2>6, <2>7, ListStep DEF FromYamlSimple
<1>4. ASSUME BootstrapBegin PROVE BootInv'
  <2>1. trying' = trying \/ trying' = 0
    BY <1>4 DEF BootstrapBegin
  <2>2. trying = -1 /\ outcome' \in {"none", "ConfigError", "AllNodesUnreachable", "Ok"} /\ UNCHANGED <<bootNodes, connected, known>>
    BY <1>4 DEF BootstrapBegin, BootInv
  <2>3. trying' \in -1..Len(bootNodes) /\ ~(trying' > 0)
    BY <1>0, <2>1, <2>2
  <2> QED
    BY <2>2, <2>3 DEF BootInv
<1>5. ASSUME TryNode PROVE BootInv'
  <2>1. /\ trying >= 0 /\ trying < Len(bootNodes) /\ trying' = trying + 1
        /\ connected' = Append(connected, bootNodes[trying + 1]) /\ UNCHANGED <<bootNodes, known, outcome>>
    BY <1>5 DEF TryNode
  <2>2. trying + 1 \in -1..Len(bootNodes) /\ trying + 1 \in 1..Len(bootNodes)
    BY <1>0, <2>1
  <2>3. PICK n \in BootstrapNode : n = bootNodes[trying + 1]
    BY <1>0, <2>2
  <2>4. Append(connected, n) \in Seq(BootstrapNode) /\ Append(connected, n) # <<>> /\ Last(Append(connected, n)) = n
    BY <1>0 DEF Last
  <2> QED
    BY <2>1, <2>2, <2>3, <2>4 DEF BootInv
<1>6. ASSUME BootstrapEnd PROVE BootInv'
  <2>1. trying' = -1 /\ UNCHANGED <<bootNodes, connected, known>>
    BY <1>6 DEF BootstrapEnd
  <2>2. outcome' \in {"none", "ConfigError", "AllNodesUnreachable", "Ok"}
    BY <1>6 DEF BootstrapEnd
  <2>3. -1 \in -1..Len(bootNodes) /\ ~(-1 > 0)
    BY <1>0
  <2> QED
    BY <2>1, <2>2, <2>3 DEF BootInv
<1>7. ASSUME NEW id \in KnownId, AddKnownNode(id) \/ RemoveKnownNode(id) PROVE BootInv'
    BY <1>7 DEF AddKnownNode, RemoveKnownNode, BootInv
<1>8. CASE UNCHANGED bootVars
    BY <1>8 DEF bootVars, BootInv
<1> QED
    BY <1>1, <1>2, <1>3, <1>4, <1>5, <1>6, <1>7, <1>8 DEF BootNext

\* So the entry nodes are tried by priority.
LEMMA BootInvTypes == BootInv => BootTypeOK
<1> SUFFICES ASSUME BootInv PROVE BootTypeOK
    OBVIOUS
<1>0. /\ bootNodes \in Seq(BootstrapNode) /\ Ranked(bootNodes) /\ connected \in Seq(BootstrapNode)
      /\ trying \in -1..Len(bootNodes) /\ Len(bootNodes) \in Nat
    BY DEF BootInv
<1>1. {bootNodes[k] : k \in DOMAIN bootNodes} \cup {connected[k] : k \in DOMAIN connected} \subseteq BootstrapNode
    BY <1>0
<1>2. ASSUME trying > 0, NEW k \in trying + 1..Len(bootNodes)
      PROVE  bootNodes[k].priority >= Last(connected).priority
  <2>1. trying \in 1..Len(bootNodes) /\ k \in 1..Len(bootNodes) /\ trying <= k
    BY <1>0, <1>2
  <2>2. bootNodes[trying].priority <= bootNodes[k].priority
    BY <1>0, <2>1 DEF Ranked
  <2>3. bootNodes[trying].priority \in Nat /\ bootNodes[k].priority \in Nat
    BY <1>0, <2>1, PriorityIsNat
  <2>4. Last(connected) = bootNodes[trying]
    BY <1>2 DEF BootInv
  <2> QED
    BY <2>2, <2>3, <2>4
<1> QED
    BY <1>0, <1>1, <1>2 DEF BootInv, BootTypeOK

----------------------------------------------------------------------------
(* Resolver. *)

NameSteps == {"outer", "inner", "static", "store", "cacheOuter", "cacheInner"}
IdSteps == {"store", "cacheOuter", "cacheInner"}
WrapperSteps == {"outer", "cacheOuter", "clearOuter"}

\* What a call holds at its step, whatever the others do.
CallTyped(c) ==
    /\ c.step \in ResStep /\ (c.step = "idle" <=> c = Idle)
    /\ c.step \in NameSteps => c.name \in ResName
    /\ c.step \in IdSteps => c.id \in ResId
    /\ c.step \in WrapperSteps => wrapped

\* The tables, and what always relates them to the history: a static mapping is
\* held now, and a resolver without wrapper has one cache.
ResolverTyped ==
    /\ wrapped \in BOOLEAN /\ overlapped \in BOOLEAN /\ clock \in 0..MaxResTime
    /\ staticMap \in [ResName -> ResId \cup {Unset}]
    /\ outer \in [ResName -> Entry \cup {Unset}] /\ inner \in [ResName -> Entry \cup {Unset}]
    /\ fresh \in [ResName -> SUBSET ResId] /\ lastHeld \in [ResName -> [ResId -> 0..MaxResTime]]
    /\ DOMAIN call = ResThread /\ \A t \in ResThread : CallTyped(call[t])
    /\ \A n \in ResName, i \in ResId : lastHeld[n][i] <= clock
    /\ \A n \in ResName : staticMap[n] # Unset => lastHeld[n][staticMap[n]] = clock /\ staticMap[n] \in fresh[n]
    /\ ~wrapped => \A n \in ResName : outer[n] = Unset

\* What a call holds at its step when no other one overlaps it.
CallHonest(c) ==
    /\ c.step = "store" => c.id = staticMap[c.name]
    /\ c.step \in {"cacheOuter", "cacheInner"} => c.id \in fresh[c.name]
    /\ c.step = "cacheInner" /\ wrapped => outer[c.name] # Unset /\ outer[c.name].id = c.id
    /\ c.step = "clearInner" => \A n \in ResName : outer[n] = Unset

Caching(c, n) == c.step \in {"cacheOuter", "cacheInner"} /\ c.name = n
AgreeOn(n) == outer[n] # Unset /\ inner[n] # Unset => outer[n].id = inner[n].id

\* As long as no two calls overlapped: one is under way at most, the caches hold
\* what was mapped or cached, and they agree except on what is being cached.
Alone == \A t, u \in ResThread : call[t] # Idle /\ call[u] # Idle => t = u
KnownIds == \A n \in ResName : /\ outer[n] # Unset => outer[n].id \in fresh[n]
                               /\ inner[n] # Unset => inner[n].id \in fresh[n]
LayersClose == \A n \in ResName : (\A t \in ResThread : ~Caching(call[t], n)) => AgreeOn(n)
HeldSince == ~wrapped => \A n \in ResName : inner[n] # Unset => inner[n].at <= lastHeld[n][inner[n].id]

ResolverHonest == Alone /\ (\A t \in ResThread : CallHonest(call[t])) /\ KnownIds /\ LayersClose /\ HeldSince

ResInv == ResolverTyped /\ (~overlapped => ResolverHonest)

\* It holds at first.
LEMMA ResInitInv == ResInit => ResInv
<1> SUFFICES ASSUME ResInit PROVE ResInv
    OBVIOUS
<1>1. 0 \in 0..MaxResTime /\ Idle.step = "idle"
    BY ResAssumption DEF Idle
<1>2. \A t \in ResThread : call[t] = Idle
    BY DEF ResInit
<1>3. CallTyped(Idle) /\ CallHonest(Idle)
    BY <1>1 DEF CallTyped, CallHonest, ResStep, NameSteps, IdSteps, WrapperSteps
<1>4. fresh \in [ResName -> SUBSET ResId] /\ \A n \in ResName : staticMap[n] # Unset => staticMap[n] \in fresh[n]
    BY DEF ResInit
<1>5. /\ \A n \in ResName : outer[n] = Unset /\ inner[n] = Unset
      /\ outer \in [ResName -> Entry \cup {Unset}] /\ inner \in [ResName -> Entry \cup {Unset}]
    BY DEF ResInit
<1>6. lastHeld \in [ResName -> [ResId -> 0..MaxResTime]] /\ clock = 0 /\ \A n \in ResName, i \in ResId : lastHeld[n][i] = 0
    BY <1>1 DEF ResInit
<1>7. wrapped \in BOOLEAN /\ overlapped \in BOOLEAN /\ DOMAIN call = ResThread /\ staticMap \in [ResName -> ResId \cup {Unset}]
    BY DEF ResInit
<1>8. ResolverTyped
    BY <1>1, <1>2, <1>3, <1>4, <1>5, <1>6, <1>7 DEF ResolverTyped
<1>9. ResolverHonest
    BY <1>2, <1>3, <1>5 DEF ResolverHonest, Alone, KnownIds, LayersClose, AgreeOn, HeldSince
<1> QED
    BY <1>8, <1>9 DEF ResInv

\* A call takes its next step, c: the others are as before, and idle if there was no overlap.
LEMMA NextCall ==
    ASSUME ResInv, NEW t \in ResThread, NEW c, call' = [call EXCEPT ![t] = c],
           ~overlapped' => ~overlapped /\ (call[t] # Idle \/ \A u \in ResThread : call[u] = Idle)
    PROVE  /\ DOMAIN call' = ResThread /\ call'[t] = c /\ \A u \in ResThread : u # t => call'[u] = call[u]
           /\ ~overlapped' => Alone' /\ ResolverHonest /\ \A u \in ResThread : u # t => call'[u] = Idle /\ call[u] = Idle
<1>1. DOMAIN call = ResThread
    BY DEF ResInv, ResolverTyped
<1>2. call'[t] = c /\ DOMAIN call' = ResThread /\ \A u \in ResThread : u # t => call'[u] = call[u]
    BY <1>1
<1>3. ASSUME ~overlapped' PROVE ResolverHonest /\ \A u \in ResThread : u # t => call[u] = Idle
    BY <1>3 DEF ResInv, ResolverHonest, Alone
<1>4. ASSUME ~overlapped' PROVE Alone'
    BY <1>2, <1>3, <1>4 DEF Alone
<1> QED
    BY <1>2, <1>3, <1>4

\* A step of a call that writes no table.
LEMMA ReadCallStep ==
    ASSUME ResInv, NEW t \in ResThread, NEW c, call' = [call EXCEPT ![t] = c],
           overlapped' \in BOOLEAN,
           ~overlapped' => ~overlapped /\ (call[t] # Idle \/ \A u \in ResThread : call[u] = Idle),
           UNCHANGED <<wrapped, staticMap, outer, inner, clock, lastHeld, fresh>>,
           CallTyped(c), ~overlapped' => CallHonest(c) /\ \A n \in ResName : Caching(call[t], n) => Caching(c, n)
    PROVE  ResInv'
<1>0. ResolverTyped
    BY DEF ResInv
<1>1. /\ DOMAIN call' = ResThread /\ call'[t] = c /\ \A u \in ResThread : u # t => call'[u] = call[u]
      /\ ~overlapped' => Alone' /\ ResolverHonest /\ \A u \in ResThread : u # t => call'[u] = Idle /\ call[u] = Idle
    BY NextCall
<1>2. \A u \in ResThread : CallTyped(call[u])'
    BY <1>0, <1>1 DEF ResolverTyped, CallTyped
<1>3. ResolverTyped'
    BY <1>0, <1>1, <1>2 DEF ResolverTyped
<1>4. ASSUME ~overlapped' PROVE ResolverHonest'
  <2>1. \A u \in ResThread : CallHonest(call[u])'
    BY <1>1, <1>4 DEF ResolverHonest, CallHonest
  <2>2. LayersClose'
    <3>1. \A n \in ResName : (\A u \in ResThread : ~Caching(call'[u], n)) => \A u \in ResThread : ~Caching(call[u], n)
      BY <1>1, <1>4
    <3> QED
      BY <1>1, <1>4, <3>1 DEF ResolverHonest, LayersClose, AgreeOn
  <2>3. KnownIds' /\ HeldSince'
    BY <1>1, <1>4 DEF ResolverHonest, KnownIds, HeldSince
  <2> QED
    BY <1>1, <1>4, <2>1, <2>2, <2>3 DEF ResolverHonest
<1> QED
    BY <1>3, <1>4 DEF ResInv

\* A name is mapped or cached: the id is known for the name, and held now.
LEMMA NoteIt ==
    ASSUME ResInv, NEW n \in ResName, NEW i \in ResId, Note(n, i)
    PROVE  /\ fresh' \in [ResName -> SUBSET ResId] /\ lastHeld' \in [ResName -> [ResId -> 0..MaxResTime]]
           /\ \A m \in ResName : fresh[m] \subseteq fresh'[m]
           /\ \A m \in ResName, j \in ResId : lastHeld[m][j] <= lastHeld'[m][j] /\ lastHeld'[m][j] <= clock
                                              /\ (lastHeld[m][j] = clock => lastHeld'[m][j] = clock)
           /\ i \in fresh'[n] /\ lastHeld'[n][i] = clock
<1>0. /\ fresh \in [ResName -> SUBSET ResId] /\ lastHeld \in [ResName -> [ResId -> 0..MaxResTime]]
      /\ clock \in 0..MaxResTime /\ \A m \in ResName, j \in ResId : lastHeld[m][j] <= clock
    BY DEF ResInv, ResolverTyped
<1>1. fresh' = [fresh EXCEPT ![n] = fresh[n] \cup {i}]
    BY DEF Note
<1>2. fresh' \in [ResName -> SUBSET ResId] /\ i \in fresh'[n] /\ \A m \in ResName : fresh[m] \subseteq fresh'[m]
    BY <1>0, <1>1
<1> DEFINE r == [lastHeld[n] EXCEPT ![i] = clock]
<1>3. lastHeld' = [lastHeld EXCEPT ![n] = r]
    BY DEF Note
<1>4. r \in [ResId -> 0..MaxResTime] /\ r[i] = clock /\ \A j \in ResId : j # i => r[j] = lastHeld[n][j]
    BY <1>0
<1> HIDE DEF r
<1>5. lastHeld' \in [ResName -> [ResId -> 0..MaxResTime]] /\ lastHeld'[n] = r /\ \A m \in ResName : m # n => lastHeld'[m] = lastHeld[m]
    BY <1>0, <1>3, <1>4
<1>6. \A x \in 0..MaxResTime : x <= x
    BY ResAssumption
<1>7. \A m \in ResName, j \in ResId : lastHeld'[m][j] = lastHeld[m][j] \/ lastHeld'[m][j] = clock
    BY <1>4, <1>5
<1>8. \A m \in ResName, j \in ResId : lastHeld[m][j] \in 0..MaxResTime
    BY <1>0
<1> QED
    BY <1>0, <1>2, <1>4, <1>5, <1>6, <1>7, <1>8

\* A step of a call that leaves the calls and the tables as they should be.
LEMMA CallStep ==
    ASSUME ResInv, NEW t \in ResThread, NEW c, call' = [call EXCEPT ![t] = c], overlapped' \in BOOLEAN,
           ~overlapped' => ~overlapped /\ (call[t] # Idle \/ \A u \in ResThread : call[u] = Idle),
           UNCHANGED <<wrapped, staticMap, clock>>, CallTyped(c),
           outer' \in [ResName -> Entry \cup {Unset}], inner' \in [ResName -> Entry \cup {Unset}],
           ~wrapped => \A n \in ResName : outer'[n] = Unset,
           fresh' \in [ResName -> SUBSET ResId], lastHeld' \in [ResName -> [ResId -> 0..MaxResTime]],
           \A n \in ResName : staticMap[n] \in fresh[n] => staticMap[n] \in fresh'[n],
           \A n \in ResName, i \in ResId : lastHeld'[n][i] <= clock /\ (lastHeld[n][i] = clock => lastHeld'[n][i] = clock),
           ~overlapped' /\ ResolverHonest =>
               /\ CallHonest(c)' /\ KnownIds' /\ HeldSince'
               /\ \A n \in ResName : ~Caching(c, n) =>
                     AgreeOn(n)' \/ (~Caching(call[t], n) /\ (AgreeOn(n) => AgreeOn(n)'))
    PROVE  ResInv'
<1>0. ResolverTyped
    BY DEF ResInv
<1>1. /\ DOMAIN call' = ResThread /\ call'[t] = c /\ \A u \in ResThread : u # t => call'[u] = call[u]
      /\ ~overlapped' => Alone' /\ ResolverHonest /\ \A u \in ResThread : u # t => call'[u] = Idle /\ call[u] = Idle
    BY NextCall
<1>2. \A u \in ResThread : CallTyped(call[u])'
    BY <1>0, <1>1 DEF ResolverTyped, CallTyped
<1>3. \A n \in ResName : staticMap[n] \in ResId \cup {Unset}
    BY <1>0 DEF ResolverTyped
<1>4. \A n \in ResName : staticMap'[n] # Unset => lastHeld'[n][staticMap'[n]] = clock' /\ staticMap'[n] \in fresh'[n]
    BY <1>0, <1>3 DEF ResolverTyped
<1>5. ResolverTyped'
    BY <1>0, <1>1, <1>2, <1>4 DEF ResolverTyped
<1>6. ASSUME ~overlapped' PROVE ResolverHonest'
  <2>1. CallHonest(Idle)' /\ \A n : ~Caching(Idle, n)
    BY DEF CallHonest, Idle, Caching
  <2>2. \A u \in ResThread : CallHonest(call[u])'
    BY <1>1, <1>6, <2>1 DEF CallHonest
  <2>3. LayersClose'
    <3> SUFFICES ASSUME NEW n \in ResName, \A u \in ResThread : ~Caching(call'[u], n) PROVE AgreeOn(n)'
      BY DEF LayersClose, Caching
    <3>1. ~Caching(c, n)
      BY <1>1
    <3>2. CASE ~Caching(call[t], n) /\ (AgreeOn(n) => AgreeOn(n)')
      <4>1. \A u \in ResThread : ~Caching(call[u], n)
        BY <1>1, <1>6, <2>1, <3>2
      <4>2. AgreeOn(n)
        BY <1>1, <1>6, <4>1 DEF ResolverHonest, LayersClose
      <4> QED
        BY <3>2, <4>2
    <3> QED
      BY <1>1, <1>6, <3>1, <3>2
  <2> QED
    BY <1>1, <1>6, <2>2, <2>3 DEF ResolverHonest
<1> QED
    BY <1>5, <1>6 DEF ResInv

\* resolve and clear_cache begin, and resolve reads the caches and the map.
LEMMA ResolveSteps ==
    ASSUME ResInv, NEW t \in ResThread,
           \/ \E n \in ResName : ResolveBegin(t, n)
           \/ ClearBegin(t) \/ ReadOuter(t) \/ ReadInner(t) \/ ReadStatic(t)
    PROVE  ResInv'
<1>0. /\ wrapped \in BOOLEAN /\ overlapped \in BOOLEAN /\ CallTyped(call[t])
      /\ \A n \in ResName : /\ inner[n] \in Entry \cup {Unset} /\ staticMap[n] \in ResId \cup {Unset}
                            /\ staticMap[n] # Unset => staticMap[n] \in fresh[n]
    BY DEF ResInv, ResolverTyped
<1>1. /\ UNCHANGED <<wrapped, staticMap, outer, inner, clock, lastHeld, fresh>>
      /\ overlapped' \in BOOLEAN
      /\ ~overlapped' => ~overlapped /\ (call[t] # Idle \/ \A u \in ResThread : call[u] = Idle)
  <2>1. UNCHANGED <<wrapped, staticMap, outer, inner, clock, lastHeld, fresh>>
    BY DEF ResolveBegin, ClearBegin, ReadOuter, ReadInner, ReadStatic, ghosts
  <2>2. \/ overlapped' = (overlapped \/ \E u \in ResThread : call[u] # Idle)
        \/ overlapped' = overlapped /\ call[t].step \in {"outer", "inner", "static"}
    BY DEF ResolveBegin, ClearBegin, ReadOuter, ReadInner, ReadStatic, Begin, ghosts
  <2>3. call[t].step \in {"outer", "inner", "static"} => call[t] # Idle
    BY DEF Idle
  <2>4. overlapped' \in BOOLEAN
    BY <1>0, <2>2
  <2>5. ~overlapped' => ~overlapped /\ (call[t] # Idle \/ \A u \in ResThread : call[u] = Idle)
    BY <2>2, <2>3, Zenon
  <2> QED
    BY <2>1, <2>4, <2>5
<1>2. \A s, n, i : AtStep(s, n, i).step = s /\ AtStep(s, n, i).name = n /\ AtStep(s, n, i).id = i
    BY DEF AtStep
<1>3. Idle.step = "idle" /\ CallTyped(Idle) /\ CallHonest(Idle)
    BY DEF Idle, CallTyped, CallHonest, ResStep, NameSteps, IdSteps, WrapperSteps
<1>4. ASSUME NEW c, call' = [call EXCEPT ![t] = c], CallTyped(c),
             ~overlapped' => CallHonest(c) /\ \A n \in ResName : Caching(call[t], n) => Caching(c, n)
      PROVE  ResInv'
    BY <1>1, <1>4, ReadCallStep
<1>5. \A s \in {"outer", "inner", "static", "clearOuter"}, n \in ResName \cup {Unset} :
         (s \in WrapperSteps => wrapped) /\ (s \in NameSteps => n \in ResName)
         => CallTyped(AtStep(s, n, Unset)) /\ CallHonest(AtStep(s, n, Unset))
    BY <1>2, <1>3 DEF CallTyped, CallHonest, ResStep, NameSteps, IdSteps, WrapperSteps
<1>6. ASSUME NEW n \in ResName, ResolveBegin(t, n) PROVE ResInv'
  <2> DEFINE c == AtStep(IF wrapped THEN "outer" ELSE "inner", n, Unset)
  <2>1. call' = [call EXCEPT ![t] = c] /\ call[t] = Idle
    BY <1>6 DEF ResolveBegin, Begin, Go
  <2>2. CallTyped(c) /\ CallHonest(c)
    BY <1>5 DEF WrapperSteps
  <2>3. \A m : ~Caching(call[t], m)
    BY <1>3, <2>1 DEF Caching
  <2> QED
    BY <1>4, <2>1, <2>2, <2>3
<1>7. CASE ClearBegin(t)
  <2> DEFINE c == AtStep(IF wrapped THEN "clearOuter" ELSE "clearInner", Unset, Unset)
  <2>1. call' = [call EXCEPT ![t] = c] /\ call[t] = Idle
    BY <1>7 DEF ClearBegin, Begin, Go
  <2>2. CallTyped(c)
    BY <1>2, <1>3 DEF CallTyped, ResStep, NameSteps, IdSteps, WrapperSteps
  <2>3. CallHonest(c)
    BY <1>2 DEF CallHonest, ResInv, ResolverTyped
  <2>4. \A m : ~Caching(call[t], m)
    BY <1>3, <2>1 DEF Caching
  <2> QED
    BY <1>4, <2>1, <2>2, <2>3, <2>4
<1>8. CASE ReadOuter(t)
  <2> DEFINE c == IF Current(outer, call[t].name) THEN Idle ELSE AtStep("inner", call[t].name, Unset)
  <2>1. call' = [call EXCEPT ![t] = c] /\ call[t].step = "outer"
    BY <1>8 DEF ReadOuter, Go
  <2>2. call[t].name \in ResName
    BY <1>0, <2>1 DEF CallTyped, NameSteps
  <2>3. CallTyped(c) /\ CallHonest(c)
    BY <1>3, <1>5, <2>2 DEF WrapperSteps
  <2>4. \A m : ~Caching(call[t], m)
    BY <2>1 DEF Caching
  <2> QED
    BY <1>4, <2>1, <2>3, <2>4
<1>9. CASE ReadInner(t)
  <2> DEFINE m == call[t].name
             c == IF ~Current(inner, m) THEN AtStep("static", m, Unset)
                  ELSE IF wrapped THEN AtStep("cacheOuter", m, inner[m].id) ELSE Idle
  <2>1. call' = [call EXCEPT ![t] = c] /\ call[t].step = "inner" /\ overlapped' = overlapped
    BY <1>9 DEF ReadInner, Go, ghosts
  <2>2. m \in ResName
    BY <1>0, <2>1 DEF CallTyped, NameSteps
  <2>3. \A n : ~Caching(call[t], n)
    BY <2>1 DEF Caching
  <2> HIDE DEF m
  <2>4. CASE Current(inner, m) /\ wrapped
    <3>1. c = AtStep("cacheOuter", m, inner[m].id) /\ inner[m] # Unset
      BY <2>4 DEF Current
    <3>2. inner[m].id \in ResId
      BY <1>0, <2>2, <3>1 DEF Entry
    <3>3. CallTyped(c)
      BY <1>2, <1>3, <2>2, <2>4, <3>1, <3>2 DEF CallTyped, ResStep, NameSteps, IdSteps, WrapperSteps
    <3>4. ~overlapped' => inner[m].id \in fresh[m]
      BY <2>1, <2>2, <3>1 DEF ResInv, ResolverHonest, KnownIds
    <3>5. ~overlapped' => CallHonest(c)
      BY <1>2, <3>1, <3>4 DEF CallHonest
    <3> QED
      BY <1>4, <2>1, <2>3, <3>3, <3>5
  <2>5. CASE ~(Current(inner, m) /\ wrapped)
    <3>1. c = AtStep("static", m, Unset) \/ c = Idle
      BY <2>5
    <3>2. CallTyped(c) /\ CallHonest(c)
      BY <1>3, <1>5, <2>2, <3>1 DEF WrapperSteps
    <3> QED
      BY <1>4, <2>1, <2>3, <3>2
  <2> QED
    BY <2>4, <2>5
<1>10. CASE ReadStatic(t)
  <2> DEFINE m == call[t].name
             c == IF staticMap[m] = Unset THEN Idle ELSE AtStep("store", m, staticMap[m])
  <2>1. call' = [call EXCEPT ![t] = c] /\ call[t].step = "static"
    BY <1>10 DEF ReadStatic, Go
  <2>2. m \in ResName
    BY <1>0, <2>1 DEF CallTyped, NameSteps
  <2>3. \A n : ~Caching(call[t], n)
    BY <2>1 DEF Caching
  <2> HIDE DEF m
  <2>4. CallTyped(c) /\ CallHonest(c)
    BY <1>0, <1>2, <1>3, <2>2 DEF CallTyped, CallHonest, ResStep, NameSteps, IdSteps, WrapperSteps
  <2> QED
    BY <1>4, <2>1, <2>3, <2>4
<1> QED
    BY <1>6, <1>7, <1>8, <1>9, <1>10

\* An entry is written for a name, with the clock's time.
LEMMA CacheEntry ==
    ASSUME ResInv, NEW cache \in [ResName -> Entry \cup {Unset}], NEW n \in ResName, NEW i \in ResId, NEW new,
           new = [cache EXCEPT ![n] = [id |-> i, at |-> clock]]
    PROVE  /\ new \in [ResName -> Entry \cup {Unset}] /\ new[n] # Unset /\ new[n].id = i /\ new[n].at = clock
           /\ \A m \in ResName : m # n => new[m] = cache[m]
<1>1. clock \in 0..MaxResTime
    BY DEF ResInv, ResolverTyped
<1> DEFINE r == [id |-> i, at |-> clock]
<1>2. r \in Entry /\ r.id = i /\ r.at = clock
    BY <1>1 DEF Entry
<1> HIDE DEF r
<1>3. new = [cache EXCEPT ![n] = r]
    BY DEF r
<1>4. r # Unset
    BY <1>2, ResAssumption
<1> QED
    BY <1>2, <1>3, <1>4

\* What was held when it was cached still is, when the history goes on.
LEMMA HeldGrows ==
    ASSUME ResInv, lastHeld' \in [ResName -> [ResId -> 0..MaxResTime]],
           \A m \in ResName, j \in ResId : lastHeld[m][j] <= lastHeld'[m][j]
    PROVE  \A m \in ResName : inner[m] # Unset /\ inner[m].at <= lastHeld[m][inner[m].id]
                              => inner[m].at <= lastHeld'[m][inner[m].id]
<1>1. /\ inner \in [ResName -> Entry \cup {Unset}] /\ lastHeld \in [ResName -> [ResId -> 0..MaxResTime]]
    BY DEF ResInv, ResolverTyped
<1>2. \A x, y, z \in 0..MaxResTime : x <= y /\ y <= z => x <= z
    BY ResAssumption
<1>3. ASSUME NEW m \in ResName, inner[m] # Unset, inner[m].at <= lastHeld[m][inner[m].id]
      PROVE  inner[m].at <= lastHeld'[m][inner[m].id]
  <2>1. inner[m].at \in 0..MaxResTime /\ inner[m].id \in ResId
    BY <1>1, <1>3 DEF Entry
  <2>2. /\ lastHeld[m][inner[m].id] \in 0..MaxResTime /\ lastHeld'[m][inner[m].id] \in 0..MaxResTime
        /\ lastHeld[m][inner[m].id] <= lastHeld'[m][inner[m].id]
    BY <1>1, <2>1
  <2> QED
    BY <1>2, <1>3, <2>1, <2>2
<1> QED
    BY <1>3

\* cache begins.
LEMMA CacheBeginStep ==
    ASSUME ResInv, NEW t \in ResThread, NEW n \in ResName, NEW i \in ResId, CacheBegin(t, n, i)
    PROVE  ResInv'
<1>0. PICK c : c = AtStep(IF wrapped THEN "cacheOuter" ELSE "cacheInner", n, i)
    OBVIOUS
<1>1. /\ call' = [call EXCEPT ![t] = c] /\ call[t] = Idle /\ Note(n, i)
      /\ UNCHANGED <<wrapped, staticMap, outer, inner, clock>>
    BY <1>0 DEF CacheBegin, Begin, Go
<1>2. overlapped' = (overlapped \/ \E u \in ResThread : call[u] # Idle)
    BY DEF CacheBegin, Begin
<1>3. overlapped' \in BOOLEAN
    BY <1>2 DEF ResInv, ResolverTyped
<1>4. ~overlapped' => ~overlapped /\ \A u \in ResThread : call[u] = Idle
    BY <1>2, Zenon
<1>5. /\ fresh' \in [ResName -> SUBSET ResId] /\ lastHeld' \in [ResName -> [ResId -> 0..MaxResTime]]
      /\ \A m \in ResName : fresh[m] \subseteq fresh'[m]
      /\ \A m \in ResName, j \in ResId : lastHeld[m][j] <= lastHeld'[m][j] /\ lastHeld'[m][j] <= clock
                                         /\ (lastHeld[m][j] = clock => lastHeld'[m][j] = clock)
      /\ i \in fresh'[n]
    BY <1>1, NoteIt
<1>6. c.step = (IF wrapped THEN "cacheOuter" ELSE "cacheInner") /\ c.name = n /\ c.id = i
    BY <1>0 DEF AtStep
<1>7. Idle.step = "idle"
    BY DEF Idle
<1>8. CallTyped(c)
    BY <1>6, <1>7 DEF CallTyped, ResStep, NameSteps, IdSteps, WrapperSteps
<1>9. CallHonest(c)'
    BY <1>1, <1>5, <1>6 DEF CallHonest
<1>10. ResolverHonest => KnownIds'
    BY <1>1, <1>5 DEF ResolverHonest, KnownIds
<1>11. ResolverHonest => HeldSince'
    BY <1>1, <1>5, HeldGrows DEF ResolverHonest, HeldSince
<1>12. \A m \in ResName : ~Caching(call[t], m) /\ (AgreeOn(m) => AgreeOn(m)')
    BY <1>1, <1>7 DEF Caching, AgreeOn
<1>13. /\ outer' \in [ResName -> Entry \cup {Unset}] /\ inner' \in [ResName -> Entry \cup {Unset}]
       /\ ~wrapped => \A m \in ResName : outer'[m] = Unset
    BY <1>1 DEF ResInv, ResolverTyped
<1> QED
    BY <1>1, <1>3, <1>4, <1>5, <1>8, <1>9, <1>10, <1>11, <1>12, <1>13, CallStep

\* The id from the static map goes into the inner cache.
LEMMA StoreStep ==
    ASSUME ResInv, NEW t \in ResThread, StoreStatic(t)
    PROVE  ResInv'
<1>0. PICK c, n, i : /\ n = call[t].name /\ i = call[t].id
                     /\ c = IF wrapped THEN AtStep("cacheOuter", n, i) ELSE Idle
    OBVIOUS
<1>1. /\ call' = [call EXCEPT ![t] = c] /\ call[t].step = "store" /\ inner' = [inner EXCEPT ![n] = [id |-> i, at |-> clock]]
      /\ UNCHANGED <<wrapped, staticMap, outer, clock, overlapped, fresh, lastHeld>>
    BY <1>0 DEF StoreStatic, Go, ghosts
<1>2. /\ CallTyped(call[t]) /\ inner \in [ResName -> Entry \cup {Unset}] /\ outer \in [ResName -> Entry \cup {Unset}]
      /\ wrapped \in BOOLEAN /\ overlapped \in BOOLEAN /\ clock \in 0..MaxResTime
      /\ fresh \in [ResName -> SUBSET ResId] /\ lastHeld \in [ResName -> [ResId -> 0..MaxResTime]]
      /\ (\A m \in ResName, j \in ResId : lastHeld[m][j] <= clock) /\ (~wrapped => \A m \in ResName : outer[m] = Unset)
      /\ \A m \in ResName : staticMap[m] # Unset => lastHeld[m][staticMap[m]] = clock /\ staticMap[m] \in fresh[m]
    BY DEF ResInv, ResolverTyped
<1>3. n \in ResName /\ i \in ResId /\ call[t] # Idle
    BY <1>0, <1>1, <1>2 DEF CallTyped, NameSteps, IdSteps
<1>4. /\ inner' \in [ResName -> Entry \cup {Unset}] /\ inner'[n] # Unset /\ inner'[n].id = i /\ inner'[n].at = clock
      /\ \A m \in ResName : m # n => inner'[m] = inner[m]
  <2>1. inner \in [ResName -> Entry \cup {Unset}] /\ n \in ResName /\ i \in ResId
    BY <1>2, <1>3
  <2>2. inner' = [inner EXCEPT ![n] = [id |-> i, at |-> clock]]
    BY <1>1
  <2> QED
    BY <2>1, <2>2, CacheEntry
<1>5. /\ Idle.step = "idle" /\ CallTyped(Idle)
      /\ \A s : AtStep(s, n, i).step = s /\ AtStep(s, n, i).name = n /\ AtStep(s, n, i).id = i
    BY DEF Idle, AtStep, CallTyped, ResStep, NameSteps, IdSteps, WrapperSteps
<1>6. CallTyped(c)
    BY <1>0, <1>3, <1>5 DEF CallTyped, ResStep, NameSteps, IdSteps, WrapperSteps
<1>7. ASSUME ~overlapped, ResolverHonest
      PROVE  /\ CallHonest(c)' /\ KnownIds' /\ HeldSince'
             /\ \A m \in ResName : ~Caching(c, m) => ~Caching(call[t], m) /\ (AgreeOn(m) => AgreeOn(m)')
  <2>1. i = staticMap[n] /\ i \in fresh[n] /\ lastHeld[n][i] = clock
    BY <1>0, <1>1, <1>2, <1>3, <1>7, ResAssumption DEF ResolverHonest, CallHonest
  <2>2. CallHonest(c)'
    BY <1>0, <1>1, <1>5, <2>1 DEF CallHonest
  <2>3. KnownIds'
    BY <1>1, <1>4, <1>7, <2>1 DEF ResolverHonest, KnownIds
  <2>4. HeldSince'
    <3>1. clock <= clock
      BY <1>2
    <3> QED
      BY <1>1, <1>4, <1>7, <2>1, <3>1 DEF ResolverHonest, HeldSince
  <2>5. \A m \in ResName : ~Caching(call[t], m)
    BY <1>1 DEF Caching
  <2>6. ASSUME NEW m \in ResName, ~Caching(c, m), AgreeOn(m) PROVE AgreeOn(m)'
    <3>1. CASE wrapped
      BY <1>0, <1>1, <1>4, <1>5, <2>6, <3>1 DEF Caching, AgreeOn
    <3>2. CASE ~wrapped
      BY <1>1, <1>2, <3>2 DEF AgreeOn
    <3> QED
      BY <3>1, <3>2
  <2> QED
    BY <2>2, <2>3, <2>4, <2>5, <2>6
<1> QED
    BY <1>1, <1>2, <1>3, <1>4, <1>6, <1>7, CallStep

\* The wrapper's cache is written first.
LEMMA CacheOuterStep ==
    ASSUME ResInv, NEW t \in ResThread, CacheOuter(t)
    PROVE  ResInv'
<1>0. PICK c, n, i : n = call[t].name /\ i = call[t].id /\ c = [call[t] EXCEPT !.step = "cacheInner"]
    OBVIOUS
<1>1. /\ call' = [call EXCEPT ![t] = c] /\ call[t].step = "cacheOuter" /\ outer' = [outer EXCEPT ![n] = [id |-> i, at |-> clock]]
      /\ UNCHANGED <<wrapped, staticMap, inner, clock, overlapped, fresh, lastHeld>>
    BY <1>0 DEF CacheOuter, Go, ghosts
<1>2. /\ CallTyped(call[t]) /\ inner \in [ResName -> Entry \cup {Unset}] /\ outer \in [ResName -> Entry \cup {Unset}]
      /\ overlapped \in BOOLEAN
      /\ fresh \in [ResName -> SUBSET ResId] /\ lastHeld \in [ResName -> [ResId -> 0..MaxResTime]]
      /\ \A m \in ResName, j \in ResId : lastHeld[m][j] <= clock
    BY DEF ResInv, ResolverTyped
<1>3. n \in ResName /\ i \in ResId /\ call[t] # Idle /\ wrapped
    BY <1>0, <1>1, <1>2 DEF CallTyped, NameSteps, IdSteps, WrapperSteps
<1>4. /\ outer' \in [ResName -> Entry \cup {Unset}] /\ outer'[n] # Unset /\ outer'[n].id = i
      /\ \A m \in ResName : m # n => outer'[m] = outer[m]
  <2>1. outer \in [ResName -> Entry \cup {Unset}] /\ n \in ResName /\ i \in ResId
    BY <1>2, <1>3
  <2>2. outer' = [outer EXCEPT ![n] = [id |-> i, at |-> clock]]
    BY <1>1
  <2> QED
    BY <2>1, <2>2, CacheEntry
<1>5. c.step = "cacheInner" /\ c.name = n /\ c.id = i
    BY <1>0
<1>6. CallTyped(c)
    BY <1>3, <1>5 DEF CallTyped, ResStep, NameSteps, IdSteps, WrapperSteps, Idle
<1>7. ASSUME ~overlapped, ResolverHonest
      PROVE  /\ CallHonest(c)' /\ KnownIds' /\ HeldSince'
             /\ \A m \in ResName : ~Caching(c, m) => ~Caching(call[t], m) /\ (AgreeOn(m) => AgreeOn(m)')
  <2>1. i \in fresh[n]
    BY <1>0, <1>1, <1>7 DEF ResolverHonest, CallHonest
  <2>2. CallHonest(c)'
    BY <1>1, <1>4, <1>5, <2>1 DEF CallHonest
  <2>3. KnownIds'
    BY <1>1, <1>4, <1>7, <2>1 DEF ResolverHonest, KnownIds
  <2>4. HeldSince'
    BY <1>1, <1>7 DEF ResolverHonest, HeldSince
  <2>5. \A m \in ResName : ~Caching(c, m) => ~Caching(call[t], m) /\ (AgreeOn(m) => AgreeOn(m)')
    BY <1>0, <1>1, <1>4, <1>5 DEF Caching, AgreeOn
  <2> QED
    BY <2>2, <2>3, <2>4, <2>5
<1> QED
    BY <1>1, <1>2, <1>3, <1>4, <1>6, <1>7, CallStep

\* The inner cache follows, and the call returns.
LEMMA CacheInnerStep ==
    ASSUME ResInv, NEW t \in ResThread, CacheInner(t)
    PROVE  ResInv'
<1>0. PICK n, i : n = call[t].name /\ i = call[t].id
    OBVIOUS
<1>1. /\ call' = [call EXCEPT ![t] = Idle] /\ call[t].step = "cacheInner" /\ inner' = [inner EXCEPT ![n] = [id |-> i, at |-> clock]]
      /\ UNCHANGED <<wrapped, staticMap, outer, clock, overlapped>> /\ Note(n, i)
    BY <1>0 DEF CacheInner, Finish, Go
<1>2. /\ CallTyped(call[t]) /\ inner \in [ResName -> Entry \cup {Unset}] /\ outer \in [ResName -> Entry \cup {Unset}]
      /\ overlapped \in BOOLEAN /\ clock \in 0..MaxResTime /\ (~wrapped => \A m \in ResName : outer[m] = Unset)
    BY DEF ResInv, ResolverTyped
<1>3. n \in ResName /\ i \in ResId /\ call[t] # Idle
    BY <1>0, <1>1, <1>2 DEF CallTyped, NameSteps, IdSteps
<1>4. /\ inner' \in [ResName -> Entry \cup {Unset}] /\ inner'[n] # Unset /\ inner'[n].id = i /\ inner'[n].at = clock
      /\ \A m \in ResName : m # n => inner'[m] = inner[m]
  <2>1. inner \in [ResName -> Entry \cup {Unset}] /\ n \in ResName /\ i \in ResId
    BY <1>2, <1>3
  <2>2. inner' = [inner EXCEPT ![n] = [id |-> i, at |-> clock]]
    BY <1>1
  <2> QED
    BY <2>1, <2>2, CacheEntry
<1>5. /\ fresh' \in [ResName -> SUBSET ResId] /\ lastHeld' \in [ResName -> [ResId -> 0..MaxResTime]]
      /\ \A m \in ResName : fresh[m] \subseteq fresh'[m]
      /\ \A m \in ResName, j \in ResId : lastHeld[m][j] <= lastHeld'[m][j] /\ lastHeld'[m][j] <= clock
                                         /\ (lastHeld[m][j] = clock => lastHeld'[m][j] = clock)
      /\ i \in fresh'[n] /\ lastHeld'[n][i] = clock
    BY <1>1, <1>3, NoteIt
<1>6. CallTyped(Idle)
    BY DEF Idle, CallTyped, ResStep, NameSteps, IdSteps, WrapperSteps
<1>7. ASSUME ~overlapped, ResolverHonest
      PROVE  /\ CallHonest(Idle)' /\ KnownIds' /\ HeldSince'
             /\ \A m \in ResName : AgreeOn(m)' \/ (~Caching(call[t], m) /\ (AgreeOn(m) => AgreeOn(m)'))
  <2>1. wrapped => outer[n] # Unset /\ outer[n].id = i
    BY <1>0, <1>1, <1>7 DEF ResolverHonest, CallHonest
  <2>2. CallHonest(Idle)'
    BY DEF CallHonest, Idle
  <2>3. KnownIds'
    BY <1>1, <1>4, <1>5, <1>7 DEF ResolverHonest, KnownIds
  <2>4. HeldSince'
    <3>1. clock <= clock
      BY <1>2
    <3>2. ~wrapped => \A m \in ResName : inner[m] # Unset => inner[m].at <= lastHeld'[m][inner[m].id]
      BY <1>5, <1>7, HeldGrows DEF ResolverHonest, HeldSince
    <3> QED
      BY <1>1, <1>4, <1>5, <3>1, <3>2 DEF HeldSince
  <2>5. AgreeOn(n)'
    BY <1>1, <1>2, <1>3, <1>4, <2>1 DEF AgreeOn
  <2>6. \A m \in ResName : m # n => ~Caching(call[t], m) /\ (AgreeOn(m) => AgreeOn(m)')
    BY <1>0, <1>1, <1>4 DEF Caching, AgreeOn
  <2> QED
    BY <2>2, <2>3, <2>4, <2>5, <2>6
<1> QED
  <2>1. \A m \in ResName, j \in ResId : lastHeld'[m][j] <= clock /\ (lastHeld[m][j] = clock => lastHeld'[m][j] = clock)
    BY <1>5
  <2>2. ~overlapped' /\ ResolverHonest =>
           /\ CallHonest(Idle)' /\ KnownIds' /\ HeldSince'
           /\ \A m \in ResName : ~Caching(Idle, m) =>
                 AgreeOn(m)' \/ (~Caching(call[t], m) /\ (AgreeOn(m) => AgreeOn(m)'))
    BY <1>1, <1>7
  <2>3. \A m \in ResName : staticMap[m] \in fresh[m] => staticMap[m] \in fresh'[m]
    BY <1>5
  <2>4. ~wrapped => \A m \in ResName : outer'[m] = Unset
    BY <1>1, <1>2
  <2> QED
    BY <1>1, <1>2, <1>3, <1>4, <1>5, <1>6, <2>1, <2>2, <2>3, <2>4, CallStep

\* clear_cache empties the wrapper's cache, then the inner one.
LEMMA ClearSteps ==
    ASSUME ResInv, NEW t \in ResThread, ClearOuter(t) \/ ClearInner(t)
    PROVE  ResInv'
<1>0. /\ CallTyped(call[t]) /\ inner \in [ResName -> Entry \cup {Unset}] /\ outer \in [ResName -> Entry \cup {Unset}]
      /\ overlapped \in BOOLEAN /\ (~wrapped => \A m \in ResName : outer[m] = Unset)
      /\ staticMap \in [ResName -> ResId \cup {Unset}]
      /\ fresh \in [ResName -> SUBSET ResId] /\ lastHeld \in [ResName -> [ResId -> 0..MaxResTime]]
      /\ (\A m \in ResName, j \in ResId : lastHeld[m][j] <= clock)
    BY DEF ResInv, ResolverTyped
<1>1. Unset \in Entry \cup {Unset} /\ CallTyped(Idle)
    BY DEF Idle, CallTyped, ResStep, NameSteps, IdSteps, WrapperSteps
<1>2. CASE ClearOuter(t)
  <2>0. PICK c : c = AtStep("clearInner", Unset, Unset)
    OBVIOUS
  <2>1. /\ call' = [call EXCEPT ![t] = c] /\ call[t].step = "clearOuter" /\ outer' = [n \in ResName |-> Unset]
        /\ UNCHANGED <<wrapped, staticMap, inner, clock, overlapped, fresh, lastHeld>>
    BY <1>2, <2>0 DEF ClearOuter, Go, ghosts
  <2>2. outer' \in [ResName -> Entry \cup {Unset}] /\ \A n \in ResName : outer'[n] = Unset
    BY <2>1
  <2>3. c.step = "clearInner" /\ call[t] # Idle
    BY <2>0, <2>1 DEF AtStep, Idle
  <2>4. CallTyped(c)
    BY <2>3 DEF CallTyped, ResStep, NameSteps, IdSteps, WrapperSteps, Idle
  <2>5. ResolverHonest => CallHonest(c)' /\ KnownIds' /\ HeldSince' /\ \A m \in ResName : AgreeOn(m)'
    BY <2>1, <2>2, <2>3 DEF ResolverHonest, CallHonest, KnownIds, HeldSince, AgreeOn
  <2> QED
    BY <1>0, <2>1, <2>2, <2>3, <2>4, <2>5, CallStep
<1>3. CASE ClearInner(t)
  <2>1. /\ call' = [call EXCEPT ![t] = Idle] /\ call[t].step = "clearInner" /\ inner' = [n \in ResName |-> Unset]
        /\ fresh' = [n \in ResName |-> {staticMap[n]} \ {Unset}]
        /\ UNCHANGED <<wrapped, staticMap, outer, clock, overlapped, lastHeld>>
    BY <1>3 DEF ClearInner, Finish, Go
  <2>2. inner' \in [ResName -> Entry \cup {Unset}] /\ \A n \in ResName : inner'[n] = Unset
    BY <2>1
  <2>3. call[t] # Idle
    BY <2>1 DEF Idle
  <2>4. fresh' \in [ResName -> SUBSET ResId]
    BY <1>0, <2>1
  <2>5. \A n \in ResName : staticMap[n] \in fresh[n] => staticMap[n] \in fresh'[n]
    BY <1>0, <2>1, ResAssumption
  <2>6. ResolverHonest => \A n \in ResName : outer[n] = Unset
    BY <2>1 DEF ResolverHonest, CallHonest
  <2>7. ResolverHonest => CallHonest(Idle)' /\ KnownIds' /\ HeldSince' /\ \A m \in ResName : AgreeOn(m)'
    BY <2>1, <2>2, <2>6 DEF CallHonest, KnownIds, HeldSince, AgreeOn, Idle
  <2>8. outer' \in [ResName -> Entry \cup {Unset}] /\ (~wrapped => \A m \in ResName : outer'[m] = Unset)
    BY <1>0, <2>1
  <2>9. lastHeld' \in [ResName -> [ResId -> 0..MaxResTime]] /\ overlapped' \in BOOLEAN
    BY <1>0, <2>1
  <2>10. \A m \in ResName, j \in ResId : lastHeld'[m][j] <= clock /\ (lastHeld[m][j] = clock => lastHeld'[m][j] = clock)
    BY <1>0, <2>1
  <2> QED
    BY <1>1, <2>1, <2>2, <2>3, <2>4, <2>5, <2>7, <2>8, <2>9, <2>10, CallStep
<1> QED
    BY <1>2, <1>3

\* add_static_mapping and remove_static_mapping, of a resolver alone.
LEMMA MappingSteps ==
    ASSUME ResInv, NEW n \in ResName, RemoveStaticMapping(n) \/ \E i \in ResId : AddStaticMapping(n, i)
    PROVE  ResInv'
<1>0. ResolverTyped /\ UNCHANGED <<wrapped, outer, inner, call, clock>> /\ ~wrapped
    BY DEF ResInv, RemoveStaticMapping, AddStaticMapping, MappingCall
<1>1. overlapped' = (overlapped \/ \E u \in ResThread : call[u] # Idle)
    BY DEF RemoveStaticMapping, AddStaticMapping, MappingCall
<1>2. overlapped' \in BOOLEAN
    BY <1>0, <1>1 DEF ResolverTyped
<1>3. ~overlapped' => ~overlapped /\ \A u \in ResThread : call[u] = Idle
    BY <1>1, Zenon
<1> DEFINE MapFacts ==
             /\ staticMap' \in [ResName -> ResId \cup {Unset}]
             /\ fresh' \in [ResName -> SUBSET ResId] /\ lastHeld' \in [ResName -> [ResId -> 0..MaxResTime]]
             /\ \A m \in ResName : fresh[m] \subseteq fresh'[m]
             /\ \A m \in ResName, j \in ResId : lastHeld[m][j] <= lastHeld'[m][j] /\ lastHeld'[m][j] <= clock
             /\ \A m \in ResName : staticMap'[m] # Unset => lastHeld'[m][staticMap'[m]] = clock /\ staticMap'[m] \in fresh'[m]
<1>4. MapFacts
  <2>0. /\ staticMap \in [ResName -> ResId \cup {Unset}]
        /\ fresh \in [ResName -> SUBSET ResId] /\ lastHeld \in [ResName -> [ResId -> 0..MaxResTime]]
        /\ (\A m \in ResName, j \in ResId : lastHeld[m][j] <= clock)
        /\ \A m \in ResName : staticMap[m] # Unset => lastHeld[m][staticMap[m]] = clock /\ staticMap[m] \in fresh[m]
    BY <1>0 DEF ResolverTyped
  <2>1. CASE RemoveStaticMapping(n)
    <3>1. staticMap' = [staticMap EXCEPT ![n] = Unset] /\ UNCHANGED <<fresh, lastHeld>>
      BY <2>1 DEF RemoveStaticMapping
    <3>2. staticMap' \in [ResName -> ResId \cup {Unset}] /\ \A m \in ResName : staticMap'[m] # Unset => staticMap'[m] = staticMap[m]
      BY <2>0, <3>1
    <3>3. \A m \in ResName, j \in ResId : lastHeld[m][j] <= lastHeld[m][j]
      <4>1. \A x \in 0..MaxResTime : x <= x
        BY ResAssumption
      <4> QED
        BY <2>0, <4>1
    <3> QED
      BY <2>0, <3>1, <3>2, <3>3
  <2>2. ASSUME NEW i \in ResId, AddStaticMapping(n, i) PROVE MapFacts
    <3>1. staticMap' = [staticMap EXCEPT ![n] = i] /\ Note(n, i)
      BY <2>2 DEF AddStaticMapping
    <3>2. /\ staticMap' \in [ResName -> ResId \cup {Unset}] /\ staticMap'[n] = i
          /\ \A m \in ResName : m # n => staticMap'[m] = staticMap[m]
      BY <2>0, <3>1
    <3>3. /\ fresh' \in [ResName -> SUBSET ResId] /\ lastHeld' \in [ResName -> [ResId -> 0..MaxResTime]]
          /\ \A m \in ResName : fresh[m] \subseteq fresh'[m]
          /\ \A m \in ResName, j \in ResId : lastHeld[m][j] <= lastHeld'[m][j] /\ lastHeld'[m][j] <= clock
                                              /\ (lastHeld[m][j] = clock => lastHeld'[m][j] = clock)
          /\ i \in fresh'[n] /\ lastHeld'[n][i] = clock
      BY <3>1, NoteIt
    <3>4. \A m \in ResName : staticMap'[m] # Unset => lastHeld'[m][staticMap'[m]] = clock /\ staticMap'[m] \in fresh'[m]
      BY <2>0, <3>2, <3>3
    <3> QED
      BY <3>2, <3>3, <3>4
  <2> QED
    BY <2>1, <2>2
<1>5. \A t \in ResThread : CallTyped(call[t])'
    BY <1>0 DEF ResolverTyped, CallTyped
<1>6. ResolverTyped'
    BY <1>0, <1>2, <1>4, <1>5 DEF ResolverTyped
<1>7. ASSUME ~overlapped' PROVE ResolverHonest'
  <2>1. ResolverHonest /\ \A u \in ResThread : call[u] = Idle
    BY <1>3, <1>7 DEF ResInv
  <2>2. CallHonest(Idle)' /\ \A m : ~Caching(Idle, m)
    BY DEF CallHonest, Idle, Caching
  <2>3. \A t \in ResThread : CallHonest(call[t])'
    BY <1>0, <2>1, <2>2
  <2>4. KnownIds'
    BY <1>0, <1>4, <2>1 DEF ResolverHonest, KnownIds
  <2>5. LayersClose'
    BY <1>0, <2>1 DEF ResolverHonest, LayersClose, AgreeOn
  <2>6. HeldSince'
    BY <1>0, <1>4, <2>1, HeldGrows DEF ResolverHonest, HeldSince
  <2>7. Alone'
    BY <1>0, <2>1 DEF Alone
  <2> QED
    BY <2>3, <2>4, <2>5, <2>6, <2>7 DEF ResolverHonest
<1> QED
    BY <1>6, <1>7 DEF ResInv

\* Time passes; a static mapping is held on.
LEMMA ResTickStep ==
    ASSUME ResInv, ResTick
    PROVE  ResInv'
<1>0. /\ ResolverTyped /\ UNCHANGED <<wrapped, staticMap, outer, inner, call, overlapped, fresh>>
      /\ clock < MaxResTime /\ clock' = clock + 1 /\ clock \in 0..MaxResTime
      /\ lastHeld \in [ResName -> [ResId -> 0..MaxResTime]] /\ \A m \in ResName, j \in ResId : lastHeld[m][j] <= clock
    BY DEF ResInv, ResTick, ResolverTyped
<1>1. clock + 1 \in 0..MaxResTime /\ clock' = clock + 1
    BY <1>0, ResAssumption
<1>2. lastHeld' = [n \in ResName |-> [i \in ResId |-> IF staticMap[n] = i THEN clock + 1 ELSE lastHeld[n][i]]]
    BY DEF ResTick
<1>3. /\ lastHeld' \in [ResName -> [ResId -> 0..MaxResTime]]
      /\ \A n \in ResName, i \in ResId : lastHeld'[n][i] = IF staticMap[n] = i THEN clock + 1 ELSE lastHeld[n][i]
    BY <1>0, <1>1, <1>2
<1>4. \A x \in 0..MaxResTime : x <= clock => x <= clock + 1
    BY <1>0, ResAssumption
<1>5. clock + 1 <= clock + 1 /\ \A x \in 0..MaxResTime : x <= x
    BY <1>0, ResAssumption
<1>6. \A n \in ResName, i \in ResId : lastHeld[n][i] \in 0..MaxResTime /\ lastHeld[n][i] <= clock
    BY <1>0
<1>7. \A n \in ResName, i \in ResId : lastHeld'[n][i] <= clock'
    BY <1>1, <1>3, <1>4, <1>5, <1>6
<1>8. \A n \in ResName, i \in ResId : lastHeld[n][i] <= lastHeld'[n][i]
    BY <1>3, <1>4, <1>5, <1>6
<1>9. \A n \in ResName : staticMap'[n] # Unset => lastHeld'[n][staticMap'[n]] = clock' /\ staticMap'[n] \in fresh'[n]
    BY <1>0, <1>1, <1>3 DEF ResolverTyped
<1>10. \A t \in ResThread : CallTyped(call[t])'
    BY <1>0 DEF ResolverTyped, CallTyped
<1>11. ResolverTyped'
    BY <1>0, <1>1, <1>3, <1>7, <1>9, <1>10 DEF ResolverTyped
<1>12. ASSUME ~overlapped' PROVE ResolverHonest'
  <2>1. ResolverHonest
    BY <1>0, <1>12 DEF ResInv
  <2>2. \A t \in ResThread : CallHonest(call[t])'
    BY <1>0, <2>1 DEF ResolverHonest, CallHonest
  <2>3. KnownIds' /\ Alone'
    BY <1>0, <2>1 DEF ResolverHonest, KnownIds, Alone
  <2>4. LayersClose'
    BY <1>0, <2>1 DEF ResolverHonest, LayersClose, AgreeOn
  <2>5. HeldSince'
    BY <1>0, <1>3, <1>8, <2>1, HeldGrows DEF ResolverHonest, HeldSince
  <2> QED
    BY <2>2, <2>3, <2>4, <2>5 DEF ResolverHonest
<1> QED
    BY <1>11, <1>12 DEF ResInv

\* Every step preserves the invariant.
LEMMA ResStepInv ==
    ASSUME ResInv, [ResolverNext \/ RegClientNext]_resVars
    PROVE  ResInv'
<1>1. ASSUME UNCHANGED <<wrapped, staticMap, outer, inner, call, clock, ghosts>> PROVE ResInv'
  <2>1. UNCHANGED <<wrapped, staticMap, outer, inner, call, clock, overlapped, fresh, lastHeld>>
    BY <1>1 DEF ghosts
  <2>2. \A t \in ResThread : (CallTyped(call[t]) => CallTyped(call[t])') /\ (CallHonest(call[t]) => CallHonest(call[t])')
    BY <2>1 DEF CallTyped, CallHonest
  <2>3. ResolverTyped'
    BY <2>1, <2>2 DEF ResInv, ResolverTyped
  <2>4. ResolverHonest => ResolverHonest'
    BY <2>1, <2>2 DEF ResolverHonest, Alone, KnownIds, LayersClose, AgreeOn, HeldSince
  <2> QED
    BY <2>1, <2>3, <2>4 DEF ResInv
<1>2. CASE UNCHANGED resVars
    BY <1>1, <1>2 DEF resVars, ghosts
<1>3. CASE ResolverNext
    BY <1>3, ResolveSteps, CacheBeginStep, StoreStep, CacheOuterStep, CacheInnerStep, ClearSteps, MappingSteps, ResTickStep
       DEF ResolverNext
<1>4. CASE RegClientNext
  <2>1. ResTick \/ UNCHANGED <<wrapped, staticMap, outer, inner, call, clock, ghosts>>
    BY <1>4 DEF RegClientNext, RegLookup, RegInsert, RegRegister, RegRemove, RegCleanup, RegReverseLookup
  <2> QED
    BY <1>1, <2>1, ResTickStep
<1> QED
    BY <1>2, <1>3, <1>4

\* As long as no two calls overlap, the caches of a resolver answer nothing that was
\* not mapped or cached since the last clear_cache, the layers of a wrapped one agree
\* whenever no call is under way, and a lone resolver answers a removed mapping no
\* longer than the ttl.
THEOREM ResolverIsHonest == ResSpec => []CachesHonest
<1>1. ResInv => CachesHonest
  <2> SUFFICES ASSUME ResInv PROVE ClearForgets /\ LayersAgree /\ StaleAtMostTtl
    BY DEF CachesHonest
  <2>1. ~overlapped => Alone /\ KnownIds /\ LayersClose /\ HeldSince
    BY DEF ResInv, ResolverHonest
  <2>2. ClearForgets
    BY <2>1 DEF ClearForgets, KnownIds, Current
  <2>3. LayersAgree
    <3>1. \A n : ~Caching(Idle, n)
      BY DEF Caching, Idle
    <3> QED
      BY <2>1, <3>1 DEF LayersAgree, LayersClose, AgreeOn, Current
  <2>4. StaleAtMostTtl
    <3> SUFFICES ASSUME ~wrapped, ~overlapped, NEW n \in ResName, Current(inner, n)
                 PROVE  clock - lastHeld[n][inner[n].id] <= ResTtl
      BY DEF StaleAtMostTtl
    <3>1. inner[n] # Unset /\ clock - inner[n].at <= ResTtl
      BY DEF Current
    <3>2. inner[n] \in Entry
      BY <3>1 DEF ResInv, ResolverTyped
    <3>3. inner[n].at \in 0..MaxResTime /\ inner[n].id \in ResId
      BY <3>2 DEF Entry
    <3>4. lastHeld[n][inner[n].id] \in 0..MaxResTime /\ clock \in 0..MaxResTime
      BY <3>3 DEF ResInv, ResolverTyped
    <3>5. inner[n].at <= lastHeld[n][inner[n].id]
      BY <2>1, <3>1 DEF HeldSince
    <3>6. \A x, y, z \in 0..MaxResTime : x <= y /\ z - x <= ResTtl => z - y <= ResTtl
      BY ResAssumption
    <3> QED
      BY <3>1, <3>3, <3>4, <3>5, <3>6
  <2> QED
    BY <2>2, <2>3, <2>4
<1>2. ResInv /\ [ResolverNext \/ RegClientNext]_resVars => ResInv'
    BY ResStepInv
<1> QED
    BY <1>1, <1>2, ResInitInv, PTL DEF ResSpec

\* What the registry client's cache holds, and what the calls hold that they will
\* not use any more.
CallsTyped ==
    /\ regCache \in [ResName -> Entry \cup {Unset}]
    /\ call \in [ResThread -> [step : ResStep, name : ResName \cup {Unset}, id : ResId \cup {Unset}]]

\* A call goes on.
LEMMA CallGoes ==
    ASSUME CallsTyped, NEW t \in ResThread, NEW s \in ResStep, NEW n \in ResName \cup {Unset}, NEW i \in ResId \cup {Unset},
           call' = [call EXCEPT ![t] = AtStep(s, n, i)], regCache' = regCache
    PROVE  CallsTyped'
<1>1. AtStep(s, n, i) \in [step : ResStep, name : ResName \cup {Unset}, id : ResId \cup {Unset}]
    BY DEF AtStep
<1> QED
    BY <1>1 DEF CallsTyped

\* A thread's call.
LEMMA CallHolds ==
    ASSUME CallsTyped, ResolverTyped, NEW t \in ResThread
    PROVE  /\ call[t].name \in ResName \cup {Unset} /\ call[t].id \in ResId \cup {Unset}
           /\ call[t].step \in ResStep
           /\ call[t].step \in NameSteps => call[t].name \in ResName
           /\ call[t].step \in IdSteps => call[t].id \in ResId
BY DEF CallsTyped, ResolverTyped, CallTyped

\* Every step keeps their types.
LEMMA CallsTypedStep ==
    ASSUME ResInv, CallsTyped, [ResolverNext \/ RegClientNext]_resVars
    PROVE  CallsTyped'
<1>0. ResolverTyped
    BY DEF ResInv
<1>00. /\ ResStep = {"idle", "outer", "inner", "static", "store", "cacheOuter", "cacheInner", "clearOuter", "clearInner"}
       /\ Idle = AtStep("idle", Unset, Unset) /\ Unset \in ResName \cup {Unset} /\ Unset \in ResId \cup {Unset}
    BY DEF ResStep, Idle, AtStep
<1>1. ASSUME NEW t \in ResThread, NEW n \in ResName, ResolveBegin(t, n) PROVE CallsTyped'
  <2>1. PICK s \in ResStep : call' = [call EXCEPT ![t] = AtStep(s, n, Unset)]
    BY <1>00, <1>1 DEF ResolveBegin, Begin, Go
  <2> QED
    BY <1>1, <2>1, CallGoes DEF ResolveBegin
<1>2. ASSUME NEW t \in ResThread, NEW n \in ResName, NEW i \in ResId, CacheBegin(t, n, i) PROVE CallsTyped'
  <2>1. PICK s \in ResStep : call' = [call EXCEPT ![t] = AtStep(s, n, i)]
    BY <1>00, <1>2 DEF CacheBegin, Begin, Go
  <2> QED
    BY <1>2, <2>1, CallGoes DEF CacheBegin
<1>3. ASSUME NEW t \in ResThread, ReadOuter(t) PROVE CallsTyped'
  <2>1. call' = [call EXCEPT ![t] = Idle] \/ call' = [call EXCEPT ![t] = AtStep("inner", call[t].name, Unset)]
    BY <1>3 DEF ReadOuter, Go
  <2> QED
    BY <1>0, <1>00, <1>3, <2>1, CallHolds, CallGoes DEF ReadOuter
<1>4. ASSUME NEW t \in ResThread, ReadInner(t) PROVE CallsTyped'
  <2>1. PICK n, i : n = call[t].name /\ i = inner[n].id
    OBVIOUS
  <2>2. call[t].step = "inner" /\ n \in ResName
    BY <1>0, <1>4, <2>1, CallHolds DEF ReadInner, NameSteps
  <2>3. \/ call' = [call EXCEPT ![t] = Idle] \/ call' = [call EXCEPT ![t] = AtStep("static", n, Unset)]
        \/ Current(inner, n) /\ call' = [call EXCEPT ![t] = AtStep("cacheOuter", n, i)]
    BY <1>4, <2>1 DEF ReadInner, Go
  <2>4. ASSUME Current(inner, n) PROVE i \in ResId
    <3>1. inner[n] \in Entry
      BY <1>0, <2>2, <2>4 DEF Current, ResolverTyped
    <3> QED
      BY <2>1, <3>1 DEF Entry
  <2> QED
    BY <1>00, <1>4, <2>2, <2>3, <2>4, CallGoes DEF ReadInner
<1>5. ASSUME NEW t \in ResThread, ReadStatic(t) PROVE CallsTyped'
  <2>1. PICK n, i : n = call[t].name /\ i = staticMap[n]
    OBVIOUS
  <2>2. n \in ResName
    BY <1>0, <1>5, <2>1, CallHolds DEF ReadStatic, NameSteps
  <2>3. i \in ResId \cup {Unset}
    BY <1>0, <2>1, <2>2 DEF ResolverTyped
  <2>4. call' = [call EXCEPT ![t] = Idle] \/ call' = [call EXCEPT ![t] = AtStep("store", n, i)]
    BY <1>5, <2>1 DEF ReadStatic, Go
  <2> QED
    BY <1>00, <1>5, <2>2, <2>3, <2>4, CallGoes DEF ReadStatic
<1>6. ASSUME NEW t \in ResThread, StoreStatic(t) PROVE CallsTyped'
  <2>1. PICK n, i : n = call[t].name /\ i = call[t].id
    OBVIOUS
  <2>2. call' = [call EXCEPT ![t] = Idle] \/ call' = [call EXCEPT ![t] = AtStep("cacheOuter", n, i)]
    BY <1>6, <2>1 DEF StoreStatic, Go
  <2> QED
    BY <1>0, <1>00, <1>6, <2>1, <2>2, CallHolds, CallGoes DEF StoreStatic
<1>7. ASSUME NEW t \in ResThread, CacheOuter(t) PROVE CallsTyped'
  <2>1. PICK c : c = [call[t] EXCEPT !.step = "cacheInner"] /\ call' = [call EXCEPT ![t] = c]
    BY <1>7 DEF CacheOuter, Go
  <2>2. call[t] \in [step : ResStep, name : ResName \cup {Unset}, id : ResId \cup {Unset}]
    BY DEF CallsTyped
  <2>3. c \in [step : ResStep, name : ResName \cup {Unset}, id : ResId \cup {Unset}]
    BY <1>00, <2>1, <2>2
  <2> QED
    BY <1>7, <2>1, <2>3 DEF CacheOuter, CallsTyped
<1>8. ASSUME NEW t \in ResThread, CacheInner(t) \/ ClearInner(t) PROVE CallsTyped'
    BY <1>00, <1>8, CallGoes DEF CacheInner, ClearInner, Finish, Go
<1>9. ASSUME NEW t \in ResThread, ClearBegin(t) \/ ClearOuter(t) PROVE CallsTyped'
  <2>1. PICK s \in ResStep : call' = [call EXCEPT ![t] = AtStep(s, Unset, Unset)]
    BY <1>00, <1>9 DEF ClearBegin, ClearOuter, Begin, Go
  <2> QED
    BY <1>00, <1>9, <2>1, CallGoes DEF ClearBegin, ClearOuter
<1>10. ASSUME NEW n \in ResName, NEW i \in ResId, RegInsert(n, i) PROVE CallsTyped'
  <2>1. [id |-> i, at |-> clock] \in Entry
    BY <1>0 DEF ResolverTyped, Entry
  <2> QED
    BY <1>10, <2>1 DEF RegInsert, CallsTyped
<1>11. ASSUME NEW N, RegRemove(N) PROVE CallsTyped'
    BY <1>11 DEF RegRemove, CallsTyped
<1>12. CASE RegCleanup
    BY <1>12 DEF RegCleanup, CallsTyped
<1>13. ASSUME UNCHANGED <<call, regCache>> PROVE CallsTyped'
    BY <1>13 DEF CallsTyped
<1>14. ASSUME NEW n \in ResName, NEW i \in ResId, AddStaticMapping(n, i) PROVE CallsTyped'
    BY <1>13, <1>14 DEF AddStaticMapping
<1>15. ASSUME NEW n \in ResName, RemoveStaticMapping(n) PROVE CallsTyped'
    BY <1>13, <1>15 DEF RemoveStaticMapping
<1>16. CASE ResTick
    BY <1>13, <1>16 DEF ResTick
<1>17. CASE ResolverNext
    BY <1>1, <1>2, <1>3, <1>4, <1>5, <1>6, <1>7, <1>8, <1>9, <1>14, <1>15, <1>16, <1>17 DEF ResolverNext
<1>18. CASE RegClientNext
  <2>1. ASSUME NEW n, RegLookup(n) PROVE CallsTyped'
    BY <1>13, <2>1 DEF RegLookup
  <2>2. ASSUME NEW i, RegReverseLookup(i) PROVE CallsTyped'
    BY <1>13, <2>2 DEF RegReverseLookup
  <2>3. ASSUME NEW n, NEW i, RegRegister(n, i) PROVE CallsTyped'
    BY <1>13, <2>3 DEF RegRegister
  <2> QED
    BY <1>10, <1>11, <1>12, <1>16, <1>18, <2>1, <2>2, <2>3 DEF RegClientNext
<1>19. CASE UNCHANGED resVars
    BY <1>13, <1>19 DEF resVars
<1> QED
    BY <1>17, <1>18, <1>19

\* They have them at first.
LEMMA CallsTypedInit == ResInit => CallsTyped
BY DEF ResInit, CallsTyped, Idle, ResStep

\* So the caches, the calls and the clock have their types.
LEMMA ResInvTypes == ResInv /\ CallsTyped => ResTypeOK
BY DEF ResInv, ResolverTyped, CallsTyped, ResTypeOK

----------------------------------------------------------------------------
(* LanRouter. *)

\* The constants.
LEMMA LanConstants ==
    /\ OnlineFor \in Nat /\ MaxLanTime \in Nat /\ Nobody \notin LanHost /\ Nobody \notin LanEntry
    /\ "none" \notin LanHost /\ "recv" \notin LanHost
BY LanAssumption

\* m knows n, or its thread is about to record it.
Knows(m, n) == lanNodes[m][n] # Nobody \/ reader[m] = n

\* A node whose answer is on its way knows the one it answers, or is about to;
\* a router that was not started has no thread; and clocks do not run backwards.
LanInv ==
    /\ LanTypeOK /\ bound \subseteq LanHost /\ repliedBy \in [LanHost -> SUBSET LanHost]
    /\ \A n \in LanHost : n \notin repliedBy[n]
    /\ \A n \in LanHost \ bound : reader[n] = "none"
    /\ \A f \in air : f.type = "DiscoverReply" /\ f.from # f.to => Knows(f.from, f.to)
    /\ LanTableSound

\* The frames that routers send.
LEMMA LanFrames ==
    ASSUME NEW n \in LanHost, NEW m \in LanHost
    PROVE  /\ Broadcast(n) \subseteq LanFrame /\ \A f \in Broadcast(n) : f.type = "Discover"
           /\ Data(n, m) \subseteq LanFrame /\ \A f \in Data(n, m) : f.type = "Data"
           /\ [type |-> "Heartbeat", from |-> n, to |-> m] \in LanFrame
           /\ [type |-> "DiscoverReply", from |-> n, to |-> m] \in LanFrame
BY DEF Broadcast, Data, LanFrame

\* It holds at first.
LEMMA LanInitInv == LanInit => LanInv
<1> SUFFICES ASSUME LanInit PROVE LanInv
    OBVIOUS
<1>1. /\ lanNodes = [n \in LanHost |-> [m \in LanHost |-> Nobody]] /\ bound = {} /\ air = {} /\ lanClock = 0
      /\ reader = [n \in LanHost |-> "none"] /\ sender = [n \in LanHost |-> Nobody]
      /\ repliedBy = [n \in LanHost |-> {}]
    BY DEF LanInit
<1>2. LanTypeOK
  <2>1. lanClock \in 0..MaxLanTime
    BY <1>1, LanConstants
  <2> QED
    BY <1>1, <2>1 DEF LanTypeOK
<1>3. \A n \in LanHost : repliedBy[n] = {} /\ reader[n] = "none" /\ \A m \in LanHost : lanNodes[n][m] = Nobody
    BY <1>1
<1>4. LanTableSound
    BY <1>3 DEF LanTableSound, Acquainted, OfflineWasSilent
<1> QED
    BY <1>1, <1>2, <1>3, <1>4 DEF LanInv

\* A step that forgets no entry, and takes no thread away from one it is about to
\* record without recording it.
LEMMA AcquaintedKept ==
    ASSUME LanInv,
           \A m, n \in LanHost : m # n /\ Knows(m, n) => Knows(m, n)',
           bound' \subseteq LanHost, \A n \in LanHost \ bound' : reader'[n] = "none",
           repliedBy' \in [LanHost -> SUBSET LanHost],
           \A n \in LanHost : \A m \in repliedBy'[n] : m # n /\ (m \in repliedBy[n] \/ Knows(m, n)),
           \A f \in air' : \/ f \in air \/ f.type # "DiscoverReply"
                           \/ f.from # f.to => Knows(f.from, f.to)',
           LanTypeOK', OfflineWasSilent'
    PROVE  LanInv'
<1>1. \A n \in LanHost : n \notin repliedBy'[n]
    OBVIOUS
<1>2. \A f \in air' : f.from \in LanHost /\ f.to \in LanHost
    BY DEF LanTypeOK, LanFrame
<1>3. \A f \in air' : f.type = "DiscoverReply" /\ f.from # f.to => Knows(f.from, f.to)'
    BY <1>2 DEF LanInv
<1>4. \A n \in LanHost : \A m \in repliedBy'[n] : m \in LanHost /\ m # n /\ Knows(m, n)
    BY DEF LanInv, LanTableSound, Acquainted, Knows
<1>5. Acquainted'
    BY <1>4 DEF Acquainted, Knows
<1> QED
    BY <1>1, <1>3, <1>5 DEF LanInv, LanTableSound

\* Recording a node under the time of now.
LEMMA RecordStep ==
    ASSUME LanTypeOK, NEW n \in LanHost, NEW m \in LanHost, m # n,
           lanNodes' = [lanNodes EXCEPT ![n][m] = [seen |-> lanClock, status |-> "Online"]],
           lanClock' = lanClock, OfflineWasSilent
    PROVE  /\ lanNodes' \in [LanHost -> [LanHost -> LanEntry \cup {Nobody}]]
           /\ lanNodes'[n][m] # Nobody /\ \A p \in LanHost : lanNodes'[p][p] = Nobody
           /\ \A p, q \in LanHost : <<p, q>> # <<n, m>> => lanNodes'[p][q] = lanNodes[p][q]
           /\ OfflineWasSilent'
<1> DEFINE e == [seen |-> lanClock, status |-> "Online"]
<1>1. e \in LanEntry /\ e # Nobody /\ e.status = "Online"
    BY LanConstants DEF LanTypeOK, LanEntry
<1>2. /\ lanNodes \in [LanHost -> [LanHost -> LanEntry \cup {Nobody}]] /\ \A p \in LanHost : lanNodes[p][p] = Nobody
    BY DEF LanTypeOK
<1> HIDE DEF e
<1>3. lanNodes' = [lanNodes EXCEPT ![n][m] = e]
    BY DEF e
<1>4. /\ lanNodes' \in [LanHost -> [LanHost -> LanEntry \cup {Nobody}]]
      /\ \A p, q \in LanHost : lanNodes'[p][q] = IF p = n /\ q = m THEN e ELSE lanNodes[p][q]
    BY <1>1, <1>2, <1>3
<1>5. OfflineWasSilent'
    BY <1>1, <1>4 DEF OfflineWasSilent, IsOnline
<1> QED
    BY <1>1, <1>2, <1>4, <1>5

\* The receive thread goes on, or ends: it is not about to record anyone.
LEMMA NextRecvStep ==
    ASSUME LanTypeOK, NEW n \in LanHost, NextRecv(n)
    PROVE  /\ reader' \in [LanHost -> {"none", "recv"} \cup LanHost]
           /\ reader'[n] \in {"none", "recv"}
           /\ \A m \in LanHost : m # n => reader'[m] = reader[m]
BY DEF LanTypeOK, NextRecv

\* A step that changes neither tables nor threads and sends no DiscoverReply.
LEMMA FramesStep ==
    ASSUME LanInv, UNCHANGED <<lanNodes, bound, reader, repliedBy, lanClock>>,
           sender' \in [LanHost -> LanHost \cup {Nobody}],
           air' \subseteq LanFrame, \A f \in air' : f \in air \/ f.type # "DiscoverReply"
    PROVE  LanInv'
<1>1. LanTypeOK' /\ OfflineWasSilent'
    BY DEF LanInv, LanTypeOK, LanTableSound, OfflineWasSilent, IsOnline
<1> QED
    BY <1>1 DEF LanInv, LanTableSound, Acquainted, Knows

\* The handler of a frame, up to its thread's next recv_from: it takes the frame
\* and may record a node.
LEMMA HandlerStep ==
    ASSUME LanInv, NEW n \in LanHost, NEW m \in LanHost,
           NextRecv(n), air' \subseteq air, UNCHANGED <<bound, sender, lanClock>>,
           reader[n] \in LanHost => m = reader[n] /\ (m # n => lanNodes' # lanNodes \/ lanNodes[n][m] # Nobody),
           \/ lanNodes' = lanNodes
           \/ m # n /\ lanNodes' = [lanNodes EXCEPT ![n][m] = [seen |-> lanClock, status |-> "Online"]],
           repliedBy' \in [LanHost -> SUBSET LanHost],
           \A p \in LanHost : \A q \in repliedBy'[p] : q # p /\ (q \in repliedBy[p] \/ Knows(q, p)),
           n \in bound
    PROVE  LanInv'
<1>0. /\ LanTypeOK /\ OfflineWasSilent /\ bound \subseteq LanHost
      /\ \A p \in LanHost \ bound : reader[p] = "none"
    BY DEF LanInv, LanTableSound
<1>1. /\ reader' \in [LanHost -> {"none", "recv"} \cup LanHost]
      /\ \A p \in LanHost : p # n => reader'[p] = reader[p]
    BY <1>0, NextRecvStep
<1>2. /\ lanNodes' \in [LanHost -> [LanHost -> LanEntry \cup {Nobody}]]
      /\ \A p \in LanHost : lanNodes'[p][p] = Nobody
      /\ OfflineWasSilent'
      /\ \A p, q \in LanHost : lanNodes[p][q] # Nobody => lanNodes'[p][q] # Nobody
      /\ lanNodes' # lanNodes => lanNodes'[n][m] # Nobody
  <2>1. CASE lanNodes' = lanNodes
    BY <1>0, <2>1 DEF LanTypeOK, OfflineWasSilent, IsOnline
  <2>2. CASE m # n /\ lanNodes' = [lanNodes EXCEPT ![n][m] = [seen |-> lanClock, status |-> "Online"]]
    BY <1>0, <2>2, RecordStep, ZenonT(40)
  <2> QED
    BY <2>1, <2>2
<1>3. \A p, q \in LanHost : p # q /\ Knows(p, q) => Knows(p, q)'
  <2> SUFFICES ASSUME NEW p \in LanHost, NEW q \in LanHost, p # q, Knows(p, q) PROVE Knows(p, q)'
    OBVIOUS
  <2>1. CASE lanNodes[p][q] # Nobody
    BY <1>2, <2>1 DEF Knows
  <2>2. CASE lanNodes[p][q] = Nobody /\ p # n
    BY <1>1, <2>2 DEF Knows
  <2>3. CASE lanNodes[p][q] = Nobody /\ p = n
    <3>1. reader[n] = q /\ q = m
      BY <2>3 DEF Knows
    <3> QED
      BY <1>2, <2>3, <3>1 DEF Knows
  <2> QED
    BY <2>1, <2>2, <2>3
<1>4. LanTypeOK'
    BY <1>0, <1>1, <1>2 DEF LanTypeOK
<1>5. \A p \in LanHost \ bound' : reader'[p] = "none"
    BY <1>0, <1>1
<1> QED
    BY <1>0, <1>2, <1>3, <1>4, <1>5, AcquaintedKept

\* Every step preserves it.
LEMMA LanStep ==
    ASSUME LanInv, [LanNext]_lanVars
    PROVE  LanInv'
<1>0. /\ LanTypeOK /\ OfflineWasSilent /\ bound \subseteq LanHost /\ repliedBy \in [LanHost -> SUBSET LanHost]
      /\ \A p \in LanHost \ bound : reader[p] = "none"
      /\ \A p \in LanHost : \A q \in repliedBy[p] : q # p
      /\ air \subseteq LanFrame /\ sender \in [LanHost -> LanHost \cup {Nobody}]
      /\ \A f \in air : f.from \in LanHost /\ f.to \in LanHost
    BY DEF LanInv, LanTableSound, LanTypeOK, LanFrame
<1>1. ASSUME NEW n \in LanHost, LanStart(n) PROVE LanInv'
  <2>1. reader[n] = "none" /\ reader' = [reader EXCEPT ![n] = "recv"] /\ bound' = bound \cup {n}
        /\ UNCHANGED <<lanNodes, sender, lanClock, repliedBy>>
        /\ air' = air \cup Broadcast(n)
    BY <1>0, <1>1 DEF LanStart, PutInAir
  <2>2. reader' \in [LanHost -> {"none", "recv"} \cup LanHost] /\ \A m \in LanHost : m # n => reader'[m] = reader[m]
    BY <1>0, <2>1 DEF LanTypeOK
  <2>3. LanTypeOK' /\ OfflineWasSilent'
    BY <1>0, <2>1, <2>2, LanFrames DEF LanTypeOK, OfflineWasSilent, IsOnline
  <2>4. \A p, q \in LanHost : p # q /\ Knows(p, q) => Knows(p, q)'
    BY <2>1, <2>2, LanConstants DEF Knows
  <2>5. \A f \in air' : f \in air \/ f.type # "DiscoverReply"
    BY <2>1, LanFrames
  <2>6. \A m \in LanHost \ bound' : reader'[m] = "none"
    BY <1>0, <2>1, <2>2
  <2>7. bound' \subseteq LanHost
    BY <1>0, <2>1
  <2> QED
    BY <1>0, <2>1, <2>3, <2>4, <2>5, <2>6, <2>7, AcquaintedKept
<1>2. ASSUME NEW n \in LanHost, LanStop(n) \/ TakeReceivedData(n) PROVE LanInv'
    BY <1>0, <1>2, FramesStep DEF LanStop, TakeReceivedData
<1>3. ASSUME NEW n \in LanHost, RecvTimeout(n) PROVE LanInv'
  <2>1. reader[n] = "recv" /\ n \in bound
    BY <1>0, <1>3 DEF RecvTimeout
  <2> QED
    BY <1>0, <1>3, <2>1, HandlerStep, LanConstants DEF RecvTimeout
<1>4. ASSUME NEW n \in LanHost, RecordDiscoverer(n) PROVE LanInv'
  <2>1. reader[n] \in LanHost /\ n \in bound
    BY <1>0, <1>4, LanConstants DEF RecordDiscoverer
  <2>2. CASE reader[n] = n
    BY <1>0, <1>4, <2>1, <2>2, HandlerStep DEF RecordDiscoverer, Record
  <2>3. CASE reader[n] # n
    <3>1. lanNodes' = [lanNodes EXCEPT ![n][reader[n]] = [seen |-> lanClock, status |-> "Online"]]
      BY <1>4, <2>3 DEF RecordDiscoverer, Record
    <3>2. lanNodes'[n][reader[n]] # Nobody
      BY <1>0, <1>4, <2>1, <2>3, <3>1, RecordStep DEF RecordDiscoverer
    <3>3. lanNodes' # lanNodes \/ lanNodes[n][reader[n]] # Nobody
      BY <3>2
    <3> QED
      BY <1>0, <1>4, <2>1, <2>3, <3>1, <3>3, HandlerStep DEF RecordDiscoverer
  <2> QED
    BY <2>2, <2>3
<1>5. ASSUME NEW n \in LanHost, NEW f \in air, HandleDiscover(n, f) PROVE LanInv'
  <2> DEFINE r == [type |-> "DiscoverReply", from |-> n, to |-> f.from]
  <2>1. /\ reader[n] = "recv" /\ n \in bound /\ f.from \in LanHost
        /\ air' = (air \ {f}) \cup {r} /\ r \in LanFrame /\ r.from = n /\ r.to = f.from
        /\ reader' = [reader EXCEPT ![n] = f.from]
        /\ UNCHANGED <<lanNodes, bound, sender, lanClock, repliedBy>>
    BY <1>0, <1>5, LanFrames DEF HandleDiscover, Taken
  <2> HIDE DEF r
  <2>2. /\ reader' \in [LanHost -> {"none", "recv"} \cup LanHost] /\ reader'[n] = f.from
        /\ \A m \in LanHost : m # n => reader'[m] = reader[m]
    BY <1>0, <2>1 DEF LanTypeOK
  <2>3. LanTypeOK' /\ OfflineWasSilent'
    BY <1>0, <2>1, <2>2 DEF LanTypeOK, OfflineWasSilent, IsOnline
  <2>4. \A p, q \in LanHost : p # q /\ Knows(p, q) => Knows(p, q)'
    BY <2>1, <2>2, LanConstants DEF Knows
  <2>5. Knows(n, f.from)'
    BY <2>2 DEF Knows
  <2>6. \A g \in air' : g \in air \/ (g.from # g.to => Knows(g.from, g.to)')
    BY <2>1, <2>5 DEF Knows
  <2>7. \A m \in LanHost \ bound' : reader'[m] = "none"
    BY <1>0, <2>1, <2>2
  <2> QED
    BY <1>0, <2>1, <2>3, <2>4, <2>6, <2>7, AcquaintedKept
<1>6. ASSUME NEW n \in LanHost, NEW f \in air, HandleReply(n, f) PROVE LanInv'
  <2>1. /\ reader[n] = "recv" /\ n \in bound /\ f.from \in LanHost /\ f.to = n /\ air' \subseteq air
        /\ NextRecv(n) /\ UNCHANGED <<bound, sender, lanClock>> /\ Record(n, f.from)
        /\ repliedBy' = [repliedBy EXCEPT ![n] = @ \cup ({f.from} \ {n})]
    BY <1>0, <1>6 DEF HandleReply, Taken
  <2>2. f.from # n => Knows(f.from, n)
    BY <1>6, <2>1 DEF LanInv, HandleReply
  <2>3. repliedBy' \in [LanHost -> SUBSET LanHost]
    BY <1>0, <2>1
  <2>4. \A p \in LanHost : \A q \in repliedBy'[p] : q # p /\ (q \in repliedBy[p] \/ Knows(q, p))
    BY <1>0, <2>1, <2>2
  <2>5. \/ lanNodes' = lanNodes
        \/ f.from # n /\ lanNodes' = [lanNodes EXCEPT ![n][f.from] = [seen |-> lanClock, status |-> "Online"]]
    BY <2>1 DEF Record
  <2> QED
    BY <2>1, <2>3, <2>4, <2>5, HandlerStep, LanConstants
<1>7. ASSUME NEW n \in LanHost, NEW f \in air, HandleData(n, f) PROVE LanInv'
  <2>1. reader[n] = "recv" /\ n \in bound /\ air' \subseteq air
    BY <1>0, <1>7 DEF HandleData, Taken
  <2> QED
    BY <1>0, <1>7, <2>1, HandlerStep, LanConstants DEF HandleData
<1>8. ASSUME NEW n \in LanHost, NEW f \in air, HandleHeartbeat(n, f) PROVE LanInv'
  <2>1. reader[n] = "recv" /\ n \in bound /\ air' \subseteq air /\ f.from \in LanHost
    BY <1>0, <1>8 DEF HandleHeartbeat, Taken
  <2>2. lanNodes[n][n] = Nobody
    BY <1>0 DEF LanTypeOK
  <2>3. \/ lanNodes' = lanNodes
        \/ f.from # n /\ lanNodes' = [lanNodes EXCEPT ![n][f.from] = [seen |-> lanClock, status |-> "Online"]]
    BY <1>8, <2>2 DEF HandleHeartbeat
  <2> QED
    BY <1>0, <1>8, <2>1, <2>3, HandlerStep, LanConstants DEF HandleHeartbeat
<1>9. ASSUME NEW n \in LanHost, NEW m \in LanHost \ {n}, LanSend(n, m) \/ SendHeartbeat(n, m) PROVE LanInv'
  <2>1. sender' \in [LanHost -> LanHost \cup {Nobody}]
    BY <1>0, <1>9 DEF LanSend, SendHeartbeat
  <2>2. air' \subseteq LanFrame /\ \A f \in air' : f \in air \/ f.type # "DiscoverReply"
    <3> DEFINE b == [type |-> "Heartbeat", from |-> n, to |-> m]
    <3>1. air' \subseteq air \cup Broadcast(n) \cup Data(n, m) \cup {b}
      BY <1>9 DEF LanSend, SendHeartbeat, PutInAir
    <3>2. b \in LanFrame /\ b.type = "Heartbeat"
      BY LanFrames
    <3> HIDE DEF b
    <3> QED
      BY <1>0, <3>1, <3>2, LanFrames
  <2> QED
    BY <1>9, <2>1, <2>2, FramesStep DEF LanSend, SendHeartbeat
<1>10. ASSUME NEW n \in LanHost, SendRetry(n) PROVE LanInv'
  <2>1. sender' \in [LanHost -> LanHost \cup {Nobody}] /\ sender[n] \in LanHost
    BY <1>0, <1>10 DEF SendRetry
  <2>2. air' \subseteq air \cup Data(n, sender[n])
    BY <1>10 DEF SendRetry, PutInAir
  <2>3. air' \subseteq LanFrame /\ \A f \in air' : f \in air \/ f.type # "DiscoverReply"
    BY <1>0, <2>1, <2>2, LanFrames
  <2> QED
    BY <1>10, <2>1, <2>3, FramesStep DEF SendRetry
<1>11. ASSUME NEW n \in LanHost, UpdateNodeStatus(n) PROVE LanInv'
  <2>1. lanNodes \in [LanHost -> [LanHost -> LanEntry \cup {Nobody}]]
    BY <1>0 DEF LanTypeOK
  <2>2. lanNodes' = [lanNodes EXCEPT ![n] = [m \in LanHost |->
          IF lanNodes[n][m] # Nobody /\ ~IsOnline(n, m) THEN [lanNodes[n][m] EXCEPT !.status = "Offline"] ELSE lanNodes[n][m]]]
    BY <1>11 DEF UpdateNodeStatus
  <2>3. \A e \in LanEntry : [e EXCEPT !.status = "Offline"] \in LanEntry /\ [e EXCEPT !.status = "Offline"].seen = e.seen
    BY DEF LanEntry
  <2>4. \A p, q \in LanHost :
           \/ lanNodes'[p][q] = lanNodes[p][q]
           \/ /\ lanNodes[p][q] # Nobody /\ ~IsOnline(p, q)
              /\ lanNodes'[p][q] \in LanEntry /\ lanNodes'[p][q].seen = lanNodes[p][q].seen
    BY <2>1, <2>2, <2>3
  <2>5. lanNodes' \in [LanHost -> [LanHost -> LanEntry \cup {Nobody}]]
    BY <2>1, <2>2, <2>3
  <2>6. UNCHANGED <<bound, reader, sender, air, lanClock, repliedBy>>
    BY <1>11 DEF UpdateNodeStatus
  <2>7. OfflineWasSilent'
    BY <1>0, <2>4, <2>6 DEF OfflineWasSilent, IsOnline
  <2>8. LanTypeOK'
    BY <1>0, <2>4, <2>5, <2>6 DEF LanTypeOK
  <2>9. \A p, q \in LanHost : Knows(p, q) => Knows(p, q)'
    BY <2>4, <2>6, LanConstants DEF Knows
  <2> QED
    BY <1>0, <2>6, <2>7, <2>8, <2>9, AcquaintedKept
<1>12. ASSUME NEW f \in air, LanLose(f) PROVE LanInv'
    BY <1>0, <1>12, FramesStep DEF LanLose
<1>13. CASE LanTick
  <2>1. /\ lanClock' = lanClock + 1 /\ lanClock \in Nat /\ lanClock' \in 0..MaxLanTime
        /\ UNCHANGED <<lanNodes, bound, reader, sender, air, repliedBy>>
    BY <1>0, <1>13, LanConstants DEF LanTick, LanTypeOK
  <2>2. \A x \in Nat : lanClock + 1 - x < OnlineFor => lanClock - x < OnlineFor
    BY <2>1, LanConstants
  <2>3. \A p, q \in LanHost : lanNodes[p][q] # Nobody => lanNodes[p][q].seen \in Nat
    BY <1>0, LanConstants DEF LanTypeOK, LanEntry
  <2>4. \A p, q \in LanHost : IsOnline(p, q)' => IsOnline(p, q)
    BY <2>1, <2>2, <2>3 DEF IsOnline
  <2>5. OfflineWasSilent'
    BY <1>0, <2>1, <2>4 DEF OfflineWasSilent
  <2>6. LanTypeOK'
    BY <1>0, <2>1 DEF LanTypeOK
  <2> QED
    BY <1>0, <2>1, <2>5, <2>6, AcquaintedKept DEF Knows
<1>14. CASE UNCHANGED lanVars
    BY <1>0, <1>14, FramesStep DEF lanVars
<1> QED
    BY <1>1, <1>2, <1>3, <1>4, <1>5, <1>6, <1>7, <1>8, <1>9, <1>10, <1>11, <1>12, <1>13, <1>14 DEF LanNext

\* Discovery is mutual although a node answers before it records whom it answered,
\* and a node marked Offline was not heard for the five seconds.
THEOREM LanTablesSound == LanSpec => []LanTableSound
<1>1. LanInv /\ [LanNext]_lanVars => LanInv'
    BY LanStep
<1>2. LanInv => LanTableSound
    BY DEF LanInv
<1> QED
    BY <1>1, <1>2, LanInitInv, PTL DEF LanSpec

----------------------------------------------------------------------------
(* VpnRouter. *)

Frame == {OtherFrame, BadFrame} \cup {DataFrame(c, k) : c \in Link, k \in Nat} \cup {PongFrame(p) : p \in Pinger}

\* The frames, by kind.
LEMMA FrameKinds ==
    /\ ~IsPong(OtherFrame) /\ ~IsPong(BadFrame) /\ ~IsUserData(OtherFrame) /\ ~IsUserData(BadFrame)
    /\ \A p : IsPong(PongFrame(p)) /\ PongFrame(p).pong = p /\ ~IsUserData(PongFrame(p))
    /\ \A c, k : ~IsPong(DataFrame(c, k)) /\ IsUserData(DataFrame(c, k))
                 /\ DataFrame(c, k).conn = c /\ DataFrame(c, k).no = k
    /\ \A f \in Frame : IsUserData(f) => f.conn \in Link /\ f.no \in Nat
<1>1. ~IsPong(OtherFrame) /\ ~IsPong(BadFrame) /\ ~IsUserData(OtherFrame) /\ ~IsUserData(BadFrame)
    BY DEF IsPong, IsUserData, OtherFrame, BadFrame
<1>2. \A p : IsPong(PongFrame(p)) /\ PongFrame(p).pong = p /\ ~IsUserData(PongFrame(p))
    BY DEF IsPong, IsUserData, PongFrame
<1>3. \A c, k : ~IsPong(DataFrame(c, k)) /\ IsUserData(DataFrame(c, k))
                /\ DataFrame(c, k).conn = c /\ DataFrame(c, k).no = k
    BY DEF IsPong, IsUserData, DataFrame
<1>4. \A f \in Frame : IsUserData(f) => f.conn \in Link /\ f.no \in Nat
  <2> SUFFICES ASSUME NEW f \in Frame, IsUserData(f) PROVE f.conn \in Link /\ f.no \in Nat
    OBVIOUS
  <2>1. f \notin {OtherFrame, BadFrame} /\ f \notin {PongFrame(p) : p \in Pinger}
    BY <1>1, <1>2
  <2>2. PICK c \in Link, k \in Nat : f = DataFrame(c, k)
    BY <2>1 DEF Frame
  <2> QED
    BY <1>3, <2>2
<1> QED
    BY <1>1, <1>2, <1>3, <1>4

\* f came before g, if both are data of one connection.
Later(f, g) == IsUserData(f) /\ IsUserData(g) /\ f.conn = g.conn => f.no < g.no
Apart(f, g) == IsUserData(f) /\ IsUserData(g) /\ f.conn = g.conn => f.no # g.no
Rising(s) == \A i, j \in 1..Len(s) : i < j => Later(s[i], s[j])
Spread(s) == \A i, j \in 1..Len(s) : i # j => Apart(s[i], s[j])

\* A frame at the end of a queue.
LEMMA QueueAppend ==
    ASSUME NEW S, NEW s \in Seq(S), NEW x \in S
    PROVE  /\ Append(s, x) \in Seq(S) /\ ToSet(Append(s, x)) = ToSet(s) \cup {x}
           /\ Rising(s) /\ (\A f \in ToSet(s) : Later(f, x)) => Rising(Append(s, x))
           /\ Spread(s) /\ (\A f \in ToSet(s) : Apart(f, x)) => Spread(Append(s, x))
<1> DEFINE n == Len(s)
           t == Append(s, x)
<1>1. /\ n \in Nat /\ t \in Seq(S) /\ Len(t) = n + 1 /\ t[n + 1] = x /\ \A i \in 1..n : t[i] = s[i]
      /\ DOMAIN s = 1..n /\ DOMAIN t = 1..n + 1
    OBVIOUS
<1>2. 1..n + 1 = 1..n \cup {n + 1} /\ \A i \in 1..n : i < n + 1 /\ i # n + 1
    BY <1>1
<1> HIDE DEF n, t
<1>3. ToSet(t) = ToSet(s) \cup {x}
    BY <1>1, <1>2 DEF ToSet
<1>4. \A i \in 1..n : s[i] \in ToSet(s)
    BY <1>1 DEF ToSet
<1>5. ASSUME Rising(s), \A f \in ToSet(s) : Later(f, x) PROVE Rising(t)
  <2> SUFFICES ASSUME NEW i \in 1..Len(t), NEW j \in 1..Len(t), i < j PROVE Later(t[i], t[j])
    BY DEF Rising
  <2>1. i \in 1..n /\ (j \in 1..n \/ j = n + 1)
    BY <1>1, <1>2
  <2>2. Len(s) = n
    BY DEF n
  <2> QED
    BY <1>1, <1>4, <1>5, <2>1, <2>2 DEF Rising
<1>6. ASSUME Spread(s), \A f \in ToSet(s) : Apart(f, x) PROVE Spread(t)
  <2> SUFFICES ASSUME NEW i \in 1..Len(t), NEW j \in 1..Len(t), i # j PROVE Apart(t[i], t[j])
    BY DEF Spread
  <2>1. (i \in 1..n \/ i = n + 1) /\ (j \in 1..n \/ j = n + 1)
    BY <1>1, <1>2
  <2>2. Len(s) = n
    BY DEF n
  <2>3. \A f \in ToSet(s) : Apart(x, f)
    BY <1>6 DEF Apart
  <2> QED
    BY <1>1, <1>4, <1>6, <2>1, <2>2, <2>3 DEF Spread
<1> QED
    BY <1>1, <1>3, <1>5, <1>6 DEF t

\* The queue without its first frame.
LEMMA QueueTail ==
    ASSUME NEW S, NEW s \in Seq(S), s # <<>>
    PROVE  /\ Tail(s) \in Seq(S) /\ Head(s) \in S /\ Head(s) \in ToSet(s) /\ ToSet(Tail(s)) \subseteq ToSet(s)
           /\ Rising(s) => Rising(Tail(s)) /\ \A g \in ToSet(Tail(s)) : Later(Head(s), g)
<1> DEFINE n == Len(s)
           t == Tail(s)
<1>1. /\ n \in Nat \ {0} /\ t \in Seq(S) /\ Len(t) = n - 1 /\ \A i \in 1..n - 1 : t[i] = s[i + 1]
      /\ Head(s) = s[1] /\ Head(s) \in S /\ DOMAIN s = 1..n /\ DOMAIN t = 1..n - 1
    OBVIOUS
<1> HIDE DEF n, t
<1>2. /\ 1 \in 1..n /\ \A i \in 1..n - 1 : i + 1 \in 1..n /\ 1 < i + 1
      /\ \A i, j \in 1..n - 1 : i < j => i + 1 < j + 1
    BY <1>1
<1>3. Head(s) \in ToSet(s) /\ ToSet(t) \subseteq ToSet(s)
    BY <1>1, <1>2 DEF ToSet
<1>4. ASSUME Rising(s) PROVE Rising(t) /\ \A g \in ToSet(t) : Later(Head(s), g)
  <2>1. \A i, j \in 1..n : i < j => Later(s[i], s[j])
    BY <1>4 DEF Rising, n
  <2>2. \A i, j \in 1..n - 1 : i < j => Later(t[i], t[j])
    BY <1>1, <1>2, <2>1
  <2>3. \A i \in 1..n - 1 : Later(Head(s), t[i])
    BY <1>1, <1>2, <2>1
  <2> QED
    BY <1>1, <2>2, <2>3 DEF Rising, ToSet
<1> QED
    BY <1>1, <1>3, <1>4 DEF t

\* A queue with nothing in it.
LEMMA QueueEmpty ==
    /\ ToSet(<<>>) = {} /\ Rising(<<>>) /\ Spread(<<>>) /\ \A S : <<>> \in Seq(S)
BY DEF ToSet, Rising, Spread

\* The queues hold frames, and the maps have their domains.
RouterTyped ==
    /\ wire \in [Link -> Seq(Frame)] /\ received \in Seq(Frame) /\ batch \in [Loop -> Seq(Frame)]
    /\ heard \in Seq(Frame)
    /\ loop \in [Loop -> {"none", "poll", "busy"}] /\ doubled \in BOOLEAN
    /\ sentBy \in [Link -> Nat]
    /\ pingState \in [Pinger -> {"idle", "listening", "waiting", "lan", "ok", "timeout", "failed"}]
    /\ target \in [Pinger -> VpnTarget \cup {NoTarget}] /\ channel \in [Pinger -> BOOLEAN]

\* What a PONG proves: it was written for a PING that left, for a node whose
\* address is known, wherever the PONG is now.
PongInv ==
    /\ \A f \in ToSet(received) : IsPong(f) => f.pong \in answered
    /\ \A c \in Link : \A f \in ToSet(wire[c]) : IsPong(f) => f.pong \in answered
    /\ \A l \in Loop : \A f \in ToSet(batch[l]) : IsPong(f) => f.pong \in answered
    /\ answered \subseteq pinged
    /\ \A p \in pinged : p \in Pinger /\ pingState[p] # "idle" /\ target[p] \in knownAddr
    /\ \A p \in Pinger : channel[p] => p \in answered
    /\ PongIsOwn

\* s holds nothing that its connection has yet to write.
Old(s) == \A f \in ToSet(s) : IsUserData(f) => f.no <= sentBy[f.conn]
Before(s, t) == \A f \in ToSet(s), g \in ToSet(t) : Later(f, g)
Disjoint(s, t) == \A f \in ToSet(s), g \in ToSet(t) : Apart(f, g)

\* Data moves from the connections to the queue, from there to a batch and to the
\* listener: what is further on was written earlier.  Two batches, and a batch
\* and what was heard, have nothing in common, and with one loop they are in order.
HeardInv ==
    /\ \A c \in Link : Rising(wire[c]) /\ Old(wire[c]) /\ \A f \in ToSet(wire[c]) : IsUserData(f) => f.conn = c
    /\ Rising(received) /\ Old(received) /\ \A c \in Link : Before(received, wire[c])
    /\ \A l \in Loop : /\ Rising(batch[l]) /\ Old(batch[l]) /\ Before(batch[l], received)
                       /\ \A c \in Link : Before(batch[l], wire[c])
                       /\ \A k \in Loop \ {l} : Disjoint(batch[l], batch[k])
                       /\ batch[l] # <<>> => loop[l] = "busy"
    /\ (\A f \in ToSet(heard) : IsUserData(f)) /\ Spread(heard) /\ Old(heard) /\ Before(heard, received)
    /\ \A c \in Link : Before(heard, wire[c])
    /\ \A l \in Loop : Disjoint(heard, batch[l])
    /\ ~doubled => /\ Rising(heard) /\ \A l \in Loop : Before(heard, batch[l])
                   /\ \A l, k \in Loop : loop[l] # "none" /\ loop[k] # "none" => l = k

VrInv == RouterTyped /\ PongInv /\ HeardInv

\* What is later is something else.
LEMMA LaterApart ==
    ASSUME NEW f \in Frame, NEW g \in Frame, Later(f, g)
    PROVE  Apart(f, g) /\ Apart(g, f)
<1>1. IsUserData(f) => f.no \in Nat
    BY FrameKinds
<1>2. IsUserData(g) => g.no \in Nat
    BY FrameKinds
<1> QED
    BY <1>1, <1>2 DEF Later, Apart

\* They hold at first.
LEMMA VrInitInv == VrInit => VrInv
<1> SUFFICES ASSUME VrInit PROVE RouterTyped /\ PongInv /\ HeardInv
    BY DEF VrInv
<1>1. /\ wire = [c \in Link |-> <<>>] /\ received = <<>> /\ batch = [l \in Loop |-> <<>>] /\ heard = <<>>
      /\ loop = [l \in Loop |-> "none"] /\ sentBy = [c \in Link |-> 0] /\ doubled = FALSE
      /\ pingState = [p \in Pinger |-> "idle"] /\ target = [p \in Pinger |-> NoTarget]
      /\ channel = [p \in Pinger |-> FALSE] /\ pinged = {} /\ answered = {}
    BY DEF VrInit
<1>2. RouterTyped
    BY <1>1, QueueEmpty DEF RouterTyped
<1>3. PongInv
    BY <1>1, QueueEmpty DEF PongInv, PongIsOwn
<1>4. HeardInv
  <2>1. \A c \in Link : wire[c] = <<>>
    BY <1>1
  <2>2. \A l \in Loop : batch[l] = <<>> /\ loop[l] = "none"
    BY <1>1
  <2> QED
    BY <1>1, <2>1, <2>2, QueueEmpty DEF HeardInv, Old, Before, Disjoint
<1> QED
    BY <1>2, <1>3, <1>4

\* Steps that touch no queue.
LEMMA QuietRouterStep ==
    ASSUME VrInv, UNCHANGED <<wire, received, batch, heard, sentBy, answered, channel>>
    PROVE  /\ UNCHANGED <<loop, doubled>> => HeardInv'
           /\ \A c \in Link : \A f \in ToSet(wire'[c]) : IsPong(f) => f.pong \in answered'
           /\ \A f \in ToSet(received') : IsPong(f) => f.pong \in answered'
           /\ \A l \in Loop : \A f \in ToSet(batch'[l]) : IsPong(f) => f.pong \in answered'
           /\ \A p \in Pinger : channel'[p] => p \in answered'
BY DEF VrInv, HeardInv, PongInv, Old, Before, Disjoint

\* start
LEMMA StartStep ==
    ASSUME VrInv, Start
    PROVE  VrInv'
<1>0. RouterTyped /\ PongInv /\ HeardInv /\ UNCHANGED <<wire, received, batch, heard, pingVars, sendVars, peerVars>>
    BY DEF VrInv, Start
<1>1. PICK l \in Loop : loop[l] = "none" /\ loop' = [loop EXCEPT ![l] = "poll"]
    BY DEF Start
<1>2. doubled' = (doubled \/ \E k \in Loop : loop[k] # "none")
    BY DEF Start
<1>3. loop \in [Loop -> {"none", "poll", "busy"}] /\ doubled \in BOOLEAN
    BY <1>0 DEF RouterTyped
<1>4. loop' \in [Loop -> {"none", "poll", "busy"}] /\ doubled' \in BOOLEAN /\ \A k \in Loop : k # l => loop'[k] = loop[k]
    BY <1>1, <1>2, <1>3
<1>5. RouterTyped'
    BY <1>0, <1>4 DEF RouterTyped, pingVars, peerVars
<1>6. PongInv'
    BY <1>0 DEF PongInv, PongIsOwn, pingVars, sendVars, peerVars
<1>7. \A k \in Loop : batch[k] # <<>> => loop'[k] = "busy"
    BY <1>0, <1>1, <1>4 DEF HeardInv
<1>8. ~doubled' => ~doubled /\ \A j, k \in Loop : loop'[j] # "none" /\ loop'[k] # "none" => j = k
    BY <1>2, <1>4
<1>9. HeardInv'
    BY <1>0, <1>7, <1>8 DEF HeardInv, Old, Before, Disjoint, peerVars
<1> QED
    BY <1>5, <1>6, <1>9 DEF VrInv

\* A connection's thread reads its next frame into the queue, or closes.
LEMMA ReadStep ==
    ASSUME VrInv, NEW c \in Link, ReadMessage(c)
    PROVE  VrInv'
<1> DEFINE x == Head(wire[c])
<1>0. RouterTyped /\ PongInv /\ HeardInv
      /\ UNCHANGED <<loop, batch, doubled, heard, pingState, target, channel, pinged, knownAddr, sentBy, answered>>
    BY DEF VrInv, ReadMessage, loopVars, pingVars, sendVars, peerVars
<1>1. /\ wire \in [Link -> Seq(Frame)] /\ received \in Seq(Frame) /\ wire[c] \in Seq(Frame) /\ wire[c] # <<>>
    BY <1>0 DEF RouterTyped, ReadMessage
<1>2. PICK q \in Seq(Frame) :
        /\ wire' = [wire EXCEPT ![c] = q] /\ ToSet(q) \subseteq ToSet(wire[c]) /\ Rising(q)
        /\ \/ received' = received
           \/ received' = Append(received, x) /\ x \in Frame /\ x \in ToSet(wire[c]) /\ \A g \in ToSet(q) : Later(x, g)
  <2>1. Rising(wire[c])
    BY <1>0 DEF HeardInv
  <2>2. /\ Tail(wire[c]) \in Seq(Frame) /\ x \in Frame /\ x \in ToSet(wire[c]) /\ ToSet(Tail(wire[c])) \subseteq ToSet(wire[c])
        /\ Rising(Tail(wire[c])) /\ \A g \in ToSet(Tail(wire[c])) : Later(x, g)
    BY <1>1, <2>1, QueueTail
  <2>3. CASE x.type = "Bad"
    <3>1. wire' = [wire EXCEPT ![c] = <<>>] /\ received' = received
      BY <2>3 DEF ReadMessage
    <3> QED
      BY <3>1, QueueEmpty
  <2>4. CASE x.type # "Bad"
    <3>1. wire' = [wire EXCEPT ![c] = Tail(wire[c])] /\ received' = Append(received, x)
      BY <2>4 DEF ReadMessage
    <3> QED
      BY <2>2, <3>1
  <2> QED
    BY <2>3, <2>4
<1> HIDE DEF x
<1>3. wire' \in [Link -> Seq(Frame)] /\ wire'[c] = q /\ \A d \in Link : d # c => wire'[d] = wire[d]
    BY <1>1, <1>2
<1>4. /\ received' \in Seq(Frame) /\ \A f \in ToSet(received') : f \in ToSet(received) \/ f \in ToSet(wire[c])
  <2>1. CASE received' = received
    BY <1>1, <2>1
  <2>2. CASE received' = Append(received, x) /\ x \in Frame /\ x \in ToSet(wire[c])
    BY <1>1, <2>2, QueueAppend
  <2> QED
    BY <1>2, <2>1, <2>2
<1>5. RouterTyped'
    BY <1>0, <1>3, <1>4 DEF RouterTyped
<1>6. \A d \in Link : ToSet(wire'[d]) \subseteq ToSet(wire[d]) /\ Rising(wire'[d])
    BY <1>0, <1>2, <1>3 DEF HeardInv
<1>7. PongInv'
  <2>1. \A d \in Link : \A f \in ToSet(wire'[d]) : IsPong(f) => f.pong \in answered'
    BY <1>0, <1>6 DEF PongInv
  <2>2. \A f \in ToSet(received') : IsPong(f) => f.pong \in answered'
    BY <1>0, <1>4 DEF PongInv
  <2> QED
    BY <1>0, <2>1, <2>2 DEF PongInv, PongIsOwn
<1>8. /\ Rising(received') /\ Old(received)' /\ \A d \in Link : Before(received, wire[d])'
  <2>1. CASE received' = received
    BY <1>0, <1>6, <2>1 DEF HeardInv, Old, Before
  <2>2. CASE received' = Append(received, x) /\ x \in Frame /\ x \in ToSet(wire[c]) /\ \A g \in ToSet(q) : Later(x, g)
    <3>1. \A f \in ToSet(received) : Later(f, x)
      BY <1>0, <2>2 DEF HeardInv, Before
    <3>2. Rising(received') /\ ToSet(received') = ToSet(received) \cup {x}
      BY <1>0, <1>1, <2>2, <3>1, QueueAppend DEF HeardInv
    <3>3. Old(received)'
      BY <1>0, <2>2, <3>2 DEF HeardInv, Old
    <3>4. ASSUME NEW d \in Link, NEW g \in ToSet(wire'[d]) PROVE Later(x, g)
      <4>1. CASE d = c
        BY <1>3, <2>2, <3>4, <4>1
      <4>2. CASE d # c
        BY <1>0, <1>3, <2>2, <3>4, <4>2 DEF HeardInv, Later
      <4> QED
        BY <4>1, <4>2
    <3>5. \A d \in Link : Before(received, wire[d])'
      BY <1>0, <1>6, <3>2, <3>4 DEF HeardInv, Before
    <3> QED
      BY <3>2, <3>3, <3>5
  <2> QED
    BY <1>2, <2>1, <2>2
<1>9. HeardInv'
  <2>1. \A d \in Link : Rising(wire'[d]) /\ Old(wire[d])' /\ \A f \in ToSet(wire'[d]) : IsUserData(f) => f.conn = d
    BY <1>0, <1>6 DEF HeardInv, Old
  <2>2. \A l \in Loop : /\ Rising(batch'[l]) /\ Old(batch[l])' /\ Before(batch[l], received)'
                        /\ \A d \in Link : Before(batch[l], wire[d])'
                        /\ \A k \in Loop \ {l} : Disjoint(batch[l], batch[k])'
                        /\ batch'[l] # <<>> => loop'[l] = "busy"
    BY <1>0, <1>4, <1>6, ZenonT(40) DEF HeardInv, Old, Before, Disjoint
  <2>3. /\ (\A f \in ToSet(heard') : IsUserData(f)) /\ Spread(heard') /\ Old(heard)' /\ Before(heard, received)'
        /\ \A d \in Link : Before(heard, wire[d])'
        /\ \A l \in Loop : Disjoint(heard, batch[l])'
    BY <1>0, <1>4, <1>6 DEF HeardInv, Old, Before, Disjoint
  <2>4. ~doubled' => /\ Rising(heard') /\ \A l \in Loop : Before(heard, batch[l])'
                     /\ \A l, k \in Loop : loop'[l] # "none" /\ loop'[k] # "none" => l = k
    BY <1>0 DEF HeardInv, Before
  <2> QED
    BY <1>8, <2>1, <2>2, <2>3, <2>4 DEF HeardInv
<1> QED
    BY <1>5, <1>7, <1>9 DEF VrInv

\* A peer writes a frame.
LEMMA WriteStep ==
    ASSUME VrInv, NEW c \in Link, NEW f \in Frame, PeerWrite(c, f), ~IsUserData(f) \/ f = DataFrame(c, sentBy[c] + 1)
    PROVE  VrInv'
<1>0. RouterTyped /\ PongInv /\ HeardInv
      /\ UNCHANGED <<loop, batch, doubled, heard, received, pingState, target, channel, pinged, knownAddr>>
    BY DEF VrInv, PeerWrite, loopVars, pingVars, sendVars
<1>1. /\ wire \in [Link -> Seq(Frame)] /\ wire[c] \in Seq(Frame) /\ sentBy \in [Link -> Nat] /\ sentBy[c] \in Nat
      /\ Rising(wire[c])
    BY <1>0 DEF RouterTyped, HeardInv
<1>2. wire' = [wire EXCEPT ![c] = Append(wire[c], f)]
    BY DEF PeerWrite
<1>3. /\ IsUserData(f) => f.conn = c /\ f.no = sentBy[c] + 1 /\ ~IsPong(f)
      /\ IsUserData(f) => sentBy' = [sentBy EXCEPT ![c] = sentBy[c] + 1]
      /\ ~IsUserData(f) => sentBy' = sentBy
      /\ answered' = answered \/ (IsPong(f) /\ f.pong \in pinged /\ answered' = answered \cup {f.pong})
      /\ IsPong(f) => f.pong \in answered'
  <2>1. IsUserData(f) => f = DataFrame(c, sentBy[c] + 1) /\ f.conn = c /\ f.no = sentBy[c] + 1 /\ ~IsPong(f)
    BY FrameKinds
  <2>2. IsUserData(DataFrame(c, sentBy[c] + 1)) /\ ~IsPong(DataFrame(c, sentBy[c] + 1))
    BY FrameKinds
  <2>3. f \in {OtherFrame, BadFrame} => ~IsPong(f) /\ ~IsUserData(f)
    BY FrameKinds
  <2> QED
    BY <2>1, <2>2, <2>3 DEF PeerWrite
<1>4. /\ sentBy' \in [Link -> Nat] /\ \A d \in Link : sentBy'[d] >= sentBy[d] /\ sentBy[d] \in Nat /\ sentBy'[d] \in Nat
      /\ IsUserData(f) => sentBy'[c] = sentBy[c] + 1
  <2>1. CASE sentBy' = sentBy /\ ~IsUserData(f)
    <3>1. \A n \in Nat : n >= n
      OBVIOUS
    <3> QED
      BY <1>1, <2>1, <3>1
  <2>2. CASE sentBy' = [sentBy EXCEPT ![c] = sentBy[c] + 1]
    <3>1. \A n \in Nat : n >= n /\ n + 1 >= n /\ n + 1 \in Nat
      OBVIOUS
    <3>2. \A d \in Link : sentBy'[d] = IF d = c THEN sentBy[d] + 1 ELSE sentBy[d]
      BY <1>1, <2>2
    <3>3. sentBy' \in [Link -> Nat]
      BY <1>1, <2>2, <3>1
    <3> QED
      BY <1>1, <3>1, <3>2, <3>3
  <2> QED
    BY <1>3, <2>1, <2>2
<1>5. /\ Append(wire[c], f) \in Seq(Frame) /\ ToSet(Append(wire[c], f)) = ToSet(wire[c]) \cup {f}
      /\ (\A g \in ToSet(wire[c]) : Later(g, f)) => Rising(Append(wire[c], f))
    BY <1>1, QueueAppend
<1>6. /\ wire' \in [Link -> Seq(Frame)]
      /\ ToSet(wire'[c]) = ToSet(wire[c]) \cup {f} /\ \A d \in Link : d # c => wire'[d] = wire[d]
      /\ (\A g \in ToSet(wire[c]) : Later(g, f)) => Rising(wire'[c])
    BY <1>1, <1>2, <1>5
<1>7. \A s \in Seq(Frame) : ToSet(s) \subseteq Frame
    BY DEF ToSet
<1>8. ASSUME NEW s \in Seq(Frame), Old(s) PROVE (\A g \in ToSet(s) : Later(g, f)) /\ \A g \in ToSet(s) : IsUserData(g) => g.no <= sentBy'[g.conn]
  <2>1. \A g \in ToSet(s) : IsUserData(g) => g.conn \in Link /\ g.no \in Nat /\ g.no <= sentBy[g.conn]
    BY <1>7, <1>8, FrameKinds DEF Old
  <2>2. \A g \in ToSet(s) : IsUserData(g) /\ IsUserData(f) /\ g.conn = c => g.no < f.no
    BY <1>1, <1>3, <2>1
  <2>3. \A g \in ToSet(s) : IsUserData(g) => g.no <= sentBy'[g.conn]
    BY <1>4, <2>1
  <2> QED
    BY <1>3, <2>2, <2>3 DEF Later
<1>9. /\ \A d \in Link : wire[d] \in Seq(Frame) /\ Old(wire[d])
      /\ \A l \in Loop : batch[l] \in Seq(Frame) /\ Old(batch[l])
      /\ received \in Seq(Frame) /\ Old(received) /\ heard \in Seq(Frame) /\ Old(heard)
    BY <1>0 DEF RouterTyped, HeardInv
<1>10. RouterTyped'
    BY <1>0, <1>4, <1>6 DEF RouterTyped
<1>11. PongInv'
  <2>1. answered \subseteq answered' /\ answered' \subseteq pinged
    BY <1>0, <1>3 DEF PongInv
  <2>2. \A d \in Link : \A g \in ToSet(wire'[d]) : IsPong(g) => g.pong \in answered'
    BY <1>0, <1>3, <1>6, <2>1 DEF PongInv
  <2> QED
    BY <1>0, <2>1, <2>2 DEF PongInv, PongIsOwn
<1>12. HeardInv'
  <2>1. \A d \in Link : Rising(wire'[d]) /\ Old(wire[d])' /\ \A g \in ToSet(wire'[d]) : IsUserData(g) => g.conn = d
    <3>1. ASSUME NEW d \in Link, d # c PROVE Rising(wire'[d]) /\ Old(wire[d])' /\ \A g \in ToSet(wire'[d]) : IsUserData(g) => g.conn = d
      BY <1>0, <1>6, <1>8, <1>9, <3>1 DEF HeardInv, Old
    <3>2. Rising(wire'[c])
      BY <1>6, <1>8, <1>9
    <3>3. IsUserData(f) => f.no <= sentBy'[f.conn]
      BY <1>1, <1>3, <1>4
    <3>4. Old(wire[c])'
      BY <1>6, <1>8, <1>9, <3>3 DEF Old
    <3>5. \A g \in ToSet(wire'[c]) : IsUserData(g) => g.conn = c
      BY <1>0, <1>3, <1>6 DEF HeardInv
    <3> QED
      BY <3>1, <3>2, <3>4, <3>5
  <2>2. \A s \in Seq(Frame) : Old(s) /\ (\A d \in Link : Before(s, wire[d])) =>
           \A d \in Link : \A e \in ToSet(s), g \in ToSet(wire'[d]) : Later(e, g)
    BY <1>6, <1>8 DEF Before
  <2>3. Rising(received') /\ Old(received)' /\ \A d \in Link : Before(received, wire[d])'
    BY <1>0, <1>8, <1>9, <2>2 DEF HeardInv, Old, Before
  <2>4. \A l \in Loop : /\ Rising(batch'[l]) /\ Old(batch[l])' /\ Before(batch[l], received)'
                        /\ \A d \in Link : Before(batch[l], wire[d])'
    BY <1>0, <1>8, <1>9, <2>2 DEF HeardInv, Old, Before
  <2>5. \A l \in Loop : /\ \A k \in Loop \ {l} : Disjoint(batch[l], batch[k])'
                        /\ batch'[l] # <<>> => loop'[l] = "busy"
    BY <1>0 DEF HeardInv, Disjoint
  <2>6. /\ (\A g \in ToSet(heard') : IsUserData(g)) /\ Spread(heard') /\ Old(heard)' /\ Before(heard, received)'
        /\ \A d \in Link : Before(heard, wire[d])'
    BY <1>0, <1>8, <1>9, <2>2 DEF HeardInv, Old, Before
  <2>7. \A l \in Loop : Disjoint(heard, batch[l])'
    BY <1>0 DEF HeardInv, Disjoint
  <2>8. ~doubled' => /\ Rising(heard') /\ \A l \in Loop : Before(heard, batch[l])'
                     /\ \A l, k \in Loop : loop'[l] # "none" /\ loop'[k] # "none" => l = k
    BY <1>0 DEF HeardInv, Before
  <2> QED
    BY <2>1, <2>3, <2>4, <2>5, <2>6, <2>7, <2>8 DEF HeardInv
<1> QED
    BY <1>10, <1>11, <1>12 DEF VrInv

\* A loop takes everything received as its batch, or ends.
LEMMA PollStep ==
    ASSUME VrInv, NEW l \in Loop, Poll(l)
    PROVE  VrInv'
<1>0. RouterTyped /\ PongInv /\ HeardInv
      /\ UNCHANGED <<wire, doubled, heard, pingState, target, channel, pinged, knownAddr, sentBy, answered>>
    BY DEF VrInv, Poll, serverVars, pingVars, sendVars, peerVars
<1>1. /\ loop \in [Loop -> {"none", "poll", "busy"}] /\ batch \in [Loop -> Seq(Frame)] /\ received \in Seq(Frame)
      /\ loop[l] = "poll" /\ batch[l] = <<>>
    BY <1>0 DEF RouterTyped, HeardInv, Poll
<1>2. CASE vpnRunning
  <2>1. loop' = [loop EXCEPT ![l] = "busy"] /\ batch' = [batch EXCEPT ![l] = received] /\ received' = <<>>
    BY <1>2 DEF Poll
  <2>2. /\ loop' \in [Loop -> {"none", "poll", "busy"}] /\ loop'[l] = "busy" /\ \A k \in Loop : k # l => loop'[k] = loop[k]
        /\ batch' \in [Loop -> Seq(Frame)] /\ batch'[l] = received /\ \A k \in Loop : k # l => batch'[k] = batch[k]
        /\ ToSet(received') = {} /\ Rising(received') /\ received' \in Seq(Frame)
    BY <1>1, <2>1, QueueEmpty
  <2>3. RouterTyped'
    BY <1>0, <2>2 DEF RouterTyped
  <2>4. PongInv'
    BY <1>0, <2>2 DEF PongInv, PongIsOwn
  <2>5. \A k \in Loop : /\ Rising(batch'[k]) /\ Old(batch[k])' /\ Before(batch[k], received)'
                        /\ \A c \in Link : Before(batch[k], wire[c])'
                        /\ batch'[k] # <<>> => loop'[k] = "busy"
    BY <1>0, <2>2 DEF HeardInv, Old, Before
  <2>6. \A s \in Seq(Frame) : ToSet(s) \subseteq Frame
    BY DEF ToSet
  <2>7. \A k \in Loop : k # l => Disjoint(batch[k], received) /\ Disjoint(received, batch[k])
    BY <1>0, <1>1, <2>6, LaterApart DEF HeardInv, Disjoint, Before
  <2>8. \A k \in Loop : \A j \in Loop \ {k} : Disjoint(batch[k], batch[j])'
    BY <1>0, <2>2, <2>7 DEF HeardInv, Disjoint
  <2>9. heard \in Seq(Frame) /\ Before(heard, received)
    BY <1>0 DEF RouterTyped, HeardInv
  <2>10. Disjoint(heard, received)
    BY <1>1, <2>6, <2>9, LaterApart DEF Disjoint, Before
  <2>11. \A k \in Loop : Disjoint(heard, batch[k])'
    BY <1>0, <2>2, <2>10 DEF HeardInv, Disjoint
  <2>12. ~doubled' => /\ Rising(heard') /\ \A k \in Loop : Before(heard, batch[k])'
                      /\ \A j, k \in Loop : loop'[j] # "none" /\ loop'[k] # "none" => j = k
    BY <1>0, <1>1, <2>2, <2>9 DEF HeardInv, Before
  <2>13. HeardInv'
    BY <1>0, <2>2, <2>5, <2>8, <2>11, <2>12 DEF HeardInv, Old, Before
  <2> QED
    BY <2>3, <2>4, <2>13 DEF VrInv
<1>3. CASE ~vpnRunning
  <2>1. loop' = [loop EXCEPT ![l] = "none"] /\ UNCHANGED <<batch, received>>
    BY <1>3 DEF Poll
  <2>2. loop' \in [Loop -> {"none", "poll", "busy"}] /\ loop'[l] = "none" /\ \A k \in Loop : k # l => loop'[k] = loop[k]
    BY <1>1, <2>1
  <2>3. RouterTyped' /\ PongInv'
    BY <1>0, <2>1, <2>2 DEF RouterTyped, PongInv, PongIsOwn
  <2>4. \A k \in Loop : batch'[k] # <<>> => loop'[k] = "busy"
    BY <1>0, <1>1, <2>1, <2>2 DEF HeardInv
  <2>5. HeardInv'
    BY <1>0, <2>1, <2>2, <2>4 DEF HeardInv, Old, Before, Disjoint
  <2> QED
    BY <2>3, <2>5 DEF VrInv
<1> QED
    BY <1>2, <1>3

\* A loop hands the next frame of its batch to the listeners.
LEMMA DispatchStep ==
    ASSUME VrInv, NEW l \in Loop, Dispatch(l)
    PROVE  VrInv'
<1> DEFINE x == Head(batch[l])
<1>0. RouterTyped /\ PongInv /\ HeardInv
      /\ UNCHANGED <<wire, received, loop, doubled, pingState, target, pinged, knownAddr, sentBy, answered>>
    BY DEF VrInv, Dispatch, serverVars, sendVars, peerVars
<1>1. /\ batch \in [Loop -> Seq(Frame)] /\ batch[l] \in Seq(Frame) /\ batch[l] # <<>> /\ heard \in Seq(Frame)
      /\ batch' = [batch EXCEPT ![l] = Tail(batch[l])] /\ loop[l] = "busy"
    BY <1>0 DEF RouterTyped, Dispatch
<1>2. Rising(batch[l])
    BY <1>0 DEF HeardInv
<1>3. /\ Tail(batch[l]) \in Seq(Frame) /\ x \in Frame /\ x \in ToSet(batch[l])
      /\ ToSet(Tail(batch[l])) \subseteq ToSet(batch[l])
      /\ Rising(Tail(batch[l])) /\ \A g \in ToSet(Tail(batch[l])) : Later(x, g)
    BY <1>1, <1>2, QueueTail
<1>4. heard' = heard \/ (IsUserData(x) /\ heard' = Append(heard, x))
    BY DEF Dispatch
<1>5. channel' \in [Pinger -> BOOLEAN] /\ \A p \in Pinger : channel'[p] => channel[p] \/ (IsPong(x) /\ x.pong = p)
    BY <1>0, Zenon DEF Dispatch, Hits
<1> HIDE DEF x
<1>6. /\ batch' \in [Loop -> Seq(Frame)] /\ ToSet(batch'[l]) \subseteq ToSet(batch[l]) /\ Rising(batch'[l])
      /\ \A g \in ToSet(batch'[l]) : Later(x, g)
      /\ \A k \in Loop : k # l => batch'[k] = batch[k]
    BY <1>1, <1>3
<1>7. \A k \in Loop : ToSet(batch'[k]) \subseteq ToSet(batch[k]) /\ Rising(batch'[k])
    BY <1>0, <1>6 DEF HeardInv
<1>8. heard' \in Seq(Frame) /\ \A f \in ToSet(heard') : f \in ToSet(heard) \/ (f = x /\ IsUserData(x))
  <2>1. CASE heard' = heard
    BY <1>1, <2>1
  <2>2. CASE IsUserData(x) /\ heard' = Append(heard, x)
    BY <1>1, <1>3, <2>2, QueueAppend
  <2> QED
    BY <1>4, <2>1, <2>2
<1>9. RouterTyped'
    BY <1>0, <1>5, <1>6, <1>8 DEF RouterTyped
<1>10. PongInv'
  <2>1. \A k \in Loop : \A f \in ToSet(batch'[k]) : IsPong(f) => f.pong \in answered'
    BY <1>0, <1>7 DEF PongInv
  <2>2. \A p \in Pinger : channel'[p] => p \in answered'
    BY <1>0, <1>3, <1>5 DEF PongInv
  <2> QED
    BY <1>0, <2>1, <2>2 DEF PongInv, PongIsOwn
<1>11. HeardInv'
  <2>1. \A s \in Seq(Frame) : ToSet(s) \subseteq Frame
    BY DEF ToSet
  <2>2. \A k \in Loop : /\ Rising(batch'[k]) /\ Old(batch[k])' /\ Before(batch[k], received)'
                        /\ \A c \in Link : Before(batch[k], wire[c])'
                        /\ \A j \in Loop \ {k} : Disjoint(batch[k], batch[j])'
    <3>1. \A k \in Loop : Old(batch[k])' /\ Before(batch[k], received)' /\ \A c \in Link : Before(batch[k], wire[c])'
      BY <1>0, <1>7 DEF HeardInv, Old, Before
    <3>2. \A k \in Loop : \A j \in Loop \ {k} : Disjoint(batch[k], batch[j])
      BY <1>0 DEF HeardInv
    <3>3. \A k \in Loop : \A j \in Loop \ {k} : Disjoint(batch[k], batch[j])'
      BY <1>7, <3>2 DEF Disjoint
    <3> QED
      BY <1>7, <3>1, <3>3
  <2>3. \A k \in Loop : batch'[k] # <<>> => loop'[k] = "busy"
    BY <1>0, <1>1, <1>6 DEF HeardInv
  <2>4. /\ (\A f \in ToSet(heard') : IsUserData(f)) /\ Old(heard)' /\ Before(heard, received)'
        /\ \A c \in Link : Before(heard, wire[c])'
    BY <1>0, <1>3, <1>8 DEF HeardInv, Old, Before
  <2>5. \A k \in Loop : \A g \in ToSet(batch'[k]) : Apart(x, g)
    <3>1. \A g \in ToSet(batch'[l]) : Apart(x, g)
      BY <1>3, <1>6, <2>1, LaterApart
    <3>2. \A k \in Loop : k # l => \A g \in ToSet(batch'[k]) : Apart(x, g)
      BY <1>0, <1>3, <1>6 DEF HeardInv, Disjoint
    <3> QED
      BY <3>1, <3>2
  <2>6. \A k \in Loop : Disjoint(heard, batch[k])'
    BY <1>0, <1>7, <1>8, <2>5 DEF HeardInv, Disjoint
  <2>7. Spread(heard')
    <3>1. \A f \in ToSet(heard) : Apart(f, x)
      BY <1>0, <1>3 DEF HeardInv, Disjoint
    <3>2. Spread(heard)
      BY <1>0 DEF HeardInv
    <3> QED
      <4>1. Spread(Append(heard, x))
        BY <1>1, <1>3, <3>1, <3>2, QueueAppend
      <4> QED
        BY <1>4, <3>2, <4>1
  <2>8. ASSUME ~doubled'
        PROVE  /\ Rising(heard') /\ \A k \in Loop : Before(heard, batch[k])'
               /\ \A j, k \in Loop : loop'[j] # "none" /\ loop'[k] # "none" => j = k
    <3>1. /\ Rising(heard) /\ \A k \in Loop : Before(heard, batch[k])
          /\ \A j, k \in Loop : loop'[j] # "none" /\ loop'[k] # "none" => j = k
      BY <1>0, <2>8 DEF HeardInv
    <3>2. \A f \in ToSet(heard) : Later(f, x)
      BY <1>3, <3>1 DEF Before
    <3>3. Rising(heard')
      <4>1. Rising(Append(heard, x))
        BY <1>1, <1>3, <3>1, <3>2, QueueAppend
      <4> QED
        BY <1>4, <3>1, <4>1
    <3>4. \A k \in Loop : k # l => batch'[k] = <<>>
      BY <1>0, <1>1, <2>3, <3>1
    <3>5. \A k \in Loop : \A g \in ToSet(batch'[k]) : Later(x, g)
      BY <1>6, <3>4, QueueEmpty
    <3>6. \A k \in Loop : Before(heard, batch[k])'
      BY <1>7, <1>8, <3>1, <3>5 DEF Before
    <3> QED
      BY <3>1, <3>3, <3>6
  <2>9. /\ \A c \in Link : Rising(wire'[c]) /\ Old(wire[c])' /\ \A f \in ToSet(wire'[c]) : IsUserData(f) => f.conn = c
        /\ Rising(received') /\ Old(received)' /\ \A c \in Link : Before(received, wire[c])'
    BY <1>0 DEF HeardInv, Old, Before
  <2> QED
    BY <2>2, <2>3, <2>4, <2>6, <2>7, <2>8, <2>9 DEF HeardInv
<1> QED
    BY <1>9, <1>10, <1>11 DEF VrInv

\* The steps of the calls of ping_node.
LEMMA PingStep ==
    ASSUME VrInv, NEW p \in Pinger,
           \/ \E t \in VpnTarget : PingBegin(p, t)
           \/ PingLan(p) \/ PingRelay(p) \/ PingAnswered(p) \/ PingTimeout(p)
    PROVE  VrInv'
<1>0. RouterTyped /\ PongInv /\ HeardInv
      /\ UNCHANGED <<wire, received, batch, heard, loop, doubled, sentBy, answered, channel, knownAddr>>
    BY DEF VrInv, PingBegin, PingLan, PingRelay, PingAnswered, PingTimeout,
           serverVars, loopVars, pingVars, sendVars, peerVars
<1>1. HeardInv'
    BY <1>0, QuietRouterStep
<1>2. /\ pingState \in [Pinger -> {"idle", "listening", "waiting", "lan", "ok", "timeout", "failed"}]
      /\ target \in [Pinger -> VpnTarget \cup {NoTarget}]
    BY <1>0 DEF RouterTyped
<1>3. PICK how \in {"listening", "waiting", "lan", "ok", "timeout", "failed"} :
          pingState' = [pingState EXCEPT ![p] = how]
    BY DEF PingBegin, PingLan, PingRelay, PingAnswered, PingTimeout, PingReturn
<1>4. /\ pingState' \in [Pinger -> {"idle", "listening", "waiting", "lan", "ok", "timeout", "failed"}]
      /\ pingState'[p] = how /\ \A q \in Pinger : q # p => pingState'[q] = pingState[q]
    BY <1>2, <1>3
<1>5. target' = target \/ (pingState[p] = "idle" /\ \E t \in VpnTarget : target' = [target EXCEPT ![p] = t])
    BY DEF PingBegin, PingLan, PingRelay, PingAnswered, PingTimeout
<1>6. target' \in [Pinger -> VpnTarget \cup {NoTarget}] /\ \A q \in Pinger : pingState[q] # "idle" => target'[q] = target[q]
    BY <1>2, <1>5
<1>7. RouterTyped'
    BY <1>0, <1>4, <1>6 DEF RouterTyped
<1>8. pinged' = pinged \/ (pinged' = pinged \cup {p} /\ target'[p] \in knownAddr /\ pingState[p] # "idle")
    BY DEF PingBegin, PingLan, PingRelay, PingAnswered, PingTimeout
<1>9. \A q \in pinged' : q \in Pinger /\ pingState'[q] # "idle" /\ target'[q] \in knownAddr
    BY <1>0, <1>4, <1>6, <1>8 DEF PongInv
<1>10. how = "ok" => channel[p] /\ pingState[p] = "waiting"
    BY <1>3, <1>4 DEF PingBegin, PingLan, PingRelay, PingAnswered, PingTimeout, PingReturn
<1>11. PongIsOwn'
  <2>1. \A q \in answered : q \in pinged'
    BY <1>0, <1>8 DEF PongInv
  <2>2. \A q \in Pinger : pingState'[q] = "ok" => q \in answered
    BY <1>0, <1>4, <1>10 DEF PongInv, PongIsOwn
  <2> QED
    BY <1>0, <1>9, <2>1, <2>2 DEF PongIsOwn
<1>12. PongInv'
    BY <1>0, <1>8, <1>9, <1>11 DEF PongInv
<1> QED
    BY <1>1, <1>7, <1>12 DEF VrInv

\* Every step preserves them.
LEMMA VrStep ==
    ASSUME VrInv, [TrafficNext \/ PingNext]_vrVars
    PROVE  VrInv'
<1> DEFINE same == UNCHANGED <<wire, received, batch, heard, loop, doubled, sentBy, answered, channel, pingState, target, pinged>>
<1>1. ASSUME same, knownAddr \subseteq knownAddr' PROVE VrInv'
    BY <1>1, QuietRouterStep DEF VrInv, RouterTyped, PongInv, PongIsOwn
<1>2. CASE Stop \/ AcceptEnd \/ RegisterListener \/ UNCHANGED vrVars
    BY <1>1, <1>2 DEF Stop, AcceptEnd, RegisterListener, vrVars, serverVars, loopVars, pingVars, sendVars, peerVars
<1>3. ASSUME NEW c \in Link, Accept(c) \/ ReadEnd(c) PROVE VrInv'
    BY <1>1, <1>3 DEF Accept, ReadEnd, loopVars, pingVars, sendVars, peerVars
<1>4. ASSUME NEW t \in VpnTarget, Send(t) \/ RegisterNode(t) \/ SetRelay(t) PROVE VrInv'
    BY <1>1, <1>4 DEF Send, RegisterNode, SetRelay, serverVars, loopVars, pingVars, sendVars, peerVars
<1>5. ASSUME NEW l \in Loop, Sleep(l) PROVE VrInv'
  <2>1. /\ loop[l] = "busy" /\ batch[l] = <<>> /\ loop' = [loop EXCEPT ![l] = "poll"]
        /\ UNCHANGED <<wire, received, batch, heard, doubled, sentBy, answered, channel, pingState, target, pinged, knownAddr>>
    BY <1>5 DEF Sleep, serverVars, pingVars, sendVars, peerVars
  <2>2. RouterTyped /\ PongInv /\ HeardInv /\ loop \in [Loop -> {"none", "poll", "busy"}]
    BY DEF VrInv, RouterTyped
  <2>3. loop' \in [Loop -> {"none", "poll", "busy"}] /\ loop'[l] = "poll" /\ \A k \in Loop : k # l => loop'[k] = loop[k]
    BY <2>1, <2>2
  <2>4. RouterTyped' /\ PongInv'
    BY <2>1, <2>2, <2>3 DEF RouterTyped, PongInv, PongIsOwn
  <2>5. \A k \in Loop : batch'[k] # <<>> => loop'[k] = "busy"
    BY <2>1, <2>2, <2>3 DEF HeardInv
  <2>6. ~doubled' => \A j, k \in Loop : loop'[j] # "none" /\ loop'[k] # "none" => j = k
    BY <2>1, <2>2, <2>3 DEF HeardInv
  <2>7. HeardInv'
    BY <2>1, <2>2, <2>5, <2>6 DEF HeardInv, Old, Before, Disjoint
  <2> QED
    BY <2>4, <2>7 DEF VrInv
<1>6. ASSUME NEW c \in Link, NEW f \in {DataFrame(c, sentBy[c] + 1), OtherFrame, BadFrame}, PeerWrite(c, f) PROVE VrInv'
  <2>1. sentBy[c] + 1 \in Nat
    BY DEF VrInv, RouterTyped
  <2>2. f \in Frame /\ (~IsUserData(f) \/ f = DataFrame(c, sentBy[c] + 1))
    BY <2>1, FrameKinds DEF Frame
  <2> QED
    BY <1>6, <2>2, WriteStep
<1>7. ASSUME NEW c \in Link, NEW p \in Pinger, PeerWrite(c, PongFrame(p)) PROVE VrInv'
  <2>1. PongFrame(p) \in Frame /\ ~IsUserData(PongFrame(p))
    BY FrameKinds DEF Frame
  <2> QED
    BY <1>7, <2>1, WriteStep
<1>8. CASE TrafficNext
    BY <1>2, <1>3, <1>5, <1>6, <1>8, StartStep, ReadStep, PollStep, DispatchStep DEF TrafficNext
<1>9. CASE PingNext
    BY <1>3, <1>4, <1>5, <1>7, <1>9, StartStep, ReadStep, PollStep, DispatchStep, PingStep DEF PingNext
<1> QED
    BY <1>2, <1>8, <1>9

\* So they hold at all times.
LEMMA VrInvariant == VrSpec => []VrInv
<1>1. VrInv /\ [TrafficNext \/ PingNext]_vrVars => VrInv'
    BY VrStep
<1> QED
    BY <1>1, VrInitInv, PTL DEF VrSpec

\* A ping that reports a round trip over TCP had its own PING answered, and the
\* node's address known, whatever connections, batches and late listeners do.
THEOREM PongsAreOwn == VrSpec => []PongIsOwn
<1>1. VrInv => PongIsOwn
    BY DEF VrInv, PongInv
<1> QED
    BY <1>1, VrInvariant, PTL

\* The listener is called once for a message, and for those of one connection in
\* their order as long as one receive loop runs, whatever is stopped and started.
THEOREM ListenerHearsInOrder == VrSpec => []HeardOnceInOrder
<1>1. VrInv => HeardOnceInOrder
  <2> SUFFICES ASSUME VrInv PROVE HeardOnce /\ HeardInOrder
    BY DEF HeardOnceInOrder
  <2>1. heard \in Seq(Frame) /\ DOMAIN heard = 1..Len(heard) /\ Spread(heard) /\ (~doubled => Rising(heard))
    BY DEF VrInv, RouterTyped, HeardInv
  <2>2. \A i \in DOMAIN heard : IsUserData(heard[i])
    BY DEF VrInv, HeardInv, ToSet
  <2>3. HeardOnce
    BY <2>1, <2>2 DEF HeardOnce, Spread, Apart
  <2>4. HeardInOrder
    BY <2>1, <2>2 DEF HeardInOrder, Rising, Later
  <2> QED
    BY <2>3, <2>4
<1> QED
    BY <1>1, VrInvariant, PTL

\* The flags, the connections' threads, the listeners and the tables of the router.
TablesTyped ==
    /\ vpnRunning \in BOOLEAN /\ srvRunning \in BOOLEAN /\ accepting \in BOOLEAN
    /\ connState \in [Link -> {"none", "reading", "closed"}]
    /\ listeners \in Seq({"user"} \cup Pinger)
    /\ knownAddr \subseteq VpnTarget /\ relayTable \subseteq VpnTarget
    /\ knownNodes \in [VpnTarget -> {"unknown", "Lan", "Vpn"}]

\* A connection's thread is in one of its states.
LEMMA ConnMoves ==
    ASSUME TablesTyped, NEW c \in Link, NEW s \in {"none", "reading", "closed"},
           connState' = [connState EXCEPT ![c] = s],
           UNCHANGED <<vpnRunning, srvRunning, accepting, listeners, knownAddr, relayTable, knownNodes>>
    PROVE  TablesTyped'
<1>1. connState' \in [Link -> {"none", "reading", "closed"}]
    BY DEF TablesTyped
<1> QED
    BY <1>1 DEF TablesTyped

\* A node was reached by LAN or by TCP, or none was.
LEMMA ReachMoves ==
    ASSUME TablesTyped, NEW t, NEW how \in {"Lan", "Vpn"},
           knownNodes' = [knownNodes EXCEPT ![t] = how] \/ knownNodes' = knownNodes,
           UNCHANGED <<vpnRunning, srvRunning, accepting, listeners, connState, knownAddr, relayTable>>
    PROVE  TablesTyped'
<1>1. knownNodes' \in [VpnTarget -> {"unknown", "Lan", "Vpn"}]
    BY DEF TablesTyped
<1> QED
    BY <1>1 DEF TablesTyped

\* A listener is registered.
LEMMA ListenerMoves ==
    ASSUME TablesTyped, NEW x \in {"user"} \cup Pinger, listeners' = Append(listeners, x),
           UNCHANGED <<vpnRunning, srvRunning, accepting, connState, knownAddr, relayTable, knownNodes>>
    PROVE  TablesTyped'
<1>1. PICK S, s : S = {"user"} \cup Pinger /\ s = listeners
    OBVIOUS
<1>2. s \in Seq(S) /\ x \in S
    BY <1>1 DEF TablesTyped
<1>3. Append(s, x) \in Seq(S)
    BY <1>2
<1> QED
    BY <1>1, <1>3 DEF TablesTyped

\* Every step keeps their types.
LEMMA TablesTypedStep ==
    ASSUME TablesTyped, [TrafficNext \/ PingNext]_vrVars
    PROVE  TablesTyped'
<1> DEFINE same == UNCHANGED <<vpnRunning, srvRunning, accepting, connState, listeners, knownAddr, relayTable, knownNodes>>
<1>1. ASSUME same PROVE TablesTyped'
    BY <1>1 DEF TablesTyped
<1>2. CASE Start \/ Stop \/ AcceptEnd
  <2>1. /\ vpnRunning' \in BOOLEAN /\ srvRunning' \in BOOLEAN /\ accepting' \in BOOLEAN
        /\ UNCHANGED <<connState, listeners, knownAddr, relayTable, knownNodes>>
    BY <1>2 DEF Start, Stop, AcceptEnd, sendVars, TablesTyped
  <2> QED
    BY <2>1 DEF TablesTyped
<1>3. ASSUME NEW c \in Link, Accept(c) \/ ReadEnd(c) PROVE TablesTyped'
    BY <1>3, ConnMoves DEF Accept, ReadEnd, sendVars
<1>4. ASSUME NEW c \in Link, ReadMessage(c) PROVE TablesTyped'
  <2>1. PICK s \in {"none", "reading", "closed"} : connState' = [connState EXCEPT ![c] = s]
    BY <1>4 DEF ReadMessage
  <2> QED
    BY <1>4, <2>1, ConnMoves DEF ReadMessage, sendVars
<1>5. ASSUME NEW c \in Link, NEW f, PeerWrite(c, f) PROVE TablesTyped'
    BY <1>1, <1>5 DEF PeerWrite, sendVars
<1>6. CASE RegisterListener
    BY <1>6, ListenerMoves DEF RegisterListener, serverVars, sendVars
<1>7. ASSUME NEW l \in Loop, Poll(l) \/ Dispatch(l) \/ Sleep(l) PROVE TablesTyped'
    BY <1>1, <1>7 DEF Poll, Dispatch, Sleep, serverVars, sendVars
<1>8. ASSUME NEW p \in Pinger, NEW t \in VpnTarget, PingBegin(p, t) PROVE TablesTyped'
    BY <1>8, ListenerMoves DEF PingBegin, serverVars, sendVars
<1>9. ASSUME NEW p \in Pinger, PingLan(p) \/ PingAnswered(p) PROVE TablesTyped'
    BY <1>9, ReachMoves DEF PingLan, PingAnswered, serverVars
<1>10. ASSUME NEW p \in Pinger, PingRelay(p) \/ PingTimeout(p) PROVE TablesTyped'
    BY <1>1, <1>10 DEF PingRelay, PingTimeout, serverVars, sendVars
<1>11. ASSUME NEW t \in VpnTarget, Send(t) PROVE TablesTyped'
    BY <1>11, ReachMoves DEF Send, serverVars
<1>12. ASSUME NEW t \in VpnTarget, RegisterNode(t) \/ SetRelay(t) PROVE TablesTyped'
    BY <1>12 DEF RegisterNode, SetRelay, serverVars, TablesTyped
<1>13. CASE UNCHANGED vrVars
    BY <1>1, <1>13 DEF vrVars, serverVars, sendVars
<1>14. CASE TrafficNext
    BY <1>2, <1>3, <1>4, <1>5, <1>6, <1>7, <1>14 DEF TrafficNext
<1>15. CASE PingNext
    BY <1>2, <1>3, <1>4, <1>5, <1>7, <1>8, <1>9, <1>10, <1>11, <1>12, <1>15 DEF PingNext
<1> QED
    BY <1>13, <1>14, <1>15

\* They have them at first.
LEMMA TablesTypedInit == VrInit => TablesTyped
<1> SUFFICES ASSUME VrInit PROVE TablesTyped
    OBVIOUS
<1>1. <<>> \in Seq({"user"} \cup Pinger)
    OBVIOUS
<1> QED
    BY <1>1 DEF VrInit, TablesTyped

\* So the threads, calls and tables of the router have their types.
LEMMA VrInvTypes == VrInv /\ TablesTyped => VrTypeOK
<1> SUFFICES ASSUME VrInv, TablesTyped PROVE VrTypeOK
    OBVIOUS
<1>1. ToSet(listeners) \subseteq {"user"} \cup Pinger
  <2>1. PICK S, s : S = {"user"} \cup Pinger /\ s = listeners
    OBVIOUS
  <2>2. s \in Seq(S)
    BY <2>1 DEF TablesTyped
  <2>3. ToSet(s) \subseteq S
    BY <2>2 DEF ToSet
  <2> QED
    BY <2>1, <2>3
<1>2. {vpnRunning, srvRunning, accepting, doubled} \subseteq BOOLEAN
    BY DEF VrInv, RouterTyped, TablesTyped
<1> QED
    BY <1>1, <1>2 DEF VrInv, RouterTyped, TablesTyped, VrTypeOK

----------------------------------------------------------------------------
(* ConnectionPool. *)

\* Does retain keep the connection?
Keeps(x, old) == x.inUse \/ x.stream \notin old

\* F[k] is what is left of the first k connections.
IsRetain(F, s, old, n) ==
    /\ F[0] = <<>>
    /\ \A k \in 1..n : F[k] = IF Keeps(s[k], old) THEN Append(F[k - 1], s[k]) ELSE F[k - 1]

\* The recursion of retain has a solution.
LEMMA RetainExists ==
    ASSUME NEW S, NEW s \in Seq(S), NEW old
    PROVE  \E F : F = [k \in 0..Len(s) |-> IF k = 0 THEN <<>>
            ELSE IF s[k].inUse \/ s[k].stream \notin old THEN Append(F[k - 1], s[k])
            ELSE F[k - 1]]
<1> DEFINE Good(n) == \E F : F = [k \in 0..n |-> IF k = 0 THEN <<>>
            ELSE IF s[k].inUse \/ s[k].stream \notin old THEN Append(F[k - 1], s[k])
            ELSE F[k - 1]]
           Bad == {n \in Nat : ~Good(n)}
<1>1. SUFFICES ASSUME Bad # {} PROVE FALSE
  <2>1. Len(s) \in Nat
    OBVIOUS
  <2>2. Good(Len(s))
    BY <2>1
  <2> QED
    BY <2>2
<1>2. PICK n \in Bad : \A m \in Bad : n <= m
    BY <1>1, NatMinExists
<1>3. Good(0)
  <2>1. [k \in {0} |-> <<>>] = [k \in 0..0 |-> IF k = 0 THEN <<>>
            ELSE IF s[k].inUse \/ s[k].stream \notin old THEN Append([j \in {0} |-> <<>>][k - 1], s[k])
            ELSE [j \in {0} |-> <<>>][k - 1]]
    OBVIOUS
  <2> QED
    BY <2>1
<1>4. n # 0 /\ n \in Nat /\ n - 1 \in Nat /\ n - 1 \notin Bad
  <2> HIDE DEF Good
  <2>1. n \in Nat /\ n # 0
    BY <1>2, <1>3
  <2>2. n - 1 \in Nat /\ ~(n <= n - 1)
    BY <2>1
  <2> QED
    BY <1>2, <2>1, <2>2
<1>5. PICK G : G = [k \in 0..n - 1 |-> IF k = 0 THEN <<>>
            ELSE IF s[k].inUse \/ s[k].stream \notin old THEN Append(G[k - 1], s[k])
            ELSE G[k - 1]]
    BY <1>4
<1> DEFINE new == IF s[n].inUse \/ s[n].stream \notin old THEN Append(G[n - 1], s[n]) ELSE G[n - 1]
           H == [k \in 0..n |-> IF k = n THEN new ELSE G[k]]
<1>6. H = [k \in 0..n |-> IF k = 0 THEN <<>>
            ELSE IF s[k].inUse \/ s[k].stream \notin old THEN Append(H[k - 1], s[k])
            ELSE H[k - 1]]
  <2>1. \A k \in 0..n - 1 : H[k] = G[k]
    BY <1>4
  <2>2. \A k \in 1..n : k - 1 \in 0..n - 1 /\ (k # n => k \in 0..n - 1)
    BY <1>4
  <2>3. \A k \in 0..n : H[k] = IF k = 0 THEN <<>>
            ELSE IF s[k].inUse \/ s[k].stream \notin old THEN Append(H[k - 1], s[k])
            ELSE H[k - 1]
    <3> SUFFICES ASSUME NEW k \in 0..n PROVE H[k] = IF k = 0 THEN <<>>
            ELSE IF s[k].inUse \/ s[k].stream \notin old THEN Append(H[k - 1], s[k])
            ELSE H[k - 1]
      OBVIOUS
    <3>1. CASE k = n
      BY <1>4, <2>1, <2>2, <3>1
    <3>2. CASE k # n
      <4>1. k \in 0..n - 1
        BY <1>4, <3>2
      <4>2. G[k] = IF k = 0 THEN <<>>
            ELSE IF s[k].inUse \/ s[k].stream \notin old THEN Append(G[k - 1], s[k])
            ELSE G[k - 1]
        BY <1>5, <4>1
      <4>3. k # 0 => H[k - 1] = G[k - 1]
        BY <2>1, <2>2
      <4> HIDE DEF H
      <4> QED
        BY <2>1, <4>1, <4>2, <4>3
    <3> QED
      BY <3>1, <3>2
  <2> QED
    BY <2>3
<1>7. Good(n)
    BY <1>6
<1> QED
    BY <1>2, <1>7

\* What retain returns is the end of that recursion.
LEMMA RetainIs ==
    ASSUME NEW S, NEW s \in Seq(S), NEW old
    PROVE  \E F : IsRetain(F, s, old, Len(s)) /\ Retained(s, old) = F[Len(s)]
<1> DEFINE F == CHOOSE F : F = [k \in 0..Len(s) |-> IF k = 0 THEN <<>>
            ELSE IF s[k].inUse \/ s[k].stream \notin old THEN Append(F[k - 1], s[k])
            ELSE F[k - 1]]
<1>1. Retained(s, old) = F[Len(s)]
    BY DEF Retained
<1>2. F = [k \in 0..Len(s) |-> IF k = 0 THEN <<>>
            ELSE IF s[k].inUse \/ s[k].stream \notin old THEN Append(F[k - 1], s[k])
            ELSE F[k - 1]]
    BY RetainExists, ZenonT(40)
<1> HIDE DEF F
<1>3. IsRetain(F, s, old, Len(s))
  <2>1. Len(s) \in Nat
    OBVIOUS
  <2>2. 0 \in 0..Len(s) /\ \A k \in 1..Len(s) : k \in 0..Len(s) /\ k # 0
    BY <2>1
  <2> QED
    BY <1>2, <2>2 DEF IsRetain, Keeps
<1> QED
    BY <1>1, <1>3

\* f takes the places of t to those places of s up to n that are kept, one to one.
Picks(f, t, s, n, old) ==
    /\ f \in [1..Len(t) -> 1..n]
    /\ \A i, j \in 1..Len(t) : f[i] = f[j] => i = j
    /\ \A j \in 1..Len(t) : t[j] = s[f[j]]
    /\ \A k \in 1..n : Keeps(s[k], old) => \E j \in 1..Len(t) : f[j] = k

\* It picks, of the first connections, those it keeps: shown of every prefix, by
\* the least one of which it would not hold.
LEMMA RetainPicks ==
    ASSUME NEW S, NEW s \in Seq(S), NEW old
    PROVE  LET t == Retained(s, old) IN t \in Seq(S) /\ \E f : Picks(f, t, s, Len(s), old)
<1>1. PICK F : IsRetain(F, s, old, Len(s)) /\ Retained(s, old) = F[Len(s)]
    BY RetainIs
<1>2. Len(s) \in Nat /\ \A k \in 1..Len(s) : s[k] \in S
    OBVIOUS
<1> DEFINE N == Len(s)
           Good(n) == F[n] \in Seq(S) /\ \E f : Picks(f, F[n], s, n, old)
           Bad == {n \in 0..N : ~Good(n)}
<1> HIDE DEF Good, N
<1>3. SUFFICES ASSUME Bad # {} PROVE FALSE
  <2>1. Good(N)
    BY <1>2 DEF N
  <2> QED
    BY <1>1, <2>1 DEF Good, N
<1>4. Bad \in SUBSET Nat
    BY <1>2 DEF N
<1>5. PICK n \in Bad : \A m \in Bad : n <= m
    BY <1>3, <1>4, NatMinExists
<1>6. n \in 0..N /\ ~Good(n) /\ N \in Nat
    BY <1>2, <1>5 DEF N
<1>7. Good(0)
  <2>1. F[0] = <<>> /\ 1..0 = {} /\ Len(<<>>) = 0 /\ <<>> \in Seq(S)
    BY <1>1 DEF IsRetain
  <2>2. Picks([j \in {} |-> 0], <<>>, s, 0, old)
    BY <2>1 DEF Picks
  <2> QED
    BY <2>1, <2>2 DEF Good
<1>8. n # 0
    BY <1>6, <1>7
<1>9. n - 1 \in 0..N /\ ~(n <= n - 1) /\ n \in 1..N
    BY <1>6, <1>8
<1>10. Good(n - 1)
    BY <1>5, <1>9
<1>11. F[n - 1] \in Seq(S)
    BY <1>10 DEF Good
<1>12. PICK f : Picks(f, F[n - 1], s, n - 1, old)
    BY <1>10 DEF Good
<1>13. F[n] = IF Keeps(s[n], old) THEN Append(F[n - 1], s[n]) ELSE F[n - 1]
    BY <1>1, <1>9 DEF IsRetain, N
<1>14. s[n] \in S
    BY <1>2, <1>9 DEF N
<1>15. CASE ~Keeps(s[n], old)
  <2>1. F[n] = F[n - 1]
    BY <1>13, <1>15
  <2>2. 1..n - 1 \subseteq 1..n /\ \A k \in 1..n : k # n => k \in 1..n - 1
    BY <1>9
  <2>3. Picks(f, F[n - 1], s, n, old)
    BY <1>12, <1>15, <2>2 DEF Picks
  <2> QED
    BY <1>6, <1>11, <2>1, <2>3 DEF Good
<1>16. CASE Keeps(s[n], old)
  <2> DEFINE u == F[n - 1]
             t == Append(u, s[n])
             l == Len(u)
             g == [j \in 1..l + 1 |-> IF j = l + 1 THEN n ELSE f[j]]
  <2>1. F[n] = t
    BY <1>13, <1>16
  <2>2. t \in Seq(S) /\ l \in Nat /\ Len(t) = l + 1 /\ t[l + 1] = s[n] /\ \A j \in 1..l : t[j] = u[j]
    BY <1>11, <1>14
  <2>3. /\ f \in [1..l -> 1..n - 1] /\ \A i, j \in 1..l : f[i] = f[j] => i = j
    BY <1>12 DEF Picks
  <2>4. /\ \A j \in 1..l : u[j] = s[f[j]]
        /\ \A k \in 1..n - 1 : Keeps(s[k], old) => \E j \in 1..l : f[j] = k
    BY <1>12 DEF Picks
  <2> HIDE DEF u, t, l
  <2>5. /\ 1..n - 1 \subseteq 1..n /\ n \notin 1..n - 1 /\ n \in 1..n /\ \A k \in 1..n : k # n => k \in 1..n - 1
        /\ 1..l \subseteq 1..l + 1 /\ l + 1 \notin 1..l /\ l + 1 \in 1..l + 1 /\ \A j \in 1..l + 1 : j # l + 1 => j \in 1..l
    BY <1>9, <2>2
  <2>6. /\ g \in [1..l + 1 -> 1..n] /\ g[l + 1] = n /\ \A j \in 1..l : g[j] = f[j]
    BY <2>3, <2>5
  <2> HIDE DEF g
  <2>7. \A i, j \in 1..l + 1 : g[i] = g[j] => i = j
    BY <2>3, <2>5, <2>6
  <2>8. \A j \in 1..l + 1 : t[j] = s[g[j]]
    BY <2>2, <2>4, <2>5, <2>6
  <2>9. \A k \in 1..n : Keeps(s[k], old) => \E j \in 1..l + 1 : g[j] = k
    BY <2>4, <2>5, <2>6
  <2>10. Picks(g, t, s, n, old)
    BY <2>2, <2>6, <2>7, <2>8, <2>9 DEF Picks
  <2> QED
    BY <1>6, <2>1, <2>2, <2>10 DEF Good
<1> QED
    BY <1>15, <1>16

\* It keeps the number of those that are kept.
LEMMA PicksCount ==
    ASSUME NEW S, NEW s \in Seq(S), NEW t \in Seq(S), NEW old, NEW f, Picks(f, t, s, Len(s), old),
           NEW A, NEW B, A \subseteq 1..Len(t), B \subseteq 1..Len(s),
           \A j \in 1..Len(t) : j \in A <=> f[j] \in B, \A k \in B : Keeps(s[k], old)
    PROVE  Cardinality(A) = Cardinality(B)
<1> DEFINE g == [j \in A |-> f[j]]
<1>1. IsFiniteSet(1..Len(t))
    BY FS_Interval
<1>2. IsFiniteSet(A)
    BY <1>1, FS_Subset
<1>3. g \in [A -> B] /\ \A j \in A : g[j] = f[j]
    OBVIOUS
<1>4. \A i, j \in A : g[i] = g[j] => i = j
    BY <1>3 DEF Picks
<1>5. \A k \in B : \E j \in A : g[j] = k
    BY <1>3 DEF Picks
<1> HIDE DEF g
<1>6. g \in Bijection(A, B)
    BY <1>3, <1>4, <1>5 DEF Bijection, Injection, Surjection, IsInjective
<1>7. ExistsBijection(A, B)
    BY <1>6 DEF ExistsBijection
<1> QED
    BY <1>2, <1>7, FS_Bijection

\* The places in use, and the live ones among them.
Used(list) == {k \in DOMAIN list : list[k].inUse}
UsedLive(list, gone) == {k \in DOMAIN list : list[k].inUse /\ list[k].stream \notin gone}

\* So retain keeps the number of connections in use, and of live ones among them.
LEMMA RetainKeepsUsed ==
    ASSUME NEW s \in Seq(PooledConnection), NEW old, NEW gone
    PROVE  LET t == Retained(s, old) IN
           /\ t \in Seq(PooledConnection) /\ Cardinality(Used(t)) = Cardinality(Used(s))
           /\ Cardinality(UsedLive(t, gone)) = Cardinality(UsedLive(s, gone))
<1> DEFINE t == Retained(s, old)
<1>1. t \in Seq(PooledConnection) /\ \E f : Picks(f, t, s, Len(s), old)
    BY RetainPicks
<1> HIDE DEF t
<1>2. PICK f : Picks(f, t, s, Len(s), old)
    BY <1>1
<1>3. /\ Len(t) \in Nat /\ Len(s) \in Nat /\ DOMAIN t = 1..Len(t) /\ DOMAIN s = 1..Len(s)
    BY <1>1
<1>5. \A j \in 1..Len(t) : f[j] \in 1..Len(s) /\ t[j] = s[f[j]]
    BY <1>2 DEF Picks
<1>6. Cardinality(Used(t)) = Cardinality(Used(s))
  <2>1. Used(t) \subseteq 1..Len(t) /\ Used(s) \subseteq 1..Len(s)
    BY <1>3 DEF Used
  <2>2. \A j \in 1..Len(t) : j \in Used(t) <=> f[j] \in Used(s)
    BY <1>3, <1>5 DEF Used
  <2>3. \A k \in Used(s) : Keeps(s[k], old)
    BY DEF Used, Keeps
  <2> QED
    BY <1>1, <1>2, <2>1, <2>2, <2>3, PicksCount
<1>7. Cardinality(UsedLive(t, gone)) = Cardinality(UsedLive(s, gone))
  <2>1. UsedLive(t, gone) \subseteq 1..Len(t) /\ UsedLive(s, gone) \subseteq 1..Len(s)
    BY <1>3 DEF UsedLive
  <2>2. \A j \in 1..Len(t) : j \in UsedLive(t, gone) <=> f[j] \in UsedLive(s, gone)
    BY <1>3, <1>5 DEF UsedLive
  <2>3. \A k \in UsedLive(s, gone) : Keeps(s[k], old)
    BY DEF UsedLive, Keeps
  <2> QED
    BY <1>1, <1>2, <2>1, <2>2, <2>3, PicksCount
<1> QED
    BY <1>1, <1>6, <1>7 DEF t

\* usize arithmetic, as far from its limits as the counter stays.
LEMMA UsizeArithmetic ==
    /\ \A n \in Nat : n + 1 <= UsizeMax => Incr(n) = n + 1
    /\ \A n \in Nat : n <= UsizeMax /\ n > 0 => Decr(n) = n - 1
<1> DEFINE w == UsizeMax + 1
<1>1. w \in Nat /\ w > 0 /\ UsizeMax \in Nat
    BY PoolAssumption
<1>2. \A n, m \in Nat : m > 0 /\ n < m => n % m = n
    OBVIOUS
<1>3. \A n, m \in Nat : m > 0 /\ n < m => (n + m) % m = n
    OBVIOUS
<1>4. \A n \in Nat : n + 1 <= UsizeMax => n + 1 \in Nat /\ n + 1 < w
    BY <1>1
<1>5. \A n \in Nat : n <= UsizeMax /\ n > 0 => n - 1 \in Nat /\ n - 1 < w /\ (n - 1) + w = n + UsizeMax
    BY <1>1
<1>6. \A n \in Nat : Incr(n) = (n + 1) % w /\ Decr(n) = (n + UsizeMax) % w
    BY DEF Incr, Decr
<1> HIDE DEF w
<1>7. \A n \in Nat : n + 1 <= UsizeMax => Incr(n) = n + 1
    BY <1>1, <1>2, <1>4, <1>6
<1>8. ASSUME NEW n \in Nat, n <= UsizeMax, n > 0 PROVE Decr(n) = n - 1
  <2>1. n - 1 \in Nat /\ n - 1 < w /\ (n - 1) + w = n + UsizeMax
    BY <1>5, <1>8
  <2>2. ((n - 1) + w) % w = n - 1
    BY <1>1, <1>3, <2>1
  <2> QED
    BY <1>6, <2>1, <2>2
<1> QED
    BY <1>7, <1>8

\* One more of everything.
LEMMA PairUp ==
    ASSUME NEW L, NEW U, NEW I, IsFiniteSet(L), IsFiniteSet(U), IsFiniteSet(I), NEW x, NEW c,
           x \notin L, x \notin I, c \notin U, Cardinality(L) <= Cardinality(U), Cardinality(U) <= Cardinality(I)
    PROVE  /\ Cardinality(L \cup {x}) <= Cardinality(U \cup {c})
           /\ Cardinality(U \cup {c}) <= Cardinality(I \cup {x})
<1>1. Cardinality(L) \in Nat /\ Cardinality(U) \in Nat /\ Cardinality(I) \in Nat
    BY FS_CardinalityType
<1>2. Cardinality(L \cup {x}) = Cardinality(L) + 1
    BY FS_AddElement
<1>3. Cardinality(U \cup {c}) = Cardinality(U) + 1
    BY FS_AddElement
<1>4. Cardinality(I \cup {x}) = Cardinality(I) + 1
    BY FS_AddElement
<1> QED
    BY <1>1, <1>2, <1>3, <1>4

\* ... and one less of everything.
LEMMA PairDown ==
    ASSUME NEW L, NEW U, NEW I, IsFiniteSet(L), IsFiniteSet(U), IsFiniteSet(I), NEW x, NEW c,
           x \in L, x \in I, c \in U, Cardinality(L) <= Cardinality(U), Cardinality(U) <= Cardinality(I)
    PROVE  /\ Cardinality(L \ {x}) <= Cardinality(U \ {c})
           /\ Cardinality(U \ {c}) <= Cardinality(I \ {x})
<1>1. Cardinality(L) \in Nat /\ Cardinality(U) \in Nat /\ Cardinality(I) \in Nat
    BY FS_CardinalityType
<1>2. Cardinality(L \ {x}) = Cardinality(L) - 1
    BY FS_RemoveElement
<1>3. Cardinality(U \ {c}) = Cardinality(U) - 1
    BY FS_RemoveElement
<1>4. Cardinality(I \ {x}) = Cardinality(I) - 1
    BY FS_RemoveElement
<1> QED
    BY <1>1, <1>2, <1>3, <1>4

\* The lists, and the callers' streams with the addresses they are for.
PoolTyped ==
    /\ pool \in [Addr -> Seq(PooledConnection)]
    /\ held \in [PoolUser -> Stream \cup {NoStream}] /\ peer \in [PoolUser -> Addr \cup {NoStream}]
    /\ \A c \in PoolUser : held[c] = NoStream <=> peer[c] = NoStream

Holders == {c \in PoolUser : held[c] # NoStream}
PoolInv == PoolTyped /\ PoolCountsExact

\* The sets that are counted are finite.
LEMMA PoolFinite ==
    ASSUME PoolTyped
    PROVE  /\ IsFiniteSet(Holders) /\ Cardinality(Holders) \in Nat /\ Cardinality(Holders) <= UsizeMax
           /\ \A a \in Addr : /\ IsFiniteSet(InUse(a)) /\ IsFiniteSet(InUse(a) \cap LiveIn(a)) /\ IsFiniteSet(Users(a))
                              /\ InUse(a) = Used(pool[a]) /\ InUse(a) \cap LiveIn(a) = UsedLive(pool[a], dead)
                              /\ DOMAIN pool[a] = 1..Len(pool[a]) /\ Len(pool[a]) \in Nat
<1>1. IsFiniteSet(PoolUser) /\ Cardinality(PoolUser) <= UsizeMax /\ UsizeMax \in Nat
    BY PoolAssumption
<1>2. Holders \in SUBSET PoolUser /\ \A a : Users(a) \in SUBSET PoolUser
    BY DEF Holders, Users
<1>3. IsFiniteSet(Holders) /\ Cardinality(Holders) <= Cardinality(PoolUser) /\ \A a : IsFiniteSet(Users(a))
    BY <1>1, <1>2, FS_Subset
<1>4. Cardinality(Holders) \in Nat /\ Cardinality(PoolUser) \in Nat
    BY <1>1, <1>3, FS_CardinalityType
<1>5. ASSUME NEW a \in Addr
      PROVE  /\ IsFiniteSet(InUse(a)) /\ IsFiniteSet(InUse(a) \cap LiveIn(a)) /\ IsFiniteSet(Users(a))
             /\ InUse(a) = Used(pool[a]) /\ InUse(a) \cap LiveIn(a) = UsedLive(pool[a], dead)
             /\ DOMAIN pool[a] = 1..Len(pool[a]) /\ Len(pool[a]) \in Nat
  <2>1. DOMAIN pool[a] = 1..Len(pool[a]) /\ Len(pool[a]) \in Nat
    BY DEF PoolTyped
  <2>2. IsFiniteSet(1..Len(pool[a]))
    BY <2>1, FS_Interval
  <2>3. InUse(a) \in SUBSET (1..Len(pool[a])) /\ (InUse(a) \cap LiveIn(a)) \in SUBSET (1..Len(pool[a]))
    BY <2>1 DEF InUse, LiveIn
  <2>4. IsFiniteSet(InUse(a)) /\ IsFiniteSet(InUse(a) \cap LiveIn(a))
    BY <2>2, <2>3, FS_Subset
  <2>5. InUse(a) = Used(pool[a]) /\ InUse(a) \cap LiveIn(a) = UsedLive(pool[a], dead)
    BY DEF InUse, LiveIn, Used, UsedLive
  <2> QED
    BY <1>3, <2>1, <2>4, <2>5
<1> QED
    BY <1>1, <1>3, <1>4, <1>5

\* find: the first connection that fits, if there is one.
LEMMA FirstLiveIs ==
    ASSUME NEW list \in Seq(PooledConnection), NEW b \in BOOLEAN
    PROVE  /\ FirstLive(list, b) # 0 => /\ FirstLive(list, b) \in 1..Len(list)
                                        /\ list[FirstLive(list, b)].inUse = b /\ list[FirstLive(list, b)].stream \notin dead
           /\ FirstLive(list, b) = 0 => \A k \in 1..Len(list) : list[k].inUse = b => list[k].stream \in dead
<1> DEFINE places == {k \in DOMAIN list : list[k].inUse = b /\ list[k].stream \notin dead}
<1>1. DOMAIN list = 1..Len(list) /\ 1..Len(list) \subseteq Nat \ {0}
    OBVIOUS
<1>2. FirstLive(list, b) = IF places = {} THEN 0 ELSE CHOOSE k \in places : \A j \in places : k <= j
    BY DEF FirstLive
<1>3. ASSUME places # {} PROVE \E k \in places : \A j \in places : k <= j
    BY <1>1, <1>3, NatMinExists
<1>4. places # {} => FirstLive(list, b) \in places
    BY <1>2, <1>3
<1> QED
    BY <1>1, <1>2, <1>4

\* A live connection is marked.
LEMMA SlotTaken ==
    ASSUME NEW list \in Seq(PooledConnection), NEW k \in 1..Len(list), NEW gone, list[k].stream \notin gone,
           NEW new \in Seq(PooledConnection), Len(new) = Len(list), new[k].inUse, new[k].stream = list[k].stream,
           \A j \in 1..Len(list) : j # k => new[j] = list[j]
    PROVE  Used(new) = Used(list) \cup {k} /\ UsedLive(new, gone) = UsedLive(list, gone) \cup {k}
<1>1. DOMAIN list = 1..Len(list) /\ DOMAIN new = 1..Len(list)
    OBVIOUS
<1>2. Used(new) = Used(list) \cup {k}
    BY <1>1 DEF Used
<1>3. UsedLive(new, gone) = UsedLive(list, gone) \cup {k}
    BY <1>1 DEF UsedLive
<1> QED
    BY <1>2, <1>3

\* Its mark is taken away.
LEMMA SlotFreed ==
    ASSUME NEW list \in Seq(PooledConnection), NEW k \in 1..Len(list), NEW gone, list[k].stream \notin gone,
           NEW new \in Seq(PooledConnection), Len(new) = Len(list), ~new[k].inUse, new[k].stream = list[k].stream,
           \A j \in 1..Len(list) : j # k => new[j] = list[j]
    PROVE  Used(new) = Used(list) \ {k} /\ UsedLive(new, gone) = UsedLive(list, gone) \ {k}
<1>1. DOMAIN list = 1..Len(list) /\ DOMAIN new = 1..Len(list)
    OBVIOUS
<1>2. Used(new) = Used(list) \ {k}
    BY <1>1 DEF Used
<1>3. UsedLive(new, gone) = UsedLive(list, gone) \ {k}
    BY <1>1 DEF UsedLive
<1> QED
    BY <1>2, <1>3

\* get_connection: a caller has one more connection, and a list one more in use.
LEMMA GetStep ==
    ASSUME PoolInv, NEW c \in PoolUser, NEW a \in Addr, held[c] = NoStream,
           NEW s \in Stream, held' = [held EXCEPT ![c] = s], peer' = [peer EXCEPT ![c] = a],
           NEW list, pool' = [pool EXCEPT ![a] = list], list \in Seq(PooledConnection),
           NEW k, k \notin Used(pool[a]), Used(list) = Used(pool[a]) \cup {k},
           UsedLive(list, dead') = UsedLive(pool[a], dead) \cup {k},
           \A b \in Addr : b # a => UsedLive(pool[b], dead') = UsedLive(pool[b], dead),
           activeCount' = Incr(activeCount), upset' = upset
    PROVE  PoolInv'
<1>0. /\ PoolTyped /\ NoStream \notin Stream /\ NoStream \notin Addr
    BY PoolAssumption DEF PoolInv
<1>1. /\ held' \in [PoolUser -> Stream \cup {NoStream}] /\ peer' \in [PoolUser -> Addr \cup {NoStream}]
      /\ held'[c] = s /\ peer'[c] = a /\ \A d \in PoolUser : d # c => held'[d] = held[d] /\ peer'[d] = peer[d]
    BY <1>0 DEF PoolTyped
<1>2. /\ pool' \in [Addr -> Seq(PooledConnection)] /\ pool'[a] = list /\ \A b \in Addr : b # a => pool'[b] = pool[b]
    BY <1>0 DEF PoolTyped
<1>3. PoolTyped'
    BY <1>0, <1>1, <1>2 DEF PoolTyped
<1>4. peer[c] = NoStream
    BY <1>0 DEF PoolTyped
<1>5. Holders' = Holders \cup {c} /\ c \notin Holders
    BY <1>0, <1>1 DEF Holders
<1>6. Users(a)' = Users(a) \cup {c} /\ c \notin Users(a) /\ \A b \in Addr : b # a => Users(b)' = Users(b)
    BY <1>0, <1>1, <1>4 DEF Users
<1>7. ASSUME ~upset PROVE activeCount' = Cardinality(Holders')
  <2>1. activeCount = Cardinality(Holders) /\ Cardinality(Holders) \in Nat /\ IsFiniteSet(Holders)
    BY <1>0, <1>7, PoolFinite DEF PoolInv, PoolCountsExact, ActiveCountExact, Holders
  <2>2. Cardinality(Holders \cup {c}) <= Cardinality(PoolUser)
    <3>1. IsFiniteSet(PoolUser) /\ (Holders \cup {c}) \in SUBSET PoolUser
      BY PoolAssumption DEF Holders
    <3> QED
      BY <3>1, FS_Subset
  <2>3. Cardinality(Holders \cup {c}) = Cardinality(Holders) + 1
    BY <1>5, <2>1, FS_AddElement
  <2>4. Cardinality(Holders) + 1 <= UsizeMax
    <3>1. Cardinality(PoolUser) \in Nat /\ Cardinality(PoolUser) <= UsizeMax /\ UsizeMax \in Nat
      BY PoolAssumption, FS_CardinalityType
    <3> QED
      BY <2>1, <2>2, <2>3, <3>1
  <2>5. Incr(activeCount) = activeCount + 1
    BY <2>1, <2>4, UsizeArithmetic
  <2> QED
    BY <1>5, <2>1, <2>3, <2>5
<1>8. ASSUME ~upset, NEW b \in Addr
      PROVE  /\ Cardinality(UsedLive(pool'[b], dead')) <= Cardinality(Users(b)')
             /\ Cardinality(Users(b)') <= Cardinality(Used(pool'[b]))
  <2>1. /\ Cardinality(UsedLive(pool[b], dead)) <= Cardinality(Users(b)) /\ Cardinality(Users(b)) <= Cardinality(Used(pool[b]))
        /\ IsFiniteSet(UsedLive(pool[b], dead)) /\ IsFiniteSet(Users(b)) /\ IsFiniteSet(Used(pool[b]))
    BY <1>0, <1>8, PoolFinite DEF PoolInv, PoolCountsExact, SlotsMatchUsers
  <2>2. CASE b # a
    BY <1>2, <1>6, <2>1, <2>2
  <2>3. CASE b = a
    <3>1. k \notin UsedLive(pool[a], dead)
      BY DEF Used, UsedLive
    <3>2. /\ Cardinality(UsedLive(pool[a], dead) \cup {k}) <= Cardinality(Users(a) \cup {c})
          /\ Cardinality(Users(a) \cup {c}) <= Cardinality(Used(pool[a]) \cup {k})
      BY <1>6, <2>1, <2>3, <3>1, PairUp
    <3> QED
      BY <1>2, <1>6, <2>3, <3>2
  <2> QED
    BY <2>2, <2>3
<1>9. PoolCountsExact'
  <2>1. \A b \in Addr : InUse(b)' = Used(pool'[b]) /\ (InUse(b) \cap LiveIn(b))' = UsedLive(pool'[b], dead')
    BY DEF InUse, LiveIn, Used, UsedLive
  <2>2. SlotsMatchUsers'
    BY <1>8, <2>1 DEF SlotsMatchUsers
  <2>3. ActiveCountExact'
    BY <1>7 DEF ActiveCountExact, Holders
  <2> QED
    BY <2>2, <2>3 DEF PoolCountsExact
<1> QED
    BY <1>3, <1>9 DEF PoolInv

\* After an upset only the types count.
LEMMA UpsetStep ==
    ASSUME PoolInv, NEW c \in PoolUser, NEW a \in Addr, upset',
           NEW list, pool' = [pool EXCEPT ![a] = list], list \in Seq(PooledConnection), UNCHANGED <<held, peer>>
    PROVE  PoolInv'
<1>1. PoolTyped
    BY DEF PoolInv
<1>2. pool' \in [Addr -> Seq(PooledConnection)]
    BY <1>1 DEF PoolTyped
<1>3. PoolTyped'
    BY <1>1, <1>2 DEF PoolTyped
<1>4. PoolCountsExact'
    BY DEF PoolCountsExact, ActiveCountExact, SlotsMatchUsers
<1> QED
    BY <1>3, <1>4 DEF PoolInv

\* get_connection with an idle connection.
LEMMA ReuseStep ==
    ASSUME PoolInv, NEW c \in PoolUser, NEW a \in Addr, held[c] = NoStream, Reuse(c, a)
    PROVE  PoolInv'
<1>0. PICK k : k = FirstLive(pool[a], FALSE)
    OBVIOUS
<1>1. k # 0 /\ pool' = [pool EXCEPT ![a][k].inUse = TRUE] /\ activeCount' = Incr(activeCount) /\ UNCHANGED dead
    BY <1>0 DEF Reuse, SetInUse
<1>2. pool \in [Addr -> Seq(PooledConnection)] /\ pool[a] \in Seq(PooledConnection) /\ DOMAIN pool[a] = 1..Len(pool[a])
    BY DEF PoolInv, PoolTyped
<1>3. k \in 1..Len(pool[a]) /\ pool[a][k].inUse = FALSE /\ pool[a][k].stream \notin dead
    BY <1>0, <1>1, <1>2, FirstLiveIs
<1>4. PICK r, list : r = [pool[a][k] EXCEPT !.inUse = TRUE] /\ list = [pool[a] EXCEPT ![k] = r]
    OBVIOUS
<1>5. pool' = [pool EXCEPT ![a] = list]
    BY <1>1, <1>4
<1>6. /\ list \in Seq(PooledConnection) /\ Used(list) = Used(pool[a]) \cup {k}
      /\ UsedLive(list, dead) = UsedLive(pool[a], dead) \cup {k}
  <2>1. PICK old : old = pool[a]
    OBVIOUS
  <2>2. old \in Seq(PooledConnection) /\ k \in 1..Len(old) /\ old[k].stream \notin dead
    BY <1>2, <1>3, <2>1
  <2>3. list = [old EXCEPT ![k] = r] /\ r = [old[k] EXCEPT !.inUse = TRUE] /\ old[k] \in PooledConnection
    BY <1>4, <2>1, <2>2
  <2>4. list = [old EXCEPT ![k] = r]
    BY <2>3
  <2>5. r \in PooledConnection /\ r.inUse /\ r.stream = old[k].stream
    BY <2>3 DEF PooledConnection
  <2>6. /\ list \in Seq(PooledConnection) /\ Used(list) = Used(old) \cup {k}
        /\ UsedLive(list, dead) = UsedLive(old, dead) \cup {k}
    <3>1. /\ list \in Seq(PooledConnection) /\ Len(list) = Len(old) /\ list[k] = r
          /\ \A j \in 1..Len(old) : j # k => list[j] = old[j]
      BY <2>2, <2>4, <2>5
    <3>2. list[k].inUse /\ list[k].stream = old[k].stream
      BY <2>5, <3>1
    <3> QED
      BY <2>2, <3>1, <3>2, SlotTaken
  <2> QED
    BY <2>1, <2>6
<1>7. k \notin Used(pool[a])
    BY <1>3 DEF Used
<1>8. CASE held' = [held EXCEPT ![c] = pool[a][k].stream] /\ peer' = [peer EXCEPT ![c] = a] /\ UNCHANGED upset
  <2>1. PICK s : s = pool[a][k].stream
    OBVIOUS
  <2>2. s \in Stream
    <3>1. pool[a][k] \in PooledConnection
      BY <1>2, <1>3
    <3> QED
      BY <2>1, <3>1 DEF PooledConnection
  <2> QED
    BY <1>1, <1>5, <1>6, <1>7, <1>8, <2>1, <2>2, GetStep
<1>9. CASE upset' = TRUE /\ UNCHANGED <<held, peer>>
    BY <1>5, <1>6, <1>9, UpsetStep
<1> QED
    BY <1>0, <1>8, <1>9 DEF Reuse

\* get_connection with a new one.
LEMMA ConnectStep ==
    ASSUME PoolInv, NEW c \in PoolUser, NEW a \in Addr, held[c] = NoStream, Connect(c, a)
    PROVE  PoolInv'
<1>1. PICK s \in Stream \ (Pooled \cup Held) :
        /\ pool' = [pool EXCEPT ![a] = Append(pool[a], [stream |-> s, inUse |-> TRUE])]
        /\ held' = [held EXCEPT ![c] = s] /\ dead' = dead \ {s}
    BY DEF Connect
<1>2. peer' = [peer EXCEPT ![c] = a] /\ activeCount' = Incr(activeCount) /\ upset' = upset
    BY DEF Connect
<1>3. pool \in [Addr -> Seq(PooledConnection)] /\ \A b \in Addr : DOMAIN pool[b] = 1..Len(pool[b])
    BY DEF PoolInv, PoolTyped
<1>4. PICK x : x = [stream |-> s, inUse |-> TRUE]
    OBVIOUS
<1>5. x \in PooledConnection /\ x.stream = s /\ x.inUse = TRUE
    BY <1>4 DEF PooledConnection
<1>6. PICK list, old, k : old = pool[a] /\ list = Append(old, x) /\ k = Len(old) + 1
    OBVIOUS
<1>7. /\ list \in Seq(PooledConnection) /\ DOMAIN list = 1..k /\ list[k] = x
      /\ (\A j \in 1..Len(old) : list[j] = old[j]) /\ k \notin 1..Len(old) /\ 1..k = 1..Len(old) \cup {k}
      /\ DOMAIN old = 1..Len(old)
    BY <1>3, <1>5, <1>6
<1>8. \A b \in Addr : \A j \in DOMAIN pool[b] : pool[b][j].stream # s
    BY <1>1 DEF Pooled
<1>9. k \notin Used(old) /\ Used(list) = Used(old) \cup {k}
    BY <1>5, <1>7 DEF Used
<1>10. UsedLive(list, dead') = UsedLive(old, dead) \cup {k}
  <2>1. \A j \in 1..Len(old) : old[j].stream # s
    BY <1>6, <1>7, <1>8
  <2> QED
    BY <1>1, <1>5, <1>7, <2>1 DEF UsedLive
<1>11. \A b \in Addr : b # a => UsedLive(pool[b], dead') = UsedLive(pool[b], dead)
    BY <1>1, <1>8 DEF UsedLive
<1>12. pool' = [pool EXCEPT ![a] = list]
    BY <1>1, <1>4, <1>6
<1>13. s \in Stream /\ held' = [held EXCEPT ![c] = s] /\ list \in Seq(PooledConnection)
    BY <1>1, <1>7
<1>14. /\ k \notin Used(pool[a]) /\ Used(list) = Used(pool[a]) \cup {k}
       /\ UsedLive(list, dead') = UsedLive(pool[a], dead) \cup {k}
    BY <1>6, <1>9, <1>10
<1> QED
    BY <1>2, <1>11, <1>12, <1>13, <1>14, GetStep

\* return_connection
LEMMA ReturnStep ==
    ASSUME PoolInv, NEW c \in PoolUser, ReturnConnection(c)
    PROVE  PoolInv'
<1>0. PICK a, k : a = peer[c] /\ k = FirstLive(pool[a], TRUE)
    OBVIOUS
<1>1. /\ held[c] # NoStream /\ activeCount' = Decr(activeCount) /\ UNCHANGED <<dead, upset>>
      /\ held' = [held EXCEPT ![c] = NoStream] /\ peer' = [peer EXCEPT ![c] = NoStream]
    BY DEF ReturnConnection
<1>2. /\ k = 0 => pool' = pool
      /\ k # 0 => pool' = [pool EXCEPT ![a][k].inUse = FALSE]
    BY <1>0 DEF ReturnConnection, SetInUse
<1>3. PoolTyped /\ a \in Addr /\ NoStream \notin Addr
    BY <1>0, <1>1, PoolAssumption DEF PoolInv, PoolTyped
<1>4. PICK old : old = pool[a] /\ old \in Seq(PooledConnection) /\ DOMAIN old = 1..Len(old)
    BY <1>3 DEF PoolTyped
<1>5. PICK list : /\ list \in Seq(PooledConnection) /\ pool' = [pool EXCEPT ![a] = list]
                  /\ k = 0 => list = old
                  /\ k # 0 => /\ k \in 1..Len(old) /\ k \in UsedLive(old, dead) /\ k \in Used(old)
                              /\ Used(list) = Used(old) \ {k}
                              /\ UsedLive(list, dead) = UsedLive(old, dead) \ {k}
  <2>1. CASE k = 0
    <3>1. pool' = [pool EXCEPT ![a] = old]
      BY <1>2, <1>3, <1>4, <2>1 DEF PoolTyped
    <3> QED
      BY <1>4, <2>1, <3>1
  <2>2. CASE k # 0
    <3>1. k \in 1..Len(old) /\ old[k].inUse = TRUE /\ old[k].stream \notin dead
      BY <1>0, <1>4, <2>2, FirstLiveIs
    <3>2. PICK r, list : r = [old[k] EXCEPT !.inUse = FALSE] /\ list = [old EXCEPT ![k] = r]
      OBVIOUS
    <3>6. r \in PooledConnection /\ ~r.inUse /\ r.stream = old[k].stream
      <4>1. old[k] \in PooledConnection
        BY <1>4, <3>1
      <4> QED
        BY <3>2, <4>1 DEF PooledConnection
    <3>3. /\ list \in Seq(PooledConnection) /\ Used(list) = Used(old) \ {k}
          /\ UsedLive(list, dead) = UsedLive(old, dead) \ {k}
      <4>1. list = [old EXCEPT ![k] = r] /\ old \in Seq(PooledConnection)
        BY <1>4, <3>2
      <4>2. k \in 1..Len(old) /\ old[k].stream \notin dead
        BY <3>1
      <4>3. /\ list \in Seq(PooledConnection) /\ Len(list) = Len(old) /\ list[k] = r
            /\ \A j \in 1..Len(old) : j # k => list[j] = old[j]
        BY <3>6, <4>1, <4>2
      <4>4. ~list[k].inUse /\ list[k].stream = old[k].stream
        BY <3>6, <4>3
      <4>5. old \in Seq(PooledConnection)
        BY <4>1
      <4>6. Used(list) = Used(old) \ {k} /\ UsedLive(list, dead) = UsedLive(old, dead) \ {k}
        BY <4>2, <4>3, <4>4, <4>5, SlotFreed
      <4> QED
        BY <4>3, <4>6
    <3>4. pool' = [pool EXCEPT ![a] = list]
      BY <1>2, <1>4, <2>2, <3>2
    <3>5. k \in UsedLive(old, dead) /\ k \in Used(old)
      BY <1>4, <3>1 DEF Used, UsedLive
    <3> QED
      BY <2>2, <3>1, <3>2, <3>3, <3>4, <3>5
  <2> QED
    BY <2>1, <2>2
<1>6. /\ held' \in [PoolUser -> Stream \cup {NoStream}] /\ peer' \in [PoolUser -> Addr \cup {NoStream}]
      /\ held'[c] = NoStream /\ peer'[c] = NoStream
      /\ \A d \in PoolUser : d # c => held'[d] = held[d] /\ peer'[d] = peer[d]
    BY <1>1, <1>3 DEF PoolTyped
<1>7. /\ pool' \in [Addr -> Seq(PooledConnection)] /\ pool'[a] = list /\ \A b \in Addr : b # a => pool'[b] = pool[b]
    BY <1>3, <1>5 DEF PoolTyped
<1>8. PoolTyped'
    BY <1>3, <1>6, <1>7 DEF PoolTyped
<1>9. Holders' = Holders \ {c} /\ c \in Holders
    BY <1>1, <1>6 DEF Holders
<1>10. Users(a)' = Users(a) \ {c} /\ c \in Users(a) /\ \A b \in Addr : b # a => Users(b)' = Users(b)
    BY <1>0, <1>3, <1>6 DEF Users
<1>11. ASSUME ~upset PROVE activeCount' = Cardinality(Holders')
  <2>1. activeCount = Cardinality(Holders) /\ Cardinality(Holders) \in Nat /\ IsFiniteSet(Holders) /\ Cardinality(Holders) <= UsizeMax
    BY <1>3, <1>11, PoolFinite DEF PoolInv, PoolCountsExact, ActiveCountExact, Holders
  <2>2. Cardinality(Holders \ {c}) = Cardinality(Holders) - 1
    BY <1>9, <2>1, FS_RemoveElement
  <2>3. Cardinality(Holders) > 0
    <3>1. Cardinality(Holders) # 0
      BY <1>9, <2>1, FS_EmptySet
    <3> QED
      BY <2>1, <3>1
  <2>4. Decr(activeCount) = activeCount - 1
    BY <2>1, <2>3, UsizeArithmetic
  <2> QED
    BY <1>1, <1>9, <2>1, <2>2, <2>4
<1>12. ASSUME ~upset, NEW b \in Addr
       PROVE  /\ Cardinality(UsedLive(pool'[b], dead')) <= Cardinality(Users(b)')
              /\ Cardinality(Users(b)') <= Cardinality(Used(pool'[b]))
  <2>1. /\ Cardinality(UsedLive(pool[b], dead)) <= Cardinality(Users(b)) /\ Cardinality(Users(b)) <= Cardinality(Used(pool[b]))
        /\ IsFiniteSet(UsedLive(pool[b], dead)) /\ IsFiniteSet(Users(b)) /\ IsFiniteSet(Used(pool[b]))
    BY <1>3, <1>12, PoolFinite DEF PoolInv, PoolCountsExact, SlotsMatchUsers
  <2>2. CASE b # a
    BY <1>1, <1>7, <1>10, <2>1, <2>2
  <2>3. CASE b = a /\ k # 0
    <3>1. /\ Cardinality(UsedLive(old, dead) \ {k}) <= Cardinality(Users(a) \ {c})
          /\ Cardinality(Users(a) \ {c}) <= Cardinality(Used(old) \ {k})
      BY <1>4, <1>5, <1>10, <2>1, <2>3, PairDown
    <3> QED
      BY <1>1, <1>5, <1>7, <1>10, <2>3, <3>1
  <2>4. CASE b = a /\ k = 0
    <3>1. UsedLive(old, dead) = {}
      <4>1. \A j \in 1..Len(old) : old[j].inUse = TRUE => old[j].stream \in dead
        BY <1>0, <1>4, <2>4, FirstLiveIs
      <4>2. \A j \in 1..Len(old) : old[j] \in PooledConnection
        BY <1>4
      <4> QED
        BY <1>4, <4>1, <4>2 DEF UsedLive, PooledConnection
    <3>2. Cardinality(UsedLive(old, dead)) = 0
      BY <3>1, FS_EmptySet
    <3>3. Cardinality(Users(a) \ {c}) = Cardinality(Users(a)) - 1 /\ IsFiniteSet(Users(a) \ {c})
      BY <1>10, <2>1, <2>4, FS_RemoveElement
    <3>4. Cardinality(Users(a) \ {c}) \in Nat /\ Cardinality(Users(a)) \in Nat /\ Cardinality(Used(old)) \in Nat
      BY <1>4, <2>1, <2>4, <3>3, FS_CardinalityType
    <3>5. Cardinality(Users(a)) <= Cardinality(Used(old))
      BY <1>4, <2>1, <2>4
    <3>6. 0 <= Cardinality(Users(a) \ {c}) /\ Cardinality(Users(a) \ {c}) <= Cardinality(Used(old))
      BY <3>3, <3>4, <3>5
    <3> QED
      BY <1>1, <1>5, <1>7, <1>10, <2>4, <3>2, <3>6
  <2> QED
    BY <2>2, <2>3, <2>4
<1>13. PoolCountsExact'
  <2>1. \A b \in Addr : InUse(b)' = Used(pool'[b]) /\ (InUse(b) \cap LiveIn(b))' = UsedLive(pool'[b], dead')
    BY DEF InUse, LiveIn, Used, UsedLive
  <2>2. SlotsMatchUsers'
    BY <1>1, <1>12, <2>1 DEF SlotsMatchUsers
  <2>3. ActiveCountExact'
    BY <1>1, <1>11 DEF ActiveCountExact, Holders
  <2> QED
    BY <2>2, <2>3 DEF PoolCountsExact
<1> QED
    BY <1>8, <1>13 DEF PoolInv

\* cleanup_idle, and the death of a stream: the callers stay as they are.
LEMMA KeepUsersStep ==
    ASSUME PoolInv, UNCHANGED <<held, peer, activeCount, upset>>, pool' \in [Addr -> Seq(PooledConnection)],
           \A a \in Addr : /\ Cardinality(UsedLive(pool'[a], dead')) \in Nat
                           /\ Cardinality(UsedLive(pool'[a], dead')) <= Cardinality(UsedLive(pool[a], dead))
                           /\ Cardinality(Used(pool'[a])) = Cardinality(Used(pool[a]))
    PROVE  PoolInv'
<1>0. PoolTyped
    BY DEF PoolInv
<1>1. PoolTyped'
    BY <1>0 DEF PoolTyped
<1>2. ActiveCountExact'
    BY DEF PoolInv, PoolCountsExact, ActiveCountExact
<1>3. ASSUME ~upset, NEW a \in Addr
      PROVE  /\ Cardinality(UsedLive(pool'[a], dead')) <= Cardinality(Users(a)')
             /\ Cardinality(Users(a)') <= Cardinality(Used(pool'[a]))
  <2>1. /\ Cardinality(UsedLive(pool[a], dead)) <= Cardinality(Users(a)) /\ Cardinality(Users(a)) <= Cardinality(Used(pool[a]))
        /\ IsFiniteSet(UsedLive(pool[a], dead)) /\ IsFiniteSet(Users(a))
    BY <1>0, <1>3, PoolFinite DEF PoolInv, PoolCountsExact, SlotsMatchUsers
  <2>2. Cardinality(UsedLive(pool[a], dead)) \in Nat /\ Cardinality(Users(a)) \in Nat
    BY <2>1, FS_CardinalityType
  <2>3. Users(a)' = Users(a)
    BY DEF Users
  <2>4. \A x, y, z \in Nat : x <= y /\ y <= z => x <= z
    OBVIOUS
  <2> QED
    BY <2>1, <2>2, <2>3, <2>4
<1>4. \A b \in Addr : InUse(b)' = Used(pool'[b]) /\ (InUse(b) \cap LiveIn(b))' = UsedLive(pool'[b], dead')
    BY DEF InUse, LiveIn, Used, UsedLive
<1>5. SlotsMatchUsers'
    BY <1>3, <1>4 DEF SlotsMatchUsers
<1> QED
    BY <1>1, <1>2, <1>5 DEF PoolInv, PoolCountsExact

\* cleanup_idle keeps what is in use.
LEMMA CleanupIdleStep ==
    ASSUME PoolInv, CleanupIdle
    PROVE  PoolInv'
<1>0. PoolTyped /\ UNCHANGED <<held, peer, dead, activeCount, upset>>
    BY DEF PoolInv, CleanupIdle
<1>1. PICK old : pool' = [a \in Addr |-> Retained(pool[a], old)]
    BY DEF CleanupIdle
<1>2. ASSUME NEW a \in Addr
      PROVE  /\ pool'[a] \in Seq(PooledConnection) /\ Cardinality(Used(pool'[a])) = Cardinality(Used(pool[a]))
             /\ Cardinality(UsedLive(pool'[a], dead)) = Cardinality(UsedLive(pool[a], dead))
             /\ Cardinality(UsedLive(pool[a], dead)) \in Nat
  <2>1. PICK s : s = pool[a] /\ s \in Seq(PooledConnection)
    BY <1>0 DEF PoolTyped
  <2>2. pool'[a] = Retained(s, old)
    BY <1>1, <2>1
  <2>3. IsFiniteSet(UsedLive(pool[a], dead))
    BY <1>0, PoolFinite
  <2>4. Cardinality(UsedLive(pool[a], dead)) \in Nat
    BY <2>3, FS_CardinalityType
  <2> QED
    BY <2>1, <2>2, <2>4, RetainKeepsUsed
<1>3. pool' \in [Addr -> Seq(PooledConnection)]
    BY <1>1, <1>2
<1>4. \A x \in Nat : x <= x
    OBVIOUS
<1> QED
    BY <1>0, <1>2, <1>3, <1>4, KeepUsersStep

\* A stream that dies is live no longer; its mark stays.
LEMMA DiesStep ==
    ASSUME PoolInv, NEW s \in Stream, StreamDies(s)
    PROVE  PoolInv'
<1>0. PoolTyped /\ dead' = dead \cup {s} /\ UNCHANGED <<pool, held, peer, activeCount, upset>>
    BY DEF PoolInv, StreamDies
<1>1. ASSUME NEW a \in Addr
      PROVE  /\ Cardinality(UsedLive(pool[a], dead')) \in Nat
             /\ Cardinality(UsedLive(pool[a], dead')) <= Cardinality(UsedLive(pool[a], dead))
  <2>1. IsFiniteSet(UsedLive(pool[a], dead))
    BY <1>0, PoolFinite
  <2>2. UsedLive(pool[a], dead') \in SUBSET UsedLive(pool[a], dead)
    BY <1>0 DEF UsedLive
  <2>3. /\ IsFiniteSet(UsedLive(pool[a], dead'))
        /\ Cardinality(UsedLive(pool[a], dead')) <= Cardinality(UsedLive(pool[a], dead))
    BY <2>1, <2>2, FS_Subset
  <2> QED
    BY <2>3, FS_CardinalityType
<1>2. pool' \in [Addr -> Seq(PooledConnection)]
    BY <1>0 DEF PoolTyped
<1> QED
    BY <1>0, <1>1, <1>2, KeepUsersStep

\* clear: with nobody using the pool nothing is left to count.
LEMMA ClearPoolStep ==
    ASSUME PoolInv, ClearPool
    PROVE  PoolInv'
<1>0. PoolTyped /\ UNCHANGED <<held, peer, dead>> /\ activeCount' = 0 /\ pool' = [a \in Addr |-> <<>>]
    BY DEF PoolInv, ClearPool
<1>1. PoolTyped'
    BY <1>0 DEF PoolTyped
<1>2. upset' = (upset \/ Held # {})
    BY DEF ClearPool
<1>3. ASSUME ~upset' PROVE \A c \in PoolUser : held[c] = NoStream /\ peer[c] = NoStream
  <2>1. Held = {}
    BY <1>2, <1>3, Zenon
  <2> QED
    BY <1>0, <2>1 DEF Held, PoolTyped
<1>4. ASSUME ~upset' PROVE Holders' = {} /\ \A a \in Addr : Users(a)' = {}
    BY <1>0, <1>3, <1>4, PoolAssumption DEF Holders, Users
<1>5. \A a \in Addr : InUse(a)' = {} /\ (InUse(a) \cap LiveIn(a))' = {}
    BY <1>0 DEF InUse, LiveIn
<1>6. Cardinality({}) = 0 /\ 0 <= 0
    BY FS_EmptySet
<1>7. ActiveCountExact'
    BY <1>0, <1>4, <1>6 DEF ActiveCountExact, Holders
<1>8. SlotsMatchUsers'
    BY <1>4, <1>5, <1>6 DEF SlotsMatchUsers
<1> QED
    BY <1>1, <1>7, <1>8 DEF PoolInv, PoolCountsExact

\* It holds at first.
LEMMA PoolInitInv == PoolInit => PoolInv
<1> SUFFICES ASSUME PoolInit PROVE PoolInv
  OBVIOUS
<1>1. PoolTyped
  BY DEF PoolInit, PoolTyped
<1>2. {c \in PoolUser : held[c] # NoStream} = {} /\ activeCount = 0
  BY DEF PoolInit
<1>3. \A a \in Addr : Users(a) = {} /\ InUse(a) = {} /\ InUse(a) \cap LiveIn(a) = {}
  BY PoolAssumption DEF PoolInit, Users, InUse
<1>4. Cardinality({}) = 0 /\ 0 <= 0
  BY FS_EmptySet
<1>5. ActiveCountExact
  BY <1>2, <1>4 DEF ActiveCountExact
<1>6. SlotsMatchUsers
  BY <1>3, <1>4 DEF SlotsMatchUsers
<1> QED
  BY <1>1, <1>5, <1>6 DEF PoolInv, PoolCountsExact

\* Every step preserves it.
LEMMA PoolInvStep ==
    ASSUME PoolInv, [PoolNext]_poolVars
    PROVE  PoolInv'
<1>1. CASE PoolNext
  BY <1>1, ReuseStep, ConnectStep, ReturnStep, CleanupIdleStep, ClearPoolStep, DiesStep DEF PoolNext, GetConnection
<1>2. CASE UNCHANGED poolVars
  <2>1. UNCHANGED <<pool, held, peer, dead, activeCount, upset>>
    BY <1>2 DEF poolVars
  <2>2. PoolTyped'
    BY <2>1 DEF PoolInv, PoolTyped
  <2>3. PoolCountsExact'
    BY <2>1 DEF PoolInv, PoolCountsExact, ActiveCountExact, SlotsMatchUsers, InUse, LiveIn, Users
  <2> QED
    BY <2>2, <2>3 DEF PoolInv
<1> QED
  BY <1>1, <1>2

\* As long as no try_clone fails and no clear meets a connection in use, the counter
\* is exact, and every caller has its mark, whatever slot return_connection clears
\* and whatever is cleaned up or dies.
THEOREM PoolIsCounted == PoolSpec => []PoolCountsExact
<1>1. PoolInv /\ [PoolNext]_poolVars => PoolInv'
    BY PoolInvStep
<1>2. PoolInv => PoolCountsExact
    BY DEF PoolInv
<1> QED
    BY <1>1, <1>2, PoolInitInv, PTL DEF PoolSpec

\* retain never makes a list longer.
LEMMA RetainShortens ==
    ASSUME NEW S, NEW s \in Seq(S), NEW old
    PROVE  Len(Retained(s, old)) <= Len(s)
<1> DEFINE t == Retained(s, old)
<1>1. t \in Seq(S) /\ \E f : Picks(f, t, s, Len(s), old)
    BY RetainPicks
<1> HIDE DEF t
<1>2. PICK f : Picks(f, t, s, Len(s), old)
    BY <1>1
<1>3. Len(t) \in Nat /\ Len(s) \in Nat
    BY <1>1
<1>4. f \in Injection(1..Len(t), 1..Len(s))
    BY <1>2 DEF Picks, Injection, IsInjective
<1>5. IsFiniteSet(1..Len(s))
    BY <1>3, FS_Interval
<1>6. Cardinality(1..Len(t)) <= Cardinality(1..Len(s))
    BY <1>4, <1>5, FS_Injection
<1>7. \A n \in Nat : Cardinality(1..n) = n
  <2> SUFFICES ASSUME NEW n \in Nat PROVE Cardinality(1..n) = n
    OBVIOUS
  <2>1. Cardinality(1..n) = IF 1 > n THEN 0 ELSE n - 1 + 1
    BY FS_Interval
  <2> QED
    BY <2>1
<1>8. Len(t) <= Len(s)
    BY <1>3, <1>6, <1>7
<1> QED
    BY <1>8 DEF t

\* No list is longer than max_size, and the counter is a usize.
PoolSized ==
    /\ \A a \in Addr : Len(pool[a]) <= MaxSize
    /\ dead \subseteq Stream /\ activeCount \in 0..UsizeMax /\ upset \in BOOLEAN

\* The counter stays in its range, wrapping.
LEMMA UsizeRange == \A n \in 0..UsizeMax : Incr(n) \in 0..UsizeMax /\ Decr(n) \in 0..UsizeMax
<1>1. UsizeMax \in Nat
    BY PoolAssumption
<1>2. \A n, m \in Nat : n % (m + 1) \in 0..m
    OBVIOUS
<1>3. \A n \in 0..UsizeMax : n + 1 \in Nat /\ n + UsizeMax \in Nat
    BY <1>1
<1> QED
    BY <1>1, <1>2, <1>3 DEF Incr, Decr

\* A mark that is set or cleared leaves a list its length.
LEMMA MarkKeepsLength ==
    ASSUME PoolTyped, PoolSized, NEW a \in Addr, NEW k, NEW b, pool' = [pool EXCEPT ![a][k].inUse = b]
    PROVE  \A c \in Addr : DOMAIN pool'[c] = DOMAIN pool[c]
<1>1. pool \in [Addr -> Seq(PooledConnection)]
    BY DEF PoolTyped
<1>2. PICK old, r, list : old = pool[a] /\ r = [old[k] EXCEPT !.inUse = b] /\ list = [old EXCEPT ![k] = r]
    OBVIOUS
<1>3. DOMAIN list = DOMAIN old
    BY <1>2
<1>4. pool' = [pool EXCEPT ![a] = list]
    BY <1>2
<1> QED
    BY <1>1, <1>2, <1>3, <1>4

\* Lists with the domains of lists of that length have it.
LEMMA SameLengths ==
    ASSUME PoolTyped, PoolTyped', PoolSized, \A a \in Addr : DOMAIN pool'[a] = DOMAIN pool[a]
    PROVE  \A a \in Addr : Len(pool'[a]) <= MaxSize
<1> SUFFICES ASSUME NEW a \in Addr PROVE Len(pool'[a]) <= MaxSize
    OBVIOUS
<1>1. PICK s, t : s = pool[a] /\ t = pool'[a]
    OBVIOUS
<1>2. s \in Seq(PooledConnection) /\ t \in Seq(PooledConnection) /\ DOMAIN s = DOMAIN t /\ Len(s) <= MaxSize
    BY <1>1 DEF PoolTyped, PoolSized
<1>3. Len(s) = Len(t)
    BY <1>2
<1> QED
    BY <1>1, <1>2, <1>3

\* Every step keeps the sizes.
LEMMA SizesStep ==
    ASSUME PoolInv, PoolInv', PoolSized, [PoolNext]_poolVars
    PROVE  PoolSized'
<1>0. /\ PoolTyped /\ PoolTyped' /\ dead \subseteq Stream /\ activeCount \in 0..UsizeMax /\ upset \in BOOLEAN
      /\ \A a \in Addr : Len(pool[a]) <= MaxSize
    BY DEF PoolInv, PoolSized
<1>00. pool \in [Addr -> Seq(PooledConnection)] /\ MaxSize \in Nat
    BY <1>0, PoolAssumption DEF PoolTyped
<1>1. ASSUME NEW c \in PoolUser, NEW a \in Addr, Reuse(c, a) PROVE PoolSized'
  <2>1. PICK k : pool' = [pool EXCEPT ![a][k].inUse = TRUE]
    BY <1>1 DEF Reuse, SetInUse
  <2>2. activeCount' = Incr(activeCount) /\ upset' \in BOOLEAN /\ dead' = dead
    BY <1>0, <1>1 DEF Reuse
  <2>3. \A b \in Addr : Len(pool'[b]) <= MaxSize
    BY <1>0, <2>1, MarkKeepsLength, SameLengths
  <2> QED
    BY <1>0, <2>2, <2>3, UsizeRange DEF PoolSized
<1>2. ASSUME NEW c \in PoolUser, NEW a \in Addr, Connect(c, a) PROVE PoolSized'
  <2>1. PICK s \in Stream : /\ pool' = [pool EXCEPT ![a] = Append(pool[a], [stream |-> s, inUse |-> TRUE])]
                            /\ dead' = dead \ {s}
    BY <1>2 DEF Connect
  <2>2. activeCount' = Incr(activeCount) /\ upset' = upset /\ Len(pool[a]) < MaxSize
    BY <1>2 DEF Connect
  <2>3. PICK old, x : old = pool[a] /\ x = [stream |-> s, inUse |-> TRUE]
    OBVIOUS
  <2>4. old \in Seq(PooledConnection) /\ x \in PooledConnection
    BY <1>00, <2>3 DEF PooledConnection
  <2>5. Len(Append(old, x)) = Len(old) + 1 /\ Len(old) \in Nat
    BY <2>4
  <2>6. pool' = [pool EXCEPT ![a] = Append(old, x)]
    BY <2>1, <2>3
  <2>7. \A b \in Addr : Len(pool'[b]) <= MaxSize
    BY <1>0, <1>00, <2>2, <2>3, <2>5, <2>6
  <2> QED
    BY <1>0, <2>1, <2>2, <2>7, UsizeRange DEF PoolSized
<1>3. ASSUME NEW c \in PoolUser, ReturnConnection(c) PROVE PoolSized'
  <2>1. PICK a, k : /\ a = peer[c]
                    /\ pool' = pool \/ pool' = [pool EXCEPT ![a][k].inUse = FALSE]
    BY <1>3 DEF ReturnConnection, SetInUse
  <2>2. activeCount' = Decr(activeCount) /\ UNCHANGED <<dead, upset>> /\ held[c] # NoStream
    BY <1>3 DEF ReturnConnection
  <2>3. a \in Addr
    BY <1>0, <2>1, <2>2 DEF PoolTyped
  <2>4. CASE pool' = pool
    BY <1>0, <2>2, <2>4, UsizeRange DEF PoolSized
  <2>5. CASE pool' = [pool EXCEPT ![a][k].inUse = FALSE]
    <3>1. \A b \in Addr : Len(pool'[b]) <= MaxSize
      BY <1>0, <2>3, <2>5, MarkKeepsLength, SameLengths
    <3> QED
      BY <1>0, <2>2, <3>1, UsizeRange DEF PoolSized
  <2> QED
    BY <2>1, <2>4, <2>5
<1>4. CASE CleanupIdle
  <2>1. PICK old : pool' = [a \in Addr |-> Retained(pool[a], old)]
    BY <1>4 DEF CleanupIdle
  <2>2. ASSUME NEW a \in Addr PROVE Len(pool'[a]) <= MaxSize
    <3>1. PICK s : s = pool[a] /\ s \in Seq(PooledConnection)
      BY <1>00
    <3>2. PICK t : t = Retained(s, old)
      OBVIOUS
    <3>3. t \in Seq(PooledConnection) /\ Len(t) <= Len(s)
      BY <3>1, <3>2, RetainKeepsUsed, RetainShortens
    <3>4. pool'[a] = t
      BY <2>1, <3>1, <3>2
    <3>5. Len(t) \in Nat /\ Len(s) \in Nat /\ Len(s) <= MaxSize
      BY <1>0, <3>1, <3>3
    <3> QED
      BY <1>00, <3>3, <3>4, <3>5
  <2> QED
    BY <1>0, <1>4, <2>2 DEF CleanupIdle, PoolSized
<1>5. CASE ClearPool
  <2>1. \A a \in Addr : pool'[a] = <<>>
    BY <1>5 DEF ClearPool
  <2>2. Len(<<>>) = 0 /\ 0 <= MaxSize /\ 0 \in 0..UsizeMax
    BY <1>00, PoolAssumption
  <2>3. upset' \in BOOLEAN /\ dead' = dead /\ activeCount' = 0
    BY <1>5 DEF ClearPool
  <2> QED
    BY <1>0, <2>1, <2>2, <2>3 DEF PoolSized
<1>6. ASSUME NEW s \in Stream, StreamDies(s) PROVE PoolSized'
    BY <1>0, <1>6 DEF StreamDies, PoolSized
<1>7. CASE UNCHANGED poolVars
    BY <1>0, <1>7 DEF poolVars, PoolSized
<1> QED
    BY <1>1, <1>2, <1>3, <1>4, <1>5, <1>6, <1>7 DEF PoolNext, GetConnection

\* So the pool, the clients and the counter have their types.
LEMMA PoolInvTypes == PoolInv /\ PoolSized => PoolTypeOK
<1> SUFFICES ASSUME PoolInv, PoolSized PROVE PoolTypeOK
    OBVIOUS
<1>1. PICK lists : lists = UNION {[1..n -> PooledConnection] : n \in 0..MaxSize}
    OBVIOUS
<1>2. ASSUME NEW a \in Addr PROVE pool[a] \in lists
  <2>1. PICK s : s = pool[a] /\ s \in Seq(PooledConnection) /\ Len(s) <= MaxSize
    BY DEF PoolInv, PoolTyped, PoolSized
  <2>2. Len(s) \in 0..MaxSize /\ s \in [1..Len(s) -> PooledConnection]
    BY <2>1, PoolAssumption
  <2> QED
    BY <1>1, <2>1, <2>2
<1>3. pool \in [Addr -> lists]
    BY <1>2 DEF PoolInv, PoolTyped
<1> QED
    BY <1>1, <1>3 DEF PoolInv, PoolTyped, PoolSized, PoolTypeOK

----------------------------------------------------------------------------
(* The parts side by side. *)

\* What the entry nodes of BootstrapManager promise holds at all times.
THEOREM EntriesAreRanked == BootSpec => []BootTypeOK
<1>1. BootInv /\ [BootNext]_bootVars => BootInv'
    BY BootStep
<1> QED
    BY <1>1, BootInitInv, BootInvTypes, PTL DEF BootSpec

\* The resolver's caches and calls have their types.
LEMMA ResolverTypes == ResSpec => []ResTypeOK
<1>1. ResInv /\ [ResolverNext \/ RegClientNext]_resVars => ResInv'
    BY ResStepInv
<1>2. ResInv /\ CallsTyped /\ [ResolverNext \/ RegClientNext]_resVars => CallsTyped'
    BY CallsTypedStep
<1> QED
    BY <1>1, <1>2, ResInitInv, CallsTypedInit, ResInvTypes, PTL DEF ResSpec

\* And those of the LAN router.
LEMMA LanTypes == LanSpec => []LanTypeOK
<1>1. LanInv /\ [LanNext]_lanVars => LanInv'
    BY LanStep
<1>2. LanInv => LanTypeOK
    BY DEF LanInv
<1> QED
    BY <1>1, <1>2, LanInitInv, PTL DEF LanSpec

\* And those of the VPN router.
LEMMA RouterTypes == VrSpec => []VrTypeOK
<1>1. TablesTyped /\ [TrafficNext \/ PingNext]_vrVars => TablesTyped'
    BY TablesTypedStep
<1> QED
    BY <1>1, VrInvariant, TablesTypedInit, VrInvTypes, PTL DEF VrSpec

\* And those of the pool.
LEMMA PoolTypes == PoolSpec => []PoolTypeOK
<1>1. PoolInv /\ [PoolNext]_poolVars => PoolInv'
    BY PoolInvStep
<1>2. PoolInv /\ PoolInv' /\ PoolSized /\ [PoolNext]_poolVars => PoolSized'
    BY SizesStep
<1>3. PoolInit => PoolSized
  <2>1. Len(<<>>) = 0 /\ 0 <= MaxSize /\ 0 \in 0..UsizeMax
    BY PoolAssumption
  <2> QED
    BY <2>1 DEF PoolInit, PoolSized
<1> QED
    BY <1>1, <1>2, <1>3, PoolInitInv, PoolInvTypes, PTL DEF PoolSpec

\* Side by side every part behaves as it does alone: whatever the focus is, a step
\* is one of a part's own, or leaves the part as it is.
THEOREM NetworkParts == NetworkSpec => DhtSpec /\ BootSpec /\ ResSpec /\ LanSpec /\ VrSpec /\ PoolSpec
<1>1. NetworkInit => DhtInit /\ BootInit /\ ResInit /\ LanInit /\ VrInit /\ PoolInit
    BY DEF NetworkInit
<1>2. ASSUME [NetworkNext]_networkVars
      PROVE  /\ [TableNext \/ ValueNext]_dhtVars /\ [BootNext]_bootVars
             /\ [ResolverNext \/ RegClientNext]_resVars /\ [LanNext]_lanVars
             /\ [TrafficNext \/ PingNext]_vrVars /\ [PoolNext]_poolVars
  <2>1. CASE UNCHANGED networkVars
    BY <2>1 DEF networkVars
  <2>2. CASE NetworkNext
    BY <2>2 DEF NetworkNext, Others
  <2> QED
    BY <1>2, <2>1, <2>2
<1> QED
    BY <1>1, <1>2, PTL DEF NetworkSpec, DhtSpec, BootSpec, ResSpec, LanSpec, VrSpec, PoolSpec

\* The variables of every part have their types: routing tables and caches hold
\* what they may, entry nodes are tried by priority, no connection list exceeds
\* max_size, and active_count is a usize.
THEOREM NetworkTyped == NetworkSpec => []NetworkTypeOK
<1>1. DhtTypeOK /\ BootTypeOK /\ ResTypeOK /\ LanTypeOK /\ VrTypeOK /\ PoolTypeOK => NetworkTypeOK
    BY DEF NetworkTypeOK
<1> QED
    BY <1>1, NetworkParts, TablesAreSound, EntriesAreRanked, ResolverTypes, LanTypes, RouterTypes, PoolTypes, PTL

\* Side by side the parts keep what each of them promises alone.
THEOREM NetworkHolds ==
    NetworkSpec => [](TableSound /\ ValuesExact /\ CachesHonest /\ LanTableSound
                        /\ HeardOnceInOrder /\ PongIsOwn /\ PoolCountsExact)
<1> QED
    BY NetworkParts, TablesAreSound, ValuesServed, ResolverIsHonest, LanTablesSound, ListenerHearsInOrder,
       PongsAreOwn, PoolIsCounted, PTL
=============================================================================
