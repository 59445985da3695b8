--------------------------- MODULE SelfHealProofs ---------------------------
(***************************************************************************)
(* Proofs about SelfHeal: the route table of MultiHop under the calls of   *)
(* all threads, the threads of the self-healing, and what they conclude    *)
(* from the callbacks of Heartbeat and from messages.                      *)
(***************************************************************************)
EXTENDS SelfHeal, HeartbeatProofs, FiniteSetTheorems, SequenceTheorems, NaturalsInduction, WellFoundedInduction

\* A set of natural numbers that is not empty has a least one.
LEMMA LeastExists ==
    ASSUME NEW S \in SUBSET Nat, S # {}
    PROVE  \E x \in S : \A y \in S : x <= y
<1> DEFINE R == OpToRel(<, Nat)
<1>1. IsWellFoundedOn(R, Nat)
    BY NatLessThanWellFounded
<1>2. \A y, x \in Nat : y < x => <<y, x>> \in R
    BY DEF OpToRel
<1> HIDE DEF R
<1>3. PICK x \in S : \A y \in S : ~(<<y, x>> \in R)
    BY <1>1, WFMin
<1>4. \A y \in S : ~(y < x)
    BY <1>2, <1>3, Zenon
<1>5. \A y \in S : x <= y
    BY <1>4, SMT
<1> QED
    BY <1>5

\* The recursion of Among has a solution.
LEMMA AmongExists ==
    ASSUME NEW T, NEW s \in Seq(T), NEW S
    PROVE  \E F : F = [k \in 0..Len(s) |-> IF k = 0 THEN <<>>
            ELSE IF s[k] \in S THEN Append(F[k - 1], s[k]) ELSE F[k - 1]]
<1> DEFINE Good(n) == \E F : F = [k \in 0..n |-> IF k = 0 THEN <<>>
            ELSE IF s[k] \in S THEN Append(F[k - 1], s[k]) ELSE F[k - 1]]
           Bad == {n \in Nat : ~Good(n)}
<1>1. SUFFICES ASSUME Bad # {} PROVE FALSE
  <2>1. Len(s) \in Nat
    OBVIOUS
  <2>2. Good(Len(s))
    BY <2>1
  <2> QED
    BY <2>2
<1>2. PICK n \in Bad : \A m \in Bad : n <= m
    BY <1>1, LeastExists
<1>3. Good(0)
  <2>1. [k \in {0} |-> <<>>] = [k \in 0..0 |-> IF k = 0 THEN <<>>
            ELSE IF s[k] \in S THEN Append([j \in {0} |-> <<>>][k - 1], s[k]) ELSE [j \in {0} |-> <<>>][k - 1]]
    OBVIOUS
  <2> QED
    BY <2>1
<1>4. n # 0 /\ n \in Nat /\ n - 1 \in Nat /\ n - 1 \notin Bad
  <2> HIDE DEF Good
  <2>1. n \in Nat /\ n # 0
    BY <1>2, <1>3
  <2>2. n - 1 \in Nat /\ ~(n <= n - 1)
    BY <2>1
  <2> QED
    BY <1>2, <2>1, <2>2
<1>5. PICK G : G = [k \in 0..n - 1 |-> IF k = 0 THEN <<>>
            ELSE IF s[k] \in S THEN Append(G[k - 1], s[k]) ELSE G[k - 1]]
    BY <1>4
<1> DEFINE new == IF s[n] \in S THEN Append(G[n - 1], s[n]) ELSE G[n - 1]
           H == [k \in 0..n |-> IF k = n THEN new ELSE G[k]]
<1>6. H = [k \in 0..n |-> IF k = 0 THEN <<>>
            ELSE IF s[k] \in S THEN Append(H[k - 1], s[k]) ELSE H[k - 1]]
  <2>1. \A k \in 0..n - 1 : H[k] = G[k]
    BY <1>4
  <2>2. \A k \in 1..n : k - 1 \in 0..n - 1 /\ (k # n => k \in 0..n - 1)
    BY <1>4
  <2>3. \A k \in 0..n : H[k] = IF k = 0 THEN <<>>
            ELSE IF s[k] \in S THEN Append(H[k - 1], s[k]) ELSE H[k - 1]
    <3> SUFFICES ASSUME NEW k \in 0..n PROVE H[k] = IF k = 0 THEN <<>>
            ELSE IF s[k] \in S THEN Append(H[k - 1], s[k]) ELSE H[k - 1]
      OBVIOUS
    <3>1. CASE k = n
      BY <1>4, <2>1, <2>2, <3>1
    <3>2. CASE k # n
      <4>1. k \in 0..n - 1
        BY <1>4, <3>2
      <4>2. G[k] = IF k = 0 THEN <<>>
            ELSE IF s[k] \in S THEN Append(G[k - 1], s[k]) ELSE G[k - 1]
        BY <1>5, <4>1
      <4>3. k # 0 => H[k - 1] = G[k - 1]
        BY <2>1, <2>2
      <4> HIDE DEF H
      <4> QED
        BY <2>1, <4>1, <4>2, <4>3
    <3> QED
      BY <3>1, <3>2
  <2> QED
    BY <2>3
<1>7. Good(n)
    BY <1>6
<1> QED
    BY <1>2, <1>7

\* F[k] is what Among keeps of the first k nodes.
IsAmong(F, s, S, n) ==
    /\ F[0] = <<>>
    /\ \A k \in 1..n : F[k] = IF s[k] \in S THEN Append(F[k - 1], s[k]) ELSE F[k - 1]

\* Among is the end of that recursion.
LEMMA AmongIs ==
    ASSUME NEW T, NEW s \in Seq(T), NEW S
    PROVE  \E F : IsAmong(F, s, S, Len(s)) /\ Among(s, S) = F[Len(s)]
<1> DEFINE F == CHOOSE F : F = [k \in 0..Len(s) |-> IF k = 0 THEN <<>>
            ELSE IF s[k] \in S THEN Append(F[k - 1], s[k]) ELSE F[k - 1]]
<1>1. Among(s, S) = F[Len(s)]
    BY DEF Among
<1>2. F = [k \in 0..Len(s) |-> IF k = 0 THEN <<>>
            ELSE IF s[k] \in S THEN Append(F[k - 1], s[k]) ELSE F[k - 1]]
  <2>1. \E G : G = [k \in 0..Len(s) |-> IF k = 0 THEN <<>>
            ELSE IF s[k] \in S THEN Append(G[k - 1], s[k]) ELSE G[k - 1]]
    BY AmongExists, ZenonT(40)
  <2> QED
    BY <2>1
<1> HIDE DEF F
<1>3. IsAmong(F, s, S, Len(s))
  <2>1. Len(s) \in Nat
    OBVIOUS
  <2>2. 0 \in 0..Len(s) /\ \A k \in 1..Len(s) : k \in 0..Len(s) /\ k # 0
    BY <2>1
  <2> QED
    BY <1>2, <2>2 DEF IsAmong
<1> QED
    BY <1>1, <1>3

\* No node is in the list twice.
Distinct(s) == \A i, j \in 1..Len(s) : s[i] = s[j] => i = j

\* A node at the end of a list.
LEMMA AppendOne ==
    ASSUME NEW T, NEW s \in Seq(T), NEW x \in T
    PROVE  /\ Append(s, x) \in Seq(T) /\ ToSet(Append(s, x)) = ToSet(s) \cup {x}
           /\ Distinct(s) /\ x \notin ToSet(s) => Distinct(Append(s, x))
<1> DEFINE n == Len(s)
           t == Append(s, x)
<1>1. n \in Nat /\ Len(t) = n + 1 /\ t \in Seq(T) /\ t[n + 1] = x /\ \A i \in 1..n : t[i] = s[i]
    OBVIOUS
<1>2. DOMAIN s = 1..n /\ DOMAIN t = 1..n + 1
    BY <1>1
<1> HIDE DEF n, t
<1>3. 1..n + 1 = 1..n \cup {n + 1} /\ n + 1 \notin 1..n
    BY <1>1
<1>4. ToSet(s) = {s[i] : i \in 1..n} /\ ToSet(t) = {t[i] : i \in 1..n + 1}
    BY <1>2 DEF ToSet
<1>5. ToSet(t) = ToSet(s) \cup {x}
  <2>1. ASSUME NEW y \in ToSet(t) PROVE y \in ToSet(s) \cup {x}
    BY <1>1, <1>3, <1>4
  <2>2. ASSUME NEW y \in ToSet(s) \cup {x} PROVE y \in ToSet(t)
    BY <1>1, <1>3, <1>4
  <2> QED
    BY <2>1, <2>2
<1>6. ASSUME Distinct(s), x \notin ToSet(s) PROVE Distinct(t)
  <2>1. \A i \in 1..n : s[i] # x
    BY <1>4, <1>6
  <2>2. \A i, j \in 1..n : s[i] = s[j] => i = j
    BY <1>6 DEF Distinct, n
  <2> QED
    BY <1>1, <1>3, <2>1, <2>2 DEF Distinct
<1> QED
    BY <1>1, <1>5, <1>6 DEF t

\* What Among keeps are the nodes of the list that are in the set, each as often
\* as it was: shown of every prefix, by the least one of which it would not hold.
LEMMA AmongFacts ==
    ASSUME NEW T, NEW s \in Seq(T), NEW S
    PROVE  /\ Among(s, S) \in Seq(T) /\ ToSet(Among(s, S)) = ToSet(s) \cap S
           /\ Distinct(s) => Distinct(Among(s, S))
<1>1. PICK F : IsAmong(F, s, S, Len(s)) /\ Among(s, S) = F[Len(s)]
    BY AmongIs
<1> DEFINE N == Len(s)
           First(n) == {s[i] : i \in 1..n}
           Good(n) == /\ F[n] \in Seq(T) /\ ToSet(F[n]) = First(n) \cap S
                      /\ Distinct(s) => Distinct(F[n])
           Bad == {n \in 0..N : ~Good(n)}
<1>2. N \in Nat /\ ToSet(s) = First(N) /\ \A k \in 1..N : s[k] \in T
    BY DEF ToSet
<1> HIDE DEF Good, N
<1>3. SUFFICES ASSUME Bad # {} PROVE FALSE
  <2>1. Good(N)
    BY <1>2
  <2> QED
    BY <1>1, <1>2, <2>1 DEF Good, N
<1>4. Bad \in SUBSET Nat
    BY <1>2
<1>5. PICK n \in Bad : \A m \in Bad : n <= m
    BY <1>3, <1>4, LeastExists
<1>6. n \in 0..N /\ ~Good(n) /\ N \in Nat
    BY <1>2, <1>5
<1>7. Good(0)
  <2>1. F[0] = <<>> /\ 1..0 = {} /\ Len(<<>>) = 0 /\ <<>> \in Seq(T) /\ ToSet(<<>>) = {}
    BY <1>1 DEF IsAmong, ToSet
  <2> QED
    BY <2>1 DEF Good, Distinct
<1>8. n # 0
    BY <1>6, <1>7
<1>9. n - 1 \in 0..N /\ ~(n <= n - 1) /\ n \in 1..N /\ 1..n = 1..n - 1 \cup {n} /\ n \notin 1..n - 1 /\ 1..n - 1 \subseteq 1..N
    BY <1>6, <1>8
<1>10. Good(n - 1)
    BY <1>5, <1>9
<1>11. /\ F[n - 1] \in Seq(T) /\ ToSet(F[n - 1]) = First(n - 1) \cap S
       /\ Distinct(s) => Distinct(F[n - 1])
    BY <1>10 DEF Good
<1>13. F[n] = IF s[n] \in S THEN Append(F[n - 1], s[n]) ELSE F[n - 1]
    BY <1>1, <1>9 DEF IsAmong, N
<1>14. s[n] \in T /\ First(n) = First(n - 1) \cup {s[n]}
    BY <1>2, <1>9
<1>15. CASE s[n] \notin S
    BY <1>6, <1>11, <1>13, <1>14, <1>15 DEF Good
<1>16. CASE s[n] \in S
  <2>1. F[n] = Append(F[n - 1], s[n])
    BY <1>13, <1>16
  <2>2. F[n] \in Seq(T) /\ ToSet(F[n]) = ToSet(F[n - 1]) \cup {s[n]}
    BY <1>11, <1>14, <2>1, AppendOne
  <2>3. ASSUME Distinct(s) PROVE Distinct(F[n])
    <3>1. \A i \in 1..n - 1 : s[i] # s[n]
      BY <1>9, <2>3 DEF Distinct, N
    <3>2. s[n] \notin ToSet(F[n - 1])
      BY <1>11, <3>1
    <3> QED
      BY <1>11, <1>14, <2>1, <2>3, <3>2, AppendOne
  <2>4. ToSet(F[n]) = First(n) \cap S
    BY <1>11, <1>14, <1>16, <2>2
  <2> QED
    BY <1>6, <2>2, <2>3, <2>4 DEF Good
<1> QED
    BY <1>15, <1>16

\* A list without repetitions is as long as it has nodes.
LEMMA DistinctLength ==
    ASSUME NEW T, NEW s \in Seq(T), Distinct(s)
    PROVE  /\ Cardinality(ToSet(s)) = Len(s) /\ IsFiniteSet(ToSet(s)) /\ Len(s) \in Nat
           /\ s # <<>> => Head(s) \in ToSet(s)
           /\ Len(s) > 0 => s # <<>>
<1>1. Len(s) \in Nat /\ DOMAIN s = 1..Len(s)
    OBVIOUS
<1>2. s \in [1..Len(s) -> ToSet(s)]
    BY <1>1 DEF ToSet
<1>3. \A x \in ToSet(s) : \E i \in 1..Len(s) : s[i] = x
    BY <1>1 DEF ToSet
<1>4. s \in Bijection(1..Len(s), ToSet(s))
    BY <1>2, <1>3 DEF Bijection, Injection, Surjection, IsInjective, Distinct
<1>5. ExistsBijection(1..Len(s), ToSet(s))
    BY <1>4 DEF ExistsBijection
<1>6. IsFiniteSet(1..Len(s)) /\ Cardinality(1..Len(s)) = Len(s)
    BY <1>1, FS_Interval
<1>7. Cardinality(ToSet(s)) = Len(s) /\ IsFiniteSet(ToSet(s))
    BY <1>5, <1>6, FS_Bijection
<1>8. s # <<>> => Head(s) \in ToSet(s)
  <2>1. s # <<>> => Head(s) = s[1] /\ 1 \in 1..Len(s)
    OBVIOUS
  <2> QED
    BY <1>1, <2>1 DEF ToSet
<1>9. Len(s) > 0 => s # <<>>
    OBVIOUS
<1> QED
    BY <1>1, <1>7, <1>8, <1>9
----------------------------------------------------------------------------
(* The route table. *)

\* Every target of the table has its age, once, and there are no more of them than
\* max_entries.
TableInv ==
    /\ routes \in [Node -> Entries \cup {None}]
    /\ byAge \in Seq(Node) /\ Distinct(byAge)
    /\ ToSet(byAge) = {t \in Node : routes[t] # None}
    /\ Len(byAge) <= MaxEntries

\* The bounds are natural numbers.
LEMMA TableConstants == MaxEntries \in Nat /\ MaxEntries > 0 /\ MaxCandidates \in Nat /\ None \notin Entries
BY TableAssumption, EntriesAssumption

\* A list of targets that is made from the one there was, t moved to its end.
LEMMA MovedToEnd ==
    ASSUME TableInv, NEW t \in Node, NEW E, E \subseteq Node
    PROVE  LET s == Append(Among(byAge, Node \ ({t} \cup E)), t) IN
              /\ s \in Seq(Node) /\ Distinct(s) /\ ToSet(s) = (ToSet(byAge) \ E) \cup {t}
              /\ Len(s) = Cardinality((ToSet(byAge) \ E) \cup {t})
<1> DEFINE r == Among(byAge, Node \ ({t} \cup E))
           s == Append(r, t)
<1>1. byAge \in Seq(Node) /\ Distinct(byAge) /\ ToSet(byAge) \subseteq Node
    BY DEF TableInv
<1>2. r \in Seq(Node) /\ ToSet(r) = ToSet(byAge) \cap (Node \ ({t} \cup E)) /\ Distinct(r)
    BY <1>1, AmongFacts
<1> HIDE DEF r
<1>3. t \notin ToSet(r) /\ ToSet(r) \cup {t} = (ToSet(byAge) \ E) \cup {t}
    BY <1>1, <1>2
<1>4. s \in Seq(Node) /\ ToSet(s) = ToSet(r) \cup {t} /\ Distinct(s)
    BY <1>2, <1>3, AppendOne
<1> HIDE DEF s
<1>5. Len(s) = Cardinality(ToSet(s))
    BY <1>4, DistinctLength
<1> QED
    BY <1>3, <1>4, <1>5 DEF r, s

\* Inserting a target: one that is new evicts the oldest when the table is full.
LEMMA InsertKeeps ==
    ASSUME TableInv, NEW t \in Node, NEW e \in Entries, InsertOrEvict(t, e)
    PROVE  TableInv'
<1> DEFINE E == IF ~HasRoute(t) /\ Len(byAge) >= MaxEntries THEN {Head(byAge)} ELSE {}
           R == ToSet(byAge)
<1>1. /\ routes \in [Node -> Entries \cup {None}] /\ R = {u \in Node : routes[u] # None}
      /\ byAge \in Seq(Node) /\ Distinct(byAge) /\ Len(byAge) <= MaxEntries
    BY DEF TableInv
<1>2. Cardinality(R) = Len(byAge) /\ IsFiniteSet(R) /\ Len(byAge) \in Nat
      /\ (byAge # <<>> => Head(byAge) \in R) /\ (Len(byAge) > 0 => byAge # <<>>)
    BY <1>1, DistinctLength
<1>3. /\ routes' = [u \in Node |-> IF u = t THEN e ELSE IF u \in E THEN None ELSE routes[u]]
      /\ byAge' = Append(Among(byAge, Node \ ({t} \cup E)), t)
    BY DEF InsertOrEvict
<1>4. E \subseteq R /\ (t \in R => E = {})
  <2>1. t \in R <=> HasRoute(t)
    BY <1>1 DEF HasRoute
  <2>2. Len(byAge) >= MaxEntries => Head(byAge) \in R
    BY <1>2, TableConstants
  <2> QED
    BY <2>1, <2>2
<1>5. Cardinality((R \ E) \cup {t}) <= MaxEntries
  <2>1. CASE t \in R
    <3>1. (R \ E) \cup {t} = R
      BY <1>4, <2>1
    <3> QED
      BY <1>1, <1>2, <3>1
  <2>2. CASE t \notin R /\ Len(byAge) < MaxEntries
    <3>1. E = {}
      BY <1>2, <2>2, TableConstants
    <3>2. (R \ E) \cup {t} = R \cup {t}
      BY <3>1
    <3>3. Cardinality(R \cup {t}) = Cardinality(R) + 1
      BY <1>2, <2>2, FS_AddElement
    <3>4. \A n, m \in Nat : n < m => n + 1 <= m
      OBVIOUS
    <3>5. Cardinality(R) + 1 <= MaxEntries
      BY <1>2, <2>2, <3>4, TableConstants
    <3> QED
      BY <3>2, <3>3, <3>5
  <2>3. CASE t \notin R /\ ~(Len(byAge) < MaxEntries)
    <3>0. ~HasRoute(t) /\ Len(byAge) >= MaxEntries /\ Len(byAge) > 0
      BY <1>1, <1>2, <2>3, TableConstants DEF HasRoute
    <3>1. E = {Head(byAge)} /\ Head(byAge) \in R
      BY <1>2, <3>0
    <3>2. IsFiniteSet(R \ E) /\ Cardinality(R \ E) = Cardinality(R) - 1
      BY <1>2, <3>1, FS_RemoveElement
    <3>3. Cardinality((R \ E) \cup {t}) = Cardinality(R \ E) + 1
      BY <2>3, <3>2, FS_AddElement
    <3>4. \A n \in Nat : n - 1 + 1 = n
      OBVIOUS
    <3>5. Cardinality((R \ E) \cup {t}) = Len(byAge)
      BY <1>2, <3>2, <3>3, <3>4
    <3> QED
      BY <1>1, <3>5
  <2> QED
    BY <2>1, <2>2, <2>3
<1>6. /\ byAge' \in Seq(Node) /\ Distinct(byAge') /\ ToSet(byAge') = (R \ E) \cup {t}
      /\ Len(byAge') = Cardinality((R \ E) \cup {t})
  <2>1. E \subseteq Node
    BY <1>1, <1>4
  <2> HIDE DEF E
  <2> QED
    BY <1>3, <2>1, MovedToEnd
<1> HIDE DEF E
<1>7. routes' \in [Node -> Entries \cup {None}]
    BY <1>1, <1>3
<1>8. (R \ E) \cup {t} = {u \in Node : routes'[u] # None}
    BY <1>1, <1>3, <1>4, TableConstants
<1> QED
    BY <1>5, <1>6, <1>7, <1>8 DEF TableInv

\* Dropping targets from the table.
LEMMA DropKeeps ==
    ASSUME TableInv, NEW D, D \subseteq Node,
           routes' = [u \in Node |-> IF u \in D THEN None ELSE routes[u]], byAge' = Among(byAge, Node \ D)
    PROVE  TableInv'
<1>1. /\ routes \in [Node -> Entries \cup {None}] /\ ToSet(byAge) = {u \in Node : routes[u] # None}
      /\ byAge \in Seq(Node) /\ Distinct(byAge) /\ Len(byAge) <= MaxEntries
    BY DEF TableInv
<1>2. byAge' \in Seq(Node) /\ ToSet(byAge') = ToSet(byAge) \cap (Node \ D) /\ Distinct(byAge')
    BY <1>1, AmongFacts
<1>3. routes' \in [Node -> Entries \cup {None}] /\ ToSet(byAge') = {u \in Node : routes'[u] # None}
    BY <1>1, <1>2
<1>4. Cardinality(ToSet(byAge)) = Len(byAge) /\ IsFiniteSet(ToSet(byAge)) /\ Len(byAge) \in Nat
    BY <1>1, DistinctLength
<1>5. Cardinality(ToSet(byAge')) = Len(byAge') /\ Len(byAge') \in Nat
    BY <1>2, DistinctLength
<1>6. Cardinality(ToSet(byAge')) <= Cardinality(ToSet(byAge))
    BY <1>2, <1>4, FS_Subset
<1>7. Len(byAge') <= MaxEntries
    BY <1>1, <1>4, <1>5, <1>6, TableConstants
<1> QED
    BY <1>2, <1>3, <1>7 DEF TableInv

\* Changing an entry that is there, its age or not.
LEMMA UpdateKeeps ==
    ASSUME TableInv, NEW t \in Node, routes[t] # None, NEW e \in Entries, routes' = [routes EXCEPT ![t] = e],
           byAge' = byAge \/ byAge' = Append(Among(byAge, Node \ {t}), t)
    PROVE  TableInv'
<1>1. /\ routes \in [Node -> Entries \cup {None}] /\ ToSet(byAge) = {u \in Node : routes[u] # None}
      /\ byAge \in Seq(Node) /\ Distinct(byAge) /\ Len(byAge) <= MaxEntries
    BY DEF TableInv
<1>2. routes' \in [Node -> Entries \cup {None}] /\ {u \in Node : routes'[u] # None} = ToSet(byAge)
    BY <1>1, TableConstants
<1>3. CASE byAge' = byAge
    BY <1>1, <1>2, <1>3 DEF TableInv
<1>4. CASE byAge' = Append(Among(byAge, Node \ {t}), t)
  <2>1. (ToSet(byAge) \ {}) \cup {t} = ToSet(byAge) /\ Node \ ({t} \cup {}) = Node \ {t} /\ {} \subseteq Node
    BY <1>1
  <2>2. LET s == Append(Among(byAge, Node \ ({t} \cup {})), t) IN
              /\ s \in Seq(Node) /\ Distinct(s) /\ ToSet(s) = (ToSet(byAge) \ {}) \cup {t}
              /\ Len(s) = Cardinality((ToSet(byAge) \ {}) \cup {t})
    BY <2>1, MovedToEnd
  <2>3. byAge' \in Seq(Node) /\ Distinct(byAge') /\ ToSet(byAge') = ToSet(byAge)
        /\ Len(byAge') = Cardinality(ToSet(byAge))
    BY <1>4, <2>1, <2>2
  <2>4. Len(byAge') <= MaxEntries
    BY <1>1, <2>3, DistinctLength
  <2> QED
    BY <1>2, <2>3, <2>4 DEF TableInv
<1> QED
    BY <1>3, <1>4

\* What an entry of the table, and what the DHT finds, is.
LEMMA DiscoveredEntry ==
    ASSUME NEW t \in Node, CanDiscover(t)
    PROVE  Discovered(t) \in Entries
<1> DEFINE d == Dht[t]
           others == Among(Tail(d), Node \ {Head(d)})
           n == IF Len(others) < MaxCandidates THEN Len(others) ELSE MaxCandidates
<1>1. d \in Seq(Node) /\ d # <<>>
    BY NodesAssumption DEF CanDiscover
<1>2. Tail(d) \in Seq(Node) /\ Head(d) \in Node
    BY <1>1
<1> HIDE DEF d
<1>3. others \in Seq(Node)
    BY <1>2, AmongFacts
<1> HIDE DEF others
<1>4. n \in 0..Len(others)
    BY <1>3, TableConstants
<1> HIDE DEF n
<1>5. SubSeq(others, 1, n) \in Seq(Node)
    BY <1>3, <1>4
<1>6. Discovered(t) = Entry(Head(d), SubSeq(others, 1, n))
    BY DEF Discovered, d, others, n
<1> QED
    BY <1>2, <1>5, <1>6 DEF Entry, Entries

\* What is done to the table, under one lock.
TableCall ==
    \/ UNCHANGED tableVars
    \/ \E t \in Node, e \in Entries : InsertOrEvict(t, e)
    \/ \E t \in Node : RemoveRoute(t) \/ MarkInvalid(t) \/ Expire(t) \/ FindAlternative(t)
    \/ \E t \in Node : /\ routes' = IF HasRoute(t) THEN [routes EXCEPT ![t].valid = TRUE] ELSE routes
                       /\ UNCHANGED byAge
    \/ CleanupExpired

\* Every such step keeps the table.
LEMMA TableCallKeeps == ASSUME TableInv, TableCall PROVE TableInv'
<1>0. /\ routes \in [Node -> Entries \cup {None}] /\ byAge \in Seq(Node)
    BY DEF TableInv
<1>1. CASE UNCHANGED tableVars
    BY <1>1 DEF TableInv, tableVars
<1>2. CASE \E t \in Node, e \in Entries : InsertOrEvict(t, e)
    BY <1>2, InsertKeeps
<1>3. CASE \E t \in Node : RemoveRoute(t)
  <2>1. PICK t \in Node : RemoveRoute(t)
    BY <1>3
  <2>2. routes' = [u \in Node |-> IF u \in {t} THEN None ELSE routes[u]] /\ byAge' = Among(byAge, Node \ {t})
    BY <1>0, <2>1 DEF RemoveRoute
  <2> QED
    BY <2>2, DropKeeps
<1>4. ASSUME NEW t \in Node, NEW v \in BOOLEAN, byAge' = byAge,
             routes' = IF HasRoute(t) THEN [routes EXCEPT ![t].valid = v] ELSE routes
      PROVE  TableInv'
  <2>1. CASE HasRoute(t)
    <3> DEFINE e == [routes[t] EXCEPT !.valid = v]
    <3>1. routes[t] \in Entries
      BY <1>0, <2>1 DEF HasRoute
    <3>2. e \in Entries
      BY <3>1 DEF Entries
    <3>3. routes' = [routes EXCEPT ![t] = e]
      BY <1>0, <1>4, <2>1
    <3> HIDE DEF e
    <3> QED
      BY <1>4, <2>1, <3>2, <3>3, UpdateKeeps DEF HasRoute
  <2>2. CASE ~HasRoute(t)
    BY <1>4, <2>2 DEF TableInv
  <2> QED
    BY <2>1, <2>2
<1>5. CASE \E t \in Node : MarkInvalid(t)
    BY <1>4, <1>5 DEF MarkInvalid
<1>6. CASE \E t \in Node : Expire(t)
    BY <1>4, <1>6 DEF Expire
<1>7. CASE \E t \in Node : FindAlternative(t)
  <2>1. PICK t \in Node : FindAlternative(t)
    BY <1>7
  <2> DEFINE cs == routes[t].candidates
             alt == Among(cs, Node \ {routes[t].hop, Local})
  <2>2. HasRoute(t) /\ Alternatives(t) = alt /\ alt # <<>>
    BY <2>1 DEF FindAlternative, HasAlternative, Alternatives
  <2>3. routes[t] \in Entries
    BY <1>0, <2>2 DEF HasRoute
  <2>4. cs \in Seq(Node)
    BY <2>3 DEF Entries
  <2>5. alt \in Seq(Node)
    BY <2>4, AmongFacts
  <2>6. /\ routes' = [routes EXCEPT ![t] = Entry(Head(alt), cs)]
        /\ byAge' = Append(Among(byAge, Node \ {t}), t)
    BY <1>0, <2>1, <2>2 DEF FindAlternative
  <2> HIDE DEF cs, alt
  <2>7. Head(alt) \in Node
    BY <2>2, <2>5
  <2>8. Entry(Head(alt), cs) \in Entries
    BY <2>4, <2>7 DEF Entry, Entries
  <2> QED
    BY <2>2, <2>6, <2>8, UpdateKeeps DEF HasRoute
<1>8. CASE \E t \in Node : /\ routes' = IF HasRoute(t) THEN [routes EXCEPT ![t].valid = TRUE] ELSE routes
                           /\ UNCHANGED byAge
    BY <1>4, <1>8
<1>9. CASE CleanupExpired
  <2> DEFINE D == {t \in Node : Expired(t)}
  <2>1. {x \in Node : ~Expired(x)} = Node \ D
    OBVIOUS
  <2>2. routes' = [t \in Node |-> IF t \in D THEN None ELSE routes[t]] /\ byAge' = Among(byAge, Node \ D)
    BY <1>9, <2>1 DEF CleanupExpired
  <2>3. D \subseteq Node
    OBVIOUS
  <2> HIDE DEF D
  <2> QED
    BY <2>2, <2>3, DropKeeps
<1> QED
    BY <1>1, <1>2, <1>3, <1>5, <1>6, <1>7, <1>8, <1>9 DEF TableCall

----------------------------------------------------------------------------
(* The threads of the self-healing. *)

\* The steps of the threads, and those at which they are dealing with a node.
BusySteps == {"markOnline", "lookRoute", "rebuild", "alternative", "discover", "removeRoute", "findAffected",
              "track", "trackOffline", "received", "tryDiscover", "markRecovered", "sync"}
Steps == BusySteps \cup {"idle", "pongs", "attempts", "invalidate"}
AttemptSteps == {"attempts", "tryDiscover", "markRecovered"}
HealStates == [offline : BOOLEAN, attempts : 0..MaxAttempts]

ThreadTypeOK ==
    /\ heal \in [Node -> HealStates \cup {None}]
    /\ pongs \subseteq Node /\ heard \subseteq Node /\ stale \subseteq Node
    /\ pc \in [Thread -> Steps]
    /\ cur \in [Thread -> Node \cup {None}]
    /\ todo \in [Thread -> SUBSET Node]
    /\ \A t \in Thread : pc[t] \in BusySteps => cur[t] \in Node

\* A node that the loop is still to probe has a probe left, whatever the other
\* threads have done to its state since the loop listed it.
AttemptsLeft ==
    pc["loop"] \in AttemptSteps =>
        \A n \in todo["loop"] : MaxAttempts > 0 /\ (heal[n] # None => heal[n].attempts < MaxAttempts)

HealInv == HbTypeOK /\ TableInv /\ ThreadTypeOK /\ AttemptsLeft

\* It implies what the runs check.
LEMMA HealInvImplies == HealInv => HealTypeOK /\ TableBounded
<1> SUFFICES ASSUME HealInv PROVE HealTypeOK /\ TableBounded
    OBVIOUS
<1>1. HealTypeOK
    BY DEF HealInv, HealTypeOK, TableInv, RouteTypeOK, ThreadTypeOK, HealStates
<1>2. byAge \in Seq(Node) /\ Distinct(byAge) /\ Len(byAge) <= MaxEntries /\ ToSet(byAge) = {t \in Node : HasRoute(t)}
    BY DEF HealInv, TableInv, HasRoute
<1>3. Cardinality(ToSet(byAge)) = Len(byAge)
    BY <1>2, DistinctLength
<1> QED
    BY <1>1, <1>2, <1>3 DEF TableBounded

\* It holds at first.
LEMMA HealInvInit == HealInit => HealInv
<1> SUFFICES ASSUME HealInit PROVE HealInv
    OBVIOUS
<1>1. HbTypeOK
    BY HbTypeInit DEF HealInit
<1>2. TableInv
  <2>1. /\ <<>> \in Seq(Node) /\ Distinct(<<>>) /\ ToSet(<<>>) = {} /\ Len(<<>>) = 0
    BY DEF Distinct, ToSet
  <2>2. routes = [t \in Node |-> None] /\ byAge = <<>>
    BY DEF HealInit, RouteInit
  <2> QED
    BY <2>1, <2>2, TableConstants DEF TableInv
<1>3. ThreadTypeOK
    BY DEF HealInit, RouteInit, ThreadTypeOK, Steps, BusySteps
<1>4. AttemptsLeft
    BY DEF HealInit, AttemptsLeft, AttemptSteps, Thread
<1> QED
    BY <1>1, <1>2, <1>3, <1>4 DEF HealInv

\* To the heartbeat module the self-healing is a callback that takes its time.
LEMMA HealStepIsHeartbeat == [HealNext]_allVars => [HbNext]_hbVars
BY DEF HealNext, allVars, healVars, HeartbeatCallback, HealLoop, Messages, Application, Heartbeats, RouteCalls, RefreshRoutes,
       Recover, MarkOnline, LookRoute, RebuildRoute, SwitchTargets, Invalidate, TryAlternative, Rediscover, AllSwitched,
       MarkOffline, RemoveTarget, FindAffected, CameOnline, TrackOnline, Received, CheckReceived, TakePongs, CheckPong,
       ScanOffline, EndRound, RecordAttempt, TryDiscover, MarkRecovered, HealPong, PartitionSync, CheckSync,
       HandlePathFailure, TrackingCall, Done, HbNext

\* Every step does one thing to the table, if anything.
LEMMA HealStepIsTableCall == ASSUME HealInv, [HealNext]_allVars PROVE TableCall
<1>0. \A t \in Thread : pc[t] \in BusySteps => cur[t] \in Node
    BY DEF HealInv, ThreadTypeOK
<1>1. \A t \in Node : DiscoverRoute(t) => TableCall
    BY DiscoveredEntry DEF DiscoverRoute, TableCall
<1>2. UNCHANGED tableVars => TableCall
    BY DEF TableCall
<1>3. ASSUME NEW t \in Thread, Recover(t) PROVE TableCall
    BY <1>0, <1>1, <1>2, <1>3 DEF Recover, MarkOnline, LookRoute, RebuildRoute, BusySteps
<1>4. ASSUME NEW t \in Thread, SwitchTargets(t) PROVE TableCall
  <2>1. CASE Invalidate(t)
    <3>1. todo[t] \subseteq Node
      BY DEF HealInv, ThreadTypeOK
    <3> QED
      BY <2>1, <3>1 DEF Invalidate, TableCall
  <2>2. CASE TryAlternative(t)
    BY <1>0, <1>2, <2>2 DEF TryAlternative, TableCall, BusySteps, tableVars
  <2>3. CASE Rediscover(t)
    BY <1>0, <1>1, <1>2, <2>3 DEF Rediscover, BusySteps
  <2>4. CASE AllSwitched(t)
    BY <1>2, <2>4 DEF AllSwitched
  <2> QED
    BY <1>4, <2>1, <2>2, <2>3, <2>4 DEF SwitchTargets
<1>5. CASE HeartbeatCallback
    BY <1>0, <1>2, <1>3, <1>4, <1>5 DEF HeartbeatCallback, MarkOffline, CameOnline, Received, RemoveTarget, FindAffected,
          TrackOnline, CheckReceived, TableCall, Thread, BusySteps
<1>6. CASE HealLoop
  <2>1. CASE TryDiscover
    BY <1>0, <1>1, <1>2, <2>1 DEF TryDiscover, Thread, BusySteps
  <2> QED
    BY <1>2, <1>3, <1>6, <2>1 DEF HealLoop, TakePongs, CheckPong, ScanOffline, EndRound, RecordAttempt, MarkRecovered, Thread
<1>7. CASE Messages
    BY <1>2, <1>3, <1>7 DEF Messages, HealPong, PartitionSync, CheckSync, Thread
<1>8. CASE Application
    BY <1>2, <1>4, <1>8 DEF Application, HandlePathFailure, TrackingCall, Thread
<1>9. CASE Heartbeats
    BY <1>2, <1>9 DEF Heartbeats
<1>10. CASE RouteCalls
  <2>1. CASE \E t \in Direct : AddDirectRoute(t)
    <3>1. PICK t \in Direct : AddDirectRoute(t)
      BY <2>1
    <3>2. t \in Node
      BY NodesAssumption
    <3>3. <<t>> \in Seq(Node)
      BY <3>2
    <3>4. Entry(t, <<t>>) \in Entries
      BY <3>2, <3>3 DEF Entry, Entries
    <3> QED
      BY <3>1, <3>2, <3>4 DEF AddDirectRoute, TableCall
  <2>2. CASE \E c \in Custom : InsertOrEvict(c[1], c[2])
    <3>1. PICK c \in Custom : InsertOrEvict(c[1], c[2])
      BY <2>2
    <3>2. c[1] \in Node /\ c[2] \in Entries
      BY EntriesAssumption
    <3> QED
      BY <3>1, <3>2 DEF TableCall
  <2> QED
    BY <1>10, <2>1, <2>2 DEF RouteCalls, TableCall
<1>11. CASE RefreshRoutes
  <2>1. CASE ListStale
    BY <1>2, <2>1 DEF ListStale, tableVars
  <2>2. CASE \E t \in Node : RefreshStale(t)
    BY <1>1, <2>2 DEF RefreshStale, TableCall
  <2> QED
    BY <1>11, <2>1, <2>2 DEF RefreshRoutes
<1>12. CASE UNCHANGED allVars
    BY <1>2, <1>12 DEF allVars, routeVars, tableVars
<1> QED
    BY <1>5, <1>6, <1>7, <1>8, <1>9, <1>10, <1>11, <1>12 DEF HealNext

\* Where the threads are, and what they work on.
PcTypeOK ==
    /\ pc \in [Thread -> Steps]
    /\ cur \in [Thread -> Node \cup {None}]
    /\ \A t \in Thread : pc[t] \in BusySteps => cur[t] \in Node

DataTypeOK ==
    /\ heal \in [Node -> HealStates \cup {None}]
    /\ pongs \subseteq Node /\ heard \subseteq Node /\ stale \subseteq Node
    /\ todo \in [Thread -> SUBSET Node]

\* A thread goes on to a step with the node it has.
LEMMA GotoTyped ==
    ASSUME PcTypeOK, NEW t \in Thread, NEW s \in Steps, Goto(t, s), cur' = cur, s \in BusySteps => cur[t] \in Node
    PROVE  PcTypeOK'
BY DEF PcTypeOK, Goto

\* A thread goes on to a step for a node.
LEMMA GotoForTyped ==
    ASSUME PcTypeOK, NEW t \in Thread, NEW s \in Steps, NEW n \in Node \cup {None}, GotoFor(t, s, n),
           s \in BusySteps => n \in Node
    PROVE  PcTypeOK'
BY DEF PcTypeOK, Goto, GotoFor

\* A thread is through with its node.
LEMMA DoneTyped ==
    ASSUME PcTypeOK, NEW t \in Thread, Done(t)
    PROVE  PcTypeOK' /\ pc' = [pc EXCEPT ![t] = IF t = "loop" THEN "pongs" ELSE "idle"]
<1> DEFINE s == IF t = "loop" THEN "pongs" ELSE "idle"
<1>1. s \in Steps /\ s \notin BusySteps
    BY DEF Steps, BusySteps
<1>2. GotoFor(t, s, None)
    BY DEF Done
<1>3. pc' = [pc EXCEPT ![t] = s]
    BY <1>2 DEF GotoFor, Goto
<1> HIDE DEF s
<1>4. PcTypeOK'
    BY <1>1, <1>2, GotoForTyped
<1> QED
    BY <1>3, <1>4 DEF s

\* A step that does not list nodes for the loop to probe keeps what is said of the
\* ones listed.
LoopKept ==
    pc'["loop"] \in AttemptSteps =>
        /\ pc["loop"] \in AttemptSteps
        /\ todo'["loop"] \subseteq todo["loop"]
        /\ \A n \in todo'["loop"] : heal'[n] = heal[n] \/ heal'[n] = None \/ heal'[n].attempts = 0

\* And it does.
LEMMA LoopKeptKeeps ==
    ASSUME AttemptsLeft, LoopKept
    PROVE  AttemptsLeft'
<1> SUFFICES ASSUME pc'["loop"] \in AttemptSteps, NEW n \in todo'["loop"]
             PROVE  MaxAttempts > 0 /\ (heal'[n] # None => heal'[n].attempts < MaxAttempts)
    BY DEF AttemptsLeft
<1>1. n \in todo["loop"] /\ MaxAttempts > 0 /\ (heal[n] # None => heal[n].attempts < MaxAttempts)
    BY DEF AttemptsLeft, LoopKept
<1>2. heal'[n] = heal[n] \/ heal'[n] = None \/ heal'[n].attempts = 0
    BY DEF LoopKept
<1> QED
    BY <1>1, <1>2, AttemptsAssumption

\* A fresh state.
LEMMA FreshState ==
    /\ State(FALSE, 0) \in HealStates /\ State(TRUE, 0) \in HealStates
    /\ State(FALSE, 0).attempts = 0 /\ State(TRUE, 0).attempts = 0
BY AttemptsAssumption DEF State, HealStates

\* Setting a node's state to a fresh one, or leaving it.
LEMMA SetHealTyped ==
    ASSUME DataTypeOK, NEW n \in Node, NEW s, (s \in HealStates /\ s.attempts = 0) \/ s = None \/ s = heal[n], SetHeal(n, s)
    PROVE  /\ heal' \in [Node -> HealStates \cup {None}]
           /\ \A m \in Node : heal'[m] = heal[m] \/ heal'[m] = None \/ heal'[m].attempts = 0
BY DEF DataTypeOK, SetHeal

\* add_node does one or the other.
LEMMA TrackTyped ==
    ASSUME DataTypeOK, NEW n \in Node, Track(n)
    PROVE  /\ heal' \in [Node -> HealStates \cup {None}]
           /\ \A m \in Node : heal'[m] = heal[m] \/ heal'[m] = None \/ heal'[m].attempts = 0
<1>1. CASE heal[n] = None
    BY <1>1, FreshState, SetHealTyped DEF Track
<1>2. CASE heal[n] # None
    BY <1>2, SetHealTyped DEF Track
<1> QED
    BY <1>1, <1>2

ThreadStep == PcTypeOK' /\ DataTypeOK' /\ LoopKept

\* A thread that is not the loop, and the loop outside its attempts, only sets
\* fresh states.
LEMMA OtherStep ==
    ASSUME PcTypeOK, DataTypeOK, PcTypeOK', DataTypeOK', NEW t \in Thread,
           \A u \in Thread : u # t => pc'[u] = pc[u] /\ todo'[u] = todo[u],
           \A m \in Node : heal'[m] = heal[m] \/ heal'[m] = None \/ heal'[m].attempts = 0,
           t = "loop" => pc'[t] \notin AttemptSteps
    PROVE  ThreadStep
<1>1. "loop" \in Thread /\ todo'["loop"] \subseteq Node
    BY DEF Thread, DataTypeOK
<1>2. CASE t = "loop"
    BY <1>2 DEF ThreadStep, LoopKept
<1>3. CASE t # "loop"
    BY <1>1, <1>3 DEF ThreadStep, LoopKept
<1> QED
    BY <1>2, <1>3

\* Recovering.
LEMMA RecoverStep ==
    ASSUME PcTypeOK, DataTypeOK, NEW t \in Thread, Recover(t), stale' = stale
    PROVE  ThreadStep
<1>1. pc[t] \in BusySteps => cur[t] \in Node
    BY DEF PcTypeOK
<1>0. pc \in [Thread -> Steps]
    BY DEF PcTypeOK
<1>2. CASE MarkOnline(t)
  <2>1. cur[t] \in Node /\ SetHeal(cur[t], State(FALSE, 0)) /\ Goto(t, "lookRoute") /\ cur' = cur
        /\ UNCHANGED <<pongs, todo, heard>>
    BY <1>1, <1>2 DEF MarkOnline, BusySteps
  <2>2. /\ heal' \in [Node -> HealStates \cup {None}]
        /\ \A m \in Node : heal'[m] = heal[m] \/ heal'[m] = None \/ heal'[m].attempts = 0
    BY <2>1, FreshState, SetHealTyped
  <2>3. PcTypeOK'
    BY <2>1, GotoTyped DEF Steps, BusySteps
  <2>4. DataTypeOK'
    BY <2>1, <2>2 DEF DataTypeOK
  <2>5. pc' = [pc EXCEPT ![t] = "lookRoute"]
    BY <2>1 DEF Goto
  <2>6. pc'[t] = "lookRoute" /\ \A u \in Thread : u # t => pc'[u] = pc[u]
    BY <1>0, <2>5
  <2> QED
    BY <2>1, <2>2, <2>3, <2>4, <2>6, OtherStep DEF AttemptSteps
<1>3. CASE LookRoute(t) \/ RebuildRoute(t)
  <2>1. UNCHANGED <<heal, pongs, todo, heard>>
    BY <1>3 DEF LookRoute, RebuildRoute
  <2>2. DataTypeOK'
    BY <2>1 DEF DataTypeOK
  <2>3. (Goto(t, "rebuild") /\ cur' = cur /\ cur[t] \in Node) \/ Done(t)
    BY <1>1, <1>3 DEF LookRoute, RebuildRoute, BusySteps
  <2>4. CASE Done(t)
    <3>1. PcTypeOK' /\ pc' = [pc EXCEPT ![t] = IF t = "loop" THEN "pongs" ELSE "idle"]
      BY <2>4, DoneTyped
    <3>2. pc'[t] \notin AttemptSteps /\ \A u \in Thread : u # t => pc'[u] = pc[u]
      BY <1>0, <3>1 DEF AttemptSteps
    <3> QED
      BY <2>1, <2>2, <3>1, <3>2, OtherStep
  <2>5. CASE Goto(t, "rebuild") /\ cur' = cur /\ cur[t] \in Node
    <3>1. PcTypeOK'
      BY <2>5, GotoTyped DEF Steps, BusySteps
    <3>2. pc'[t] \notin AttemptSteps /\ \A u \in Thread : u # t => pc'[u] = pc[u]
      BY <1>0, <2>5 DEF Goto, AttemptSteps
    <3> QED
      BY <2>1, <2>2, <3>1, <3>2, OtherStep
  <2> QED
    BY <2>3, <2>4, <2>5
<1> QED
    BY <1>2, <1>3 DEF Recover

\* Switching the targets.
LEMMA SwitchStep ==
    ASSUME PcTypeOK, DataTypeOK, NEW t \in Thread, t # "loop", SwitchTargets(t), stale' = stale
    PROVE  ThreadStep
<1>1. pc \in [Thread -> Steps] /\ todo \in [Thread -> SUBSET Node] /\ (pc[t] \in BusySteps => cur[t] \in Node)
    BY DEF PcTypeOK, DataTypeOK
<1>2. UNCHANGED <<heal, pongs, heard>> /\ (todo' = todo \/ \E x : todo' = [todo EXCEPT ![t] = @ \ {x}])
    BY DEF SwitchTargets, Invalidate, TryAlternative, Rediscover, AllSwitched
<1>3. DataTypeOK' /\ \A u \in Thread : u # t => todo'[u] = todo[u]
    BY <1>1, <1>2 DEF DataTypeOK
<1>4. \/ \E n \in Node : GotoFor(t, "alternative", n)
      \/ GotoFor(t, "invalidate", None) \/ Done(t)
      \/ Goto(t, "discover") /\ cur' = cur /\ cur[t] \in Node
    BY <1>1 DEF SwitchTargets, Invalidate, TryAlternative, Rediscover, AllSwitched, BusySteps
<1>5. PcTypeOK'
  <2>1. CASE \E n \in Node : GotoFor(t, "alternative", n)
    BY <2>1, GotoForTyped DEF Steps, BusySteps
  <2>2. CASE GotoFor(t, "invalidate", None)
    BY <2>2, GotoForTyped DEF Steps, BusySteps
  <2>3. CASE Done(t)
    BY <2>3, DoneTyped
  <2>4. CASE Goto(t, "discover") /\ cur' = cur /\ cur[t] \in Node
    BY <2>4, GotoTyped DEF Steps, BusySteps
  <2> QED
    BY <1>4, <2>1, <2>2, <2>3, <2>4
<1>6. \A u \in Thread : u # t => pc'[u] = pc[u]
    BY <1>1, <1>4 DEF Done, GotoFor, Goto
<1> QED
    BY <1>2, <1>3, <1>5, <1>6, OtherStep

\* The callbacks.
LEMMA CallbackStep ==
    ASSUME PcTypeOK, DataTypeOK, HeartbeatCallback, stale' = stale
    PROVE  ThreadStep
<1>0. "hb" \in Thread /\ "hb" # "loop"
    BY DEF Thread
<1>1. pc \in [Thread -> Steps] /\ todo \in [Thread -> SUBSET Node] /\ (pc["hb"] \in BusySteps => cur["hb"] \in Node)
    BY <1>0 DEF PcTypeOK, DataTypeOK
<1>2. ASSUME NEW n \in Node, NEW s \in BusySteps, GotoFor("hb", s, n) PROVE PcTypeOK' /\ \A u \in Thread : u # "hb" => pc'[u] = pc[u]
    BY <1>0, <1>1, <1>2, GotoForTyped DEF Steps, GotoFor, Goto
<1>3. ASSUME NEW s \in BusySteps, Goto("hb", s), cur' = cur, cur["hb"] \in Node
      PROVE  PcTypeOK' /\ \A u \in Thread : u # "hb" => pc'[u] = pc[u]
    BY <1>0, <1>1, <1>3, GotoTyped DEF Steps, Goto
<1>4. ASSUME Done("hb") PROVE PcTypeOK' /\ \A u \in Thread : u # "hb" => pc'[u] = pc[u]
    BY <1>0, <1>1, <1>4, DoneTyped
<1>5. CASE \E n \in Node : MarkOffline(n)
  <2>1. PICK n \in Node : MarkOffline(n)
    BY <1>5
  <2>2. SetHeal(n, State(TRUE, 0)) /\ GotoFor("hb", "removeRoute", n) /\ UNCHANGED <<pongs, todo, heard>>
    BY <2>1 DEF MarkOffline
  <2>3. /\ heal' \in [Node -> HealStates \cup {None}]
        /\ \A m \in Node : heal'[m] = heal[m] \/ heal'[m] = None \/ heal'[m].attempts = 0
    BY <2>2, FreshState, SetHealTyped
  <2>4. DataTypeOK'
    BY <2>2, <2>3 DEF DataTypeOK
  <2>5. PcTypeOK' /\ \A u \in Thread : u # "hb" => pc'[u] = pc[u]
    BY <1>2, <2>2 DEF BusySteps
  <2> QED
    BY <1>0, <2>2, <2>3, <2>4, <2>5, OtherStep
<1>6. CASE \E n \in Node : CameOnline(n)
  <2>1. PICK n \in Node : CameOnline(n)
    BY <1>6
  <2>2. UNCHANGED <<heal, pongs, todo, heard>> /\ (GotoFor("hb", "trackOffline", n) \/ GotoFor("hb", "track", n))
    BY <2>1 DEF CameOnline
  <2>3. DataTypeOK'
    BY <2>2 DEF DataTypeOK
  <2>4. PcTypeOK' /\ \A u \in Thread : u # "hb" => pc'[u] = pc[u]
    BY <1>2, <2>2 DEF BusySteps
  <2> QED
    BY <1>0, <2>2, <2>3, <2>4, OtherStep
<1>7. CASE \E n \in Node : Received(n)
  <2>1. PICK n \in Node : Received(n)
    BY <1>7
  <2>2. Track(n) /\ GotoFor("hb", "received", n) /\ UNCHANGED <<pongs, todo, heard>>
    BY <2>1 DEF Received
  <2>3. /\ heal' \in [Node -> HealStates \cup {None}]
        /\ \A m \in Node : heal'[m] = heal[m] \/ heal'[m] = None \/ heal'[m].attempts = 0
    BY <2>2, TrackTyped
  <2>4. DataTypeOK'
    BY <2>2, <2>3 DEF DataTypeOK
  <2>5. PcTypeOK' /\ \A u \in Thread : u # "hb" => pc'[u] = pc[u]
    BY <1>2, <2>2 DEF BusySteps
  <2> QED
    BY <1>0, <2>2, <2>3, <2>4, <2>5, OtherStep
<1>8. CASE RemoveTarget
  <2>1. cur["hb"] \in Node /\ Goto("hb", "findAffected") /\ cur' = cur /\ UNCHANGED <<heal, pongs, todo, heard>>
    BY <1>1, <1>8 DEF RemoveTarget, BusySteps
  <2>2. DataTypeOK'
    BY <2>1 DEF DataTypeOK
  <2>3. PcTypeOK' /\ \A u \in Thread : u # "hb" => pc'[u] = pc[u]
    BY <1>3, <2>1 DEF BusySteps
  <2> QED
    BY <1>0, <2>1, <2>2, <2>3, OtherStep
<1>9. CASE FindAffected
  <2>1. /\ todo' = [todo EXCEPT !["hb"] = RoutesByNextHop(cur["hb"])] /\ UNCHANGED <<heal, pongs, heard>>
        /\ GotoFor("hb", "invalidate", None)
    BY <1>9 DEF FindAffected
  <2>2. RoutesByNextHop(cur["hb"]) \subseteq Node
    BY DEF RoutesByNextHop
  <2>3. DataTypeOK' /\ \A u \in Thread : u # "hb" => todo'[u] = todo[u]
    BY <1>1, <2>1, <2>2, stale' = stale DEF DataTypeOK
  <2>4. PcTypeOK' /\ \A u \in Thread : u # "hb" => pc'[u] = pc[u]
    BY <1>0, <1>1, <2>1, GotoForTyped DEF Steps, BusySteps, GotoFor, Goto
  <2> QED
    BY <1>0, <2>1, <2>3, <2>4, OtherStep
<1>10. CASE TrackOnline
  <2>1. cur["hb"] \in Node /\ Track(cur["hb"]) /\ UNCHANGED <<pongs, todo, heard>>
        /\ (Done("hb") \/ (Goto("hb", "markOnline") /\ cur' = cur))
    BY <1>1, <1>10 DEF TrackOnline, BusySteps
  <2>2. /\ heal' \in [Node -> HealStates \cup {None}]
        /\ \A m \in Node : heal'[m] = heal[m] \/ heal'[m] = None \/ heal'[m].attempts = 0
    BY <2>1, TrackTyped
  <2>3. DataTypeOK'
    BY <2>1, <2>2 DEF DataTypeOK
  <2>4. PcTypeOK' /\ \A u \in Thread : u # "hb" => pc'[u] = pc[u]
    BY <1>3, <1>4, <2>1 DEF BusySteps
  <2> QED
    BY <1>0, <2>1, <2>2, <2>3, <2>4, OtherStep
<1>11. CASE CheckReceived
  <2>1. /\ cur["hb"] \in Node /\ UNCHANGED <<pongs, todo, heard>>
        /\ \/ SetHeal(cur["hb"], State(FALSE, 0)) /\ Goto("hb", "markOnline") /\ cur' = cur
           \/ Done("hb") /\ heal' = heal
    BY <1>1, <1>11 DEF CheckReceived, BusySteps
  <2>2. /\ heal' \in [Node -> HealStates \cup {None}]
        /\ \A m \in Node : heal'[m] = heal[m] \/ heal'[m] = None \/ heal'[m].attempts = 0
    <3>1. CASE heal' = heal
      BY <3>1 DEF DataTypeOK
    <3> QED
      BY <2>1, <3>1, FreshState, SetHealTyped
  <2>3. DataTypeOK'
    BY <2>1, <2>2 DEF DataTypeOK
  <2>4. PcTypeOK' /\ \A u \in Thread : u # "hb" => pc'[u] = pc[u]
    BY <1>3, <1>4, <2>1 DEF BusySteps
  <2> QED
    BY <1>0, <2>1, <2>2, <2>3, <2>4, OtherStep
<1>12. CASE Recover("hb") \/ SwitchTargets("hb")
    BY <1>0, <1>12, RecoverStep, SwitchStep
<1> QED
    BY <1>5, <1>6, <1>7, <1>8, <1>9, <1>10, <1>11, <1>12 DEF HeartbeatCallback

\* The healing loop, but for the step that lists the nodes to probe.
LEMMA LoopStep ==
    ASSUME PcTypeOK, DataTypeOK, HealLoop, ~ScanOffline, AttemptsLeft, stale' = stale
    PROVE  ThreadStep
<1>0. "loop" \in Thread
    BY DEF Thread
<1>1. /\ pc \in [Thread -> Steps] /\ todo \in [Thread -> SUBSET Node] /\ (pc["loop"] \in BusySteps => cur["loop"] \in Node)
      /\ heal \in [Node -> HealStates \cup {None}] /\ todo["loop"] \subseteq Node
    BY <1>0 DEF PcTypeOK, DataTypeOK
<1>2. CASE TakePongs
  <2>1. pongs' = {} /\ todo' = [todo EXCEPT !["loop"] = pongs] /\ Goto("loop", "pongs") /\ UNCHANGED <<heal, cur, heard>>
    BY <1>2 DEF TakePongs
  <2>2. DataTypeOK' /\ \A u \in Thread : u # "loop" => todo'[u] = todo[u]
    BY <1>1, <2>1 DEF DataTypeOK
  <2>3. PcTypeOK'
    BY <1>0, <2>1, GotoTyped DEF Steps, BusySteps
  <2>4. pc'["loop"] \notin AttemptSteps /\ \A u \in Thread : u # "loop" => pc'[u] = pc[u]
    BY <1>0, <1>1, <2>1 DEF Goto, AttemptSteps
  <2> QED
    BY <1>0, <2>1, <2>2, <2>3, <2>4, OtherStep
<1>3. CASE CheckPong
  <2>1. PICK n \in todo["loop"] : /\ todo' = [todo EXCEPT !["loop"] = @ \ {n}]
                                  /\ GotoFor("loop", "markOnline", n) \/ UNCHANGED <<pc, cur>>
    BY <1>3 DEF CheckPong
  <2>2. UNCHANGED <<heal, pongs, heard>> /\ pc["loop"] = "pongs" /\ n \in Node
    BY <1>1, <1>3 DEF CheckPong
  <2>3. DataTypeOK' /\ \A u \in Thread : u # "loop" => todo'[u] = todo[u]
    BY <1>1, <2>1, <2>2 DEF DataTypeOK
  <2>4. PcTypeOK'
    <3>1. CASE UNCHANGED <<pc, cur>>
      BY <3>1 DEF PcTypeOK
    <3> QED
      BY <1>0, <2>1, <2>2, <3>1, GotoForTyped DEF Steps, BusySteps
  <2>5. pc'["loop"] \notin AttemptSteps /\ \A u \in Thread : u # "loop" => pc'[u] = pc[u]
    BY <1>0, <1>1, <2>1, <2>2 DEF GotoFor, Goto, AttemptSteps
  <2> QED
    BY <1>0, <2>2, <2>3, <2>4, <2>5, OtherStep
<1>4. CASE EndRound
  <2>1. Goto("loop", "idle") /\ UNCHANGED <<heal, pongs, cur, todo, heard>>
    BY <1>4 DEF EndRound
  <2>2. DataTypeOK'
    BY <2>1 DEF DataTypeOK
  <2>3. PcTypeOK'
    BY <1>0, <2>1, GotoTyped DEF Steps, BusySteps
  <2>4. pc'["loop"] \notin AttemptSteps /\ \A u \in Thread : u # "loop" => pc'[u] = pc[u]
    BY <1>0, <1>1, <2>1 DEF Goto, AttemptSteps
  <2> QED
    BY <1>0, <2>1, <2>2, <2>3, <2>4, OtherStep
<1>5. CASE RecordAttempt
  <2>1. PICK n \in todo["loop"] : /\ todo' = [todo EXCEPT !["loop"] = @ \ {n}]
                                  /\ heal' = IF heal[n] = None THEN heal ELSE [heal EXCEPT ![n].attempts = @ + 1]
                                  /\ GotoFor("loop", "tryDiscover", n)
    BY <1>5 DEF RecordAttempt
  <2>2. UNCHANGED <<pongs, heard>> /\ pc["loop"] = "attempts" /\ n \in Node
    BY <1>1, <1>5 DEF RecordAttempt
  <2>3. MaxAttempts > 0 /\ (heal[n] # None => heal[n].attempts < MaxAttempts)
    BY <2>1, <2>2 DEF AttemptsLeft, AttemptSteps
  <2>4. heal' \in [Node -> HealStates \cup {None}] /\ \A m \in Node : m # n => heal'[m] = heal[m]
    <3>1. CASE heal[n] = None
      BY <1>1, <2>1, <3>1
    <3>2. CASE heal[n] # None
      <4> DEFINE e == [heal[n] EXCEPT !.attempts = @ + 1]
      <4>1. heal[n] \in HealStates
        BY <1>1, <2>2, <3>2
      <4>2. \A x \in 0..MaxAttempts : x < MaxAttempts => x + 1 \in 0..MaxAttempts
        BY AttemptsAssumption
      <4>3. e = State(heal[n].offline, heal[n].attempts + 1) /\ heal[n].offline \in BOOLEAN /\ heal[n].attempts \in 0..MaxAttempts
        BY <4>1 DEF HealStates, State
      <4>4. heal[n].attempts + 1 \in 0..MaxAttempts
        BY <2>3, <3>2, <4>2, <4>3
      <4>5. e \in HealStates
        BY <4>3, <4>4 DEF HealStates, State
      <4>6. heal' = [heal EXCEPT ![n] = e]
        BY <1>1, <2>1, <2>2, <3>2
      <4> HIDE DEF e
      <4> QED
        BY <1>1, <2>2, <4>5, <4>6
    <3> QED
      BY <3>1, <3>2
  <2>5. DataTypeOK' /\ todo'["loop"] = todo["loop"] \ {n}
    BY <1>0, <1>1, <2>1, <2>2, <2>4 DEF DataTypeOK
  <2>6. PcTypeOK'
    BY <1>0, <2>1, <2>2, GotoForTyped DEF Steps, BusySteps
  <2>7. LoopKept
    BY <1>1, <2>2, <2>4, <2>5 DEF LoopKept, AttemptSteps
  <2> QED
    BY <2>5, <2>6, <2>7 DEF ThreadStep
<1>6. CASE TryDiscover
  <2>1. /\ UNCHANGED <<heal, pongs, todo, heard>> /\ pc["loop"] = "tryDiscover" /\ cur["loop"] \in Node
        /\ (Goto("loop", "markRecovered") /\ cur' = cur) \/ GotoFor("loop", "attempts", None)
    BY <1>1, <1>6 DEF TryDiscover, BusySteps
  <2>2. DataTypeOK'
    BY <2>1 DEF DataTypeOK
  <2>3. PcTypeOK'
    BY <1>0, <2>1, GotoTyped, GotoForTyped DEF Steps, BusySteps
  <2>4. LoopKept
    BY <2>1 DEF LoopKept, AttemptSteps
  <2> QED
    BY <2>2, <2>3, <2>4 DEF ThreadStep
<1>7. CASE MarkRecovered
  <2>1. /\ UNCHANGED <<pongs, todo, heard>> /\ pc["loop"] = "markRecovered" /\ cur["loop"] \in Node
        /\ GotoFor("loop", "attempts", None) /\ (heal' = heal \/ SetHeal(cur["loop"], State(FALSE, 0)))
    BY <1>1, <1>7 DEF MarkRecovered, BusySteps
  <2>2. /\ heal' \in [Node -> HealStates \cup {None}]
        /\ \A m \in Node : heal'[m] = heal[m] \/ heal'[m] = None \/ heal'[m].attempts = 0
    <3>1. CASE heal' = heal
      BY <3>1 DEF DataTypeOK
    <3> QED
      BY <2>1, <3>1, FreshState, SetHealTyped
  <2>3. DataTypeOK'
    BY <2>1, <2>2 DEF DataTypeOK
  <2>4. PcTypeOK'
    BY <1>0, <2>1, GotoForTyped DEF Steps, BusySteps
  <2>5. LoopKept
    BY <1>1, <2>1, <2>2 DEF LoopKept, AttemptSteps
  <2> QED
    BY <2>3, <2>4, <2>5 DEF ThreadStep
<1>8. CASE Recover("loop")
    BY <1>0, <1>8, RecoverStep
<1> QED
    BY <1>2, <1>3, <1>4, <1>5, <1>6, <1>7, <1>8 DEF HealLoop

\* Messages and the application's calls.
LEMMA CallerStep ==
    ASSUME PcTypeOK, DataTypeOK, Messages \/ Application, stale' = stale
    PROVE  ThreadStep
<1>0. "net" \in Thread /\ "app" \in Thread /\ Senders \subseteq Node /\ Failing \subseteq Node /\ Tracked \subseteq Node
    BY CallersAssumption DEF Thread
<1>1. /\ pc \in [Thread -> Steps] /\ todo \in [Thread -> SUBSET Node] /\ (pc["net"] \in BusySteps => cur["net"] \in Node)
      /\ heal \in [Node -> HealStates \cup {None}]
    BY <1>0 DEF PcTypeOK, DataTypeOK
<1>2. CASE \E n \in Senders : HealPong(n)
  <2>1. PICK n \in Senders : pongs' = pongs \cup {n} /\ heard' = heard \cup {n} /\ UNCHANGED <<heal, pc, cur, todo>>
    BY <1>2 DEF HealPong
  <2>2. DataTypeOK' /\ PcTypeOK'
    BY <1>0, <2>1 DEF DataTypeOK, PcTypeOK
  <2> QED
    BY <1>0, <2>1, <2>2, OtherStep
<1>3. CASE \E n \in Senders : PartitionSync(n)
  <2>1. PICK n \in Senders : Track(n) /\ heard' = heard \cup {n} /\ GotoFor("net", "sync", n) /\ UNCHANGED <<pongs, todo>>
    BY <1>3 DEF PartitionSync
  <2>2. /\ heal' \in [Node -> HealStates \cup {None}] /\ n \in Node
        /\ \A m \in Node : heal'[m] = heal[m] \/ heal'[m] = None \/ heal'[m].attempts = 0
    BY <1>0, <2>1, TrackTyped
  <2>3. DataTypeOK'
    BY <2>1, <2>2 DEF DataTypeOK
  <2>4. PcTypeOK' /\ \A u \in Thread : u # "net" => pc'[u] = pc[u]
    BY <1>0, <1>1, <2>1, <2>2, GotoForTyped DEF Steps, BusySteps, GotoFor, Goto
  <2> QED
    BY <1>0, <2>1, <2>2, <2>3, <2>4, OtherStep
<1>4. CASE CheckSync
  <2>1. /\ cur["net"] \in Node /\ UNCHANGED <<heal, pongs, todo, heard>>
        /\ (Goto("net", "markOnline") /\ cur' = cur) \/ Done("net")
    BY <1>1, <1>4 DEF CheckSync, BusySteps
  <2>2. DataTypeOK'
    BY <2>1 DEF DataTypeOK
  <2>3. PcTypeOK' /\ \A u \in Thread : u # "net" => pc'[u] = pc[u]
    <3>1. CASE Done("net")
      BY <1>0, <1>1, <3>1, DoneTyped
    <3>2. CASE Goto("net", "markOnline") /\ cur' = cur
      BY <1>0, <1>1, <2>1, <3>2, GotoTyped DEF Steps, BusySteps, Goto
    <3> QED
      BY <2>1, <3>1, <3>2
  <2> QED
    BY <1>0, <2>1, <2>2, <2>3, OtherStep
<1>5. CASE \E t \in Failing : HandlePathFailure(t)
  <2>1. PICK t \in Failing : todo' = [todo EXCEPT !["app"] = {t}] /\ Goto("app", "invalidate") /\ UNCHANGED <<heal, pongs, cur, heard>>
    BY <1>5 DEF HandlePathFailure
  <2>2. DataTypeOK' /\ \A u \in Thread : u # "app" => todo'[u] = todo[u]
    BY <1>0, <1>1, <2>1 DEF DataTypeOK
  <2>3. PcTypeOK' /\ \A u \in Thread : u # "app" => pc'[u] = pc[u]
    BY <1>0, <1>1, <2>1, GotoTyped DEF Steps, BusySteps, Goto
  <2> QED
    BY <1>0, <2>1, <2>2, <2>3, OtherStep
<1>6. CASE \E n \in Tracked : TrackingCall(n)
  <2>1. PICK n \in Tracked : heal' = [heal EXCEPT ![n] = IF @ = None THEN State(FALSE, 0) ELSE None]
                             /\ UNCHANGED <<pongs, pc, cur, todo, heard>>
    BY <1>6 DEF TrackingCall
  <2>2. n \in Node /\ (SetHeal(n, State(FALSE, 0)) \/ SetHeal(n, None))
    BY <1>0, <1>1, <2>1 DEF SetHeal
  <2>3. /\ heal' \in [Node -> HealStates \cup {None}]
        /\ \A m \in Node : heal'[m] = heal[m] \/ heal'[m] = None \/ heal'[m].attempts = 0
    BY <2>2, FreshState, SetHealTyped
  <2>4. DataTypeOK' /\ PcTypeOK'
    BY <2>1, <2>3 DEF DataTypeOK, PcTypeOK
  <2> QED
    BY <1>0, <2>1, <2>3, <2>4, OtherStep
<1>7. CASE Recover("net") \/ SwitchTargets("app")
    BY <1>0, <1>7, RecoverStep, SwitchStep
<1> QED
    BY <1>2, <1>3, <1>4, <1>5, <1>6, <1>7 DEF Messages, Application

\* Every step preserves the invariant.
LEMMA HealInvStep == ASSUME HealInv, [HealNext]_allVars PROVE HealInv'
<1>1. HbTypeOK'
  <2>1. HbTypeOK
    BY DEF HealInv
  <2> QED
    BY <2>1, HbTypeStep, HealStepIsHeartbeat
<1>2. TableInv'
  <2>1. TableInv
    BY DEF HealInv
  <2> QED
    BY <2>1, HealStepIsTableCall, TableCallKeeps
<1>3. ThreadTypeOK /\ AttemptsLeft
    BY DEF HealInv
<1>4. PcTypeOK /\ DataTypeOK
    BY <1>3 DEF ThreadTypeOK, PcTypeOK, DataTypeOK
<1>5. PcTypeOK' /\ DataTypeOK' => ThreadTypeOK'
    BY DEF ThreadTypeOK, PcTypeOK, DataTypeOK
<1>6. ThreadStep => ThreadTypeOK' /\ AttemptsLeft'
    BY <1>3, <1>5, LoopKeptKeeps DEF ThreadStep
<1>7. CASE ScanOffline /\ stale' = stale
  <2>1. PICK due \in SUBSET {n \in Node : Due(n)} : todo' = [todo EXCEPT !["loop"] = due]
    BY <1>7 DEF ScanOffline
  <2>2. Goto("loop", "attempts") /\ UNCHANGED <<heal, pongs, cur, heard>> /\ "loop" \in Thread
    BY <1>7 DEF ScanOffline, Thread
  <2>3. DataTypeOK' /\ todo'["loop"] = due
    BY <1>4, <1>7, <2>1, <2>2 DEF DataTypeOK
  <2>4. PcTypeOK'
    BY <1>4, <2>2, GotoTyped DEF Steps, BusySteps
  <2>5. ASSUME NEW n \in due PROVE MaxAttempts > 0 /\ (heal'[n] # None => heal'[n].attempts < MaxAttempts)
    <3>1. n \in Node /\ heal[n] # None /\ heal[n].attempts < MaxAttempts /\ heal' = heal
      BY <2>2 DEF Due, IsOffline
    <3>2. heal[n] \in HealStates
      BY <1>4, <3>1 DEF DataTypeOK
    <3>3. heal[n].attempts \in 0..MaxAttempts
      BY <3>2 DEF HealStates
    <3> QED
      BY <3>1, <3>3, AttemptsAssumption
  <2>6. AttemptsLeft'
    BY <2>3, <2>5 DEF AttemptsLeft
  <2> QED
    BY <1>1, <1>2, <1>5, <2>3, <2>4, <2>6 DEF HealInv
<1>8. CASE (HeartbeatCallback \/ HealLoop \/ Messages \/ Application) /\ ~ScanOffline /\ stale' = stale
  <2>1. ThreadStep
    BY <1>3, <1>4, <1>8, CallbackStep, LoopStep, CallerStep
  <2> QED
    BY <1>1, <1>2, <1>6, <2>1 DEF HealInv
<1>9. CASE Heartbeats /\ stale' = stale
  <2>1. UNCHANGED <<heal, pongs, pc, cur, todo, stale>> /\ heard' \subseteq heard
    BY <1>9 DEF Heartbeats
  <2>2. DataTypeOK' /\ PcTypeOK' /\ AttemptsLeft'
    BY <1>3, <1>4, <2>1 DEF DataTypeOK, PcTypeOK, AttemptsLeft
  <2> QED
    BY <1>1, <1>2, <1>5, <2>2 DEF HealInv
<1>10. CASE (RouteCalls /\ stale' = stale) \/ RefreshRoutes \/ UNCHANGED allVars
  <2>1. UNCHANGED healVars /\ stale' \subseteq Node
    BY <1>4, <1>10 DEF RouteCalls, RefreshRoutes, ListStale, RefreshStale, allVars, routeVars, DataTypeOK
  <2>2. DataTypeOK' /\ PcTypeOK' /\ AttemptsLeft'
    BY <1>3, <1>4, <2>1 DEF DataTypeOK, PcTypeOK, AttemptsLeft, healVars
  <2> QED
    BY <1>1, <1>2, <1>5, <2>2 DEF HealInv
<1> QED
    BY <1>7, <1>8, <1>9, <1>10 DEF HealNext

\* The invariant of the self-healing.
LEMMA HealInvariant == HealSpec => []HealInv
<1>1. HealInv /\ [HealNext]_allVars => HealInv'
    BY HealInvStep
<1> QED
    BY <1>1, HealInvInit, PTL DEF HealSpec

\* SelfHealManager, its threads and the table they repair keep their types, and
\* no node is probed more than max_failed_attempts times while it is offline,
\* though the loop counts a probe long after it has listed the node as due.
THEOREM HealTyped == HealSpec => []HealTypeOK
<1>1. HealInv => HealTypeOK
    BY HealInvImplies
<1> QED
    BY <1>1, HealInvariant, PTL

\* However the application's calls, the callbacks and the healing loop take turns
\* at the table, it stays within max_entries and its ages with its entries.
THEOREM TableStaysBounded == HealSpec => []TableBounded
<1>1. HealInv => TableBounded
    BY HealInvImplies
<1> QED
    BY <1>1, HealInvariant, PTL

\* With the self-healing as its callback, HeartbeatManager behaves as it does with
\* a callback that does nothing: the self-healing only takes its time.
THEOREM HealRefinesHeartbeat == HealSpec => HbSpec
<1>1. HealInit => HbInit
    BY DEF HealInit
<1>2. [HealNext]_allVars => [HbStep \/ CallbackReturns]_hbVars
    BY HealStepIsHeartbeat DEF HbNext
<1> QED
    BY <1>1, <1>2, PTL DEF HealSpec, HbSpec

\* So the self-healing, which listens to on_node_online and on_node_offline only,
\* is told which nodes are offline, as long as none is removed from the table.
THEOREM HealIsTold == ASSUME Removed = {} PROVE HealSpec => []CallbacksFollow
BY HealRefinesHeartbeat, CallbacksComplete, PTL

----------------------------------------------------------------------------
(* Who is brought back. *)

RecoverSteps == {"markOnline", "lookRoute", "rebuild"}
OnlineSteps == RecoverSteps \cup {"track", "trackOffline", "received"}
OfflineSteps == {"removeRoute", "findAffected", "invalidate", "alternative", "discover"}

\* A message that is being dealt with is of a node that has been heard.
MessagesHeard ==
    /\ pongs \subseteq heard
    /\ pc["loop"] \in RecoverSteps \cup {"pongs"} => todo["loop"] \subseteq heard
    /\ pc["loop"] \in RecoverSteps => cur["loop"] \in heard
    /\ pc["net"] \in RecoverSteps \cup {"sync"} => cur["net"] \in heard
    /\ pc["loop"] # "markRecovered"

\* The callback thread is where the callback under way takes it.
CallbackPlace ==
    /\ pc["hb"] \in OnlineSteps \cup OfflineSteps \cup {"idle"}
    /\ pc["hb"] # "idle" => calling # None
    /\ pc["hb"] \in OnlineSteps => calling.kind # "offline" /\ cur["hb"] = calling.node
    /\ pc["hb"] \in OfflineSteps => calling.kind = "offline"
    /\ calling # None /\ calling.kind # "offline" => ~Offline(calling.node)

\* A node that is offline for the heartbeats and online for the self-healing has
\* been heard, unless the callback that tells so has yet to begin.
BroughtBack ==
    \A n \in Node : Offline(n) /\ heal[n] # None /\ ~heal[n].offline =>
        \/ n \in heard
        \/ calling # None /\ calling.kind = "offline" /\ calling.node = n /\ pc["hb"] = "idle"

HeardInv == MessagesHeard /\ CallbackPlace /\ BroughtBack

\* It holds at first.
LEMMA HeardInit == HealInit => HeardInv
BY DEF HealInit, HbInit, HeardInv, MessagesHeard, CallbackPlace, BroughtBack, RecoverSteps, OnlineSteps, OfflineSteps,
       Thread, Offline, Known

\* A heartbeat leaves a message that is being dealt with alone, and is of a node
\* that is online.
LEMMA HeardHeartbeat ==
    ASSUME HealInv, HeardInv, Heartbeats
    PROVE  HeardInv'
<1>1. /\ UNCHANGED <<heal, pongs, pc, cur, todo>> /\ heard' \subseteq heard /\ HbStep
      /\ (calling' # calling /\ calling'.kind # "offline" => heard \ {calling'.node} \subseteq heard')
      /\ (\A n \in heard : Pending(n) => n \in heard')
      /\ (calling' = calling \/ calling'.kind = "offline" => heard' = heard)
    BY DEF Heartbeats
<1>2. hb \in [Node -> Beats \cup {None}] /\ None \notin Beats /\ Monitored \subseteq Node /\ Removed \subseteq Node /\ Beating \subseteq Node
    BY ThresholdAssumption, MonitoredAssumption DEF HealInv, HbTypeOK
<1>3. MessagesHeard'
    BY <1>1 DEF HeardInv, MessagesHeard, Pending
<1>4. pc["hb"] = "idle" \/ calling # None
    BY DEF HeardInv, CallbackPlace
<1>5. Fresh.online /\ Fresh # None
  <2>1. 0 \in 0..Threshold
    BY ThresholdAssumption
  <2>2. Fresh \in Beats /\ Fresh.online
    BY <2>1 DEF Fresh, Beat, Beats
  <2> QED
    BY <1>2, <2>2
<1>6. \/ calling' = calling /\ \A n \in Node : (hb'[n] = hb[n] \/ hb'[n] = None \/ hb'[n].online \/ (hb[n] # None /\ hb'[n].online = hb[n].online))
      \/ \E n \in Node : /\ calling = None /\ calling' = [kind |-> "offline", node |-> n]
                         /\ \A m \in Node : m # n => hb'[m] = hb[m]
      \/ \E n \in Node, k \in {"online", "received"} :
                         /\ calling = None /\ calling' = [kind |-> k, node |-> n]
                         /\ hb'[n] = Fresh /\ \A m \in Node : m # n => hb'[m] = hb[m]
  <2>1. CASE \E n \in Monitored : AddNode(n)
    BY <1>2, <1>5, <2>1 DEF AddNode
  <2>2. CASE \E n \in Removed : RemoveNode(n)
    BY <1>2, <2>2 DEF RemoveNode
  <2>3. CASE BeginPass
    BY <2>3 DEF BeginPass
  <2>4. CASE \E n \in Node : FallQuiet(n)
    <3>1. PICK n \in Node : FallQuiet(n)
      BY <2>4
    <3>2. hb' = [hb EXCEPT ![n] = Beat(hb[n].online, hb[n].missed, TRUE)] /\ calling' = calling /\ hb[n] # None
      BY <1>2, <3>1 DEF FallQuiet, Known
    <3>3. Beat(hb[n].online, hb[n].missed, TRUE).online = hb[n].online
      BY DEF Beat
    <3> QED
      BY <1>2, <3>2, <3>3
  <2>5. CASE \E n \in Node : Check(n)
    <3>1. PICK n \in Node : Check(n)
      BY <2>5
    <3>2. CASE calling' = calling
      <4>1. hb' = hb \/ (hb[n] # None /\ hb[n].online /\ hb[n].missed + 1 < Threshold
                         /\ hb' = [hb EXCEPT ![n] = Beat(hb[n].missed + 1 < Threshold, hb[n].missed + 1, TRUE)])
        <5>1. CASE hb[n].online /\ Quiet(n) /\ hb[n].missed + 1 >= Threshold
          <6>1. calling = None /\ calling' = [kind |-> "offline", node |-> n]
            BY <3>1, <5>1 DEF Check, Call
          <6>2. [kind |-> "offline", node |-> n] # None
            BY CallAssumption DEF CallKind
          <6> QED
            BY <3>2, <6>1, <6>2
        <5>2. CASE hb[n].online /\ Quiet(n) /\ ~(hb[n].missed + 1 >= Threshold)
          <6>1. hb[n] \in Beats
            BY <1>2, <5>2 DEF Quiet, Known
          <6>2. hb[n].missed + 1 < Threshold
            BY <5>2, <6>1, ThresholdAssumption DEF Beats
          <6> QED
            BY <3>1, <5>2, <6>2 DEF Check, Quiet, Known
        <5>3. CASE ~(hb[n].online /\ Quiet(n))
          BY <3>1, <5>3 DEF Check
        <5> QED
          BY <5>1, <5>2, <5>3
      <4>2. Beat(hb[n].missed + 1 < Threshold, hb[n].missed + 1, TRUE).online = (hb[n].missed + 1 < Threshold)
        BY DEF Beat
      <4> QED
        BY <1>2, <3>2, <4>1, <4>2
    <3>3. CASE calling' # calling
      <4>1. calling = None /\ calling' = [kind |-> "offline", node |-> n] /\ \A m \in Node : m # n => hb'[m] = hb[m]
        BY <1>2, <3>1, <3>3 DEF Check, Call
      <4> QED
        BY <4>1
    <3> QED
      BY <3>2, <3>3
  <2>6. CASE \E n \in Beating : HandleHeartbeat(n)
    <3>1. PICK n \in Beating : HandleHeartbeat(n)
      BY <2>6
    <3>2. n \in Node /\ calling = None /\ hb' = [hb EXCEPT ![n] = Fresh]
      BY <1>2, <3>1 DEF HandleHeartbeat, LockFree
    <3>3. calling' = [kind |-> "online", node |-> n] \/ calling' = [kind |-> "received", node |-> n]
      BY <3>1 DEF HandleHeartbeat, Call
    <3> QED
      BY <1>2, <3>2, <3>3
  <2> QED
    BY <1>1, <2>1, <2>2, <2>3, <2>4, <2>5, <2>6 DEF HbStep
<1>7. CASE calling' = calling /\ \A n \in Node : (hb'[n] = hb[n] \/ hb'[n] = None \/ hb'[n].online \/ (hb[n] # None /\ hb'[n].online = hb[n].online))
  <2>1. \A n \in Node : Offline(n)' => Offline(n)
    BY <1>7 DEF Offline, Known
  <2>2. BroughtBack'
    BY <1>1, <1>7, <2>1 DEF HeardInv, BroughtBack
  <2>3. calling # None => calling.node \in Node
    BY DEF HealInv, HbTypeOK
  <2>4. CallbackPlace'
    BY <1>1, <1>7, <2>1, <2>3 DEF HeardInv, CallbackPlace
  <2> QED
    BY <1>3, <2>2, <2>4 DEF HeardInv
<1>8. CASE \E n \in Node : /\ calling = None /\ calling' = [kind |-> "offline", node |-> n]
                           /\ \A m \in Node : m # n => hb'[m] = hb[m]
  <2>1. PICK n \in Node : /\ calling = None /\ calling' = [kind |-> "offline", node |-> n]
                           /\ \A m \in Node : m # n => hb'[m] = hb[m]
    BY <1>8
  <2>2. calling' # None /\ calling'.kind = "offline" /\ calling'.node = n /\ pc'["hb"] = "idle" /\ heard' = heard
    BY <1>1, <1>4, <2>1, CallAssumption DEF CallKind
  <2>3. BroughtBack'
    BY <1>1, <2>1, <2>2 DEF HeardInv, BroughtBack, Offline, Known
  <2>4. CallbackPlace'
    BY <2>2 DEF CallbackPlace, OnlineSteps, OfflineSteps, RecoverSteps
  <2> QED
    BY <1>3, <2>3, <2>4 DEF HeardInv
<1>9. CASE \E n \in Node, k \in {"online", "received"} :
                         /\ calling = None /\ calling' = [kind |-> k, node |-> n]
                         /\ hb'[n] = Fresh /\ \A m \in Node : m # n => hb'[m] = hb[m]
  <2>1. PICK n \in Node, k \in {"online", "received"} :
                         /\ calling = None /\ calling' = [kind |-> k, node |-> n]
                         /\ hb'[n] = Fresh /\ \A m \in Node : m # n => hb'[m] = hb[m]
    BY <1>9
  <2>2. calling' # None /\ calling'.kind # "offline" /\ calling'.node = n /\ pc'["hb"] = "idle" /\ heard \ {n} \subseteq heard'
    BY <1>1, <1>4, <2>1, CallAssumption DEF CallKind
  <2>3. ~Offline(n)'
    BY <1>5, <2>1 DEF Offline
  <2>4. \A m \in Node : m # n => (Offline(m)' <=> Offline(m))
    BY <2>1 DEF Offline, Known
  <2>5. BroughtBack'
    BY <1>1, <2>1, <2>2, <2>3, <2>4 DEF HeardInv, BroughtBack
  <2>6. CallbackPlace'
    BY <2>2, <2>3 DEF CallbackPlace, OnlineSteps, OfflineSteps, RecoverSteps
  <2> QED
    BY <1>3, <2>5, <2>6 DEF HeardInv
<1> QED
    BY <1>6, <1>7, <1>8, <1>9

\* What is online for the self-healing stays accounted for.
LEMMA BackKept ==
    ASSUME BroughtBack, hb' = hb, heard \subseteq heard',
           \A n \in Node : \/ heal'[n] = heal[n] \/ heal'[n] = None \/ heal'[n].offline
                           \/ ~Offline(n) \/ n \in heard' \/ (heal[n] # None /\ heal'[n].offline = heal[n].offline),
           pc["hb"] = "idle" => /\ calling' = calling
                                /\ pc'["hb"] = "idle" \/ calling.kind # "offline" \/ heal'[calling.node].offline
    PROVE  BroughtBack'
<1> SUFFICES ASSUME NEW n \in Node, Offline(n)', heal'[n] # None, ~heal'[n].offline, n \notin heard'
             PROVE  calling' # None /\ calling'.kind = "offline" /\ calling'.node = n /\ pc'["hb"] = "idle"
    BY DEF BroughtBack
<1>1. Offline(n)
    BY DEF Offline, Known
<1>2. heal[n] # None /\ ~heal[n].offline /\ n \notin heard
    BY <1>1
<1>3. calling # None /\ calling.kind = "offline" /\ calling.node = n /\ pc["hb"] = "idle"
    BY <1>1, <1>2 DEF BroughtBack
<1> QED
    BY <1>3

\* A thread other than the callback's leaves the callback where it is.
LEMMA PlaceKept ==
    ASSUME CallbackPlace, UNCHANGED hbVars, pc'["hb"] = pc["hb"], cur'["hb"] = cur["hb"]
    PROVE  CallbackPlace'
BY DEF CallbackPlace, hbVars, Offline, Known

\* The callback's thread and the application's leave the messages.
LEMMA MessagesKept ==
    ASSUME MessagesHeard, UNCHANGED <<pongs, heard>>,
           pc'["loop"] = pc["loop"], cur'["loop"] = cur["loop"], todo'["loop"] = todo["loop"],
           pc'["net"] = pc["net"], cur'["net"] = cur["net"]
    PROVE  MessagesHeard'
BY DEF MessagesHeard

\* The callback returns.
LEMMA PlaceDone ==
    ASSUME PcTypeOK, CallbackPlace, Done("hb"), pc["hb"] # "idle"
    PROVE  CallbackPlace' /\ hb' = hb /\ pc'["hb"] = "idle"
<1>1. pc'["hb"] = "idle" /\ hb' = hb
    BY DEF PcTypeOK, Done, GotoFor, Goto, CallbackReturns, Thread
<1>2. calling' = None \/ (calling # None /\ calling.kind = "online" /\ calling' = [kind |-> "received", node |-> calling.node])
    BY DEF Done, CallbackReturns, Call
<1>3. (calling # None /\ calling.kind # "offline" => ~Offline(calling.node))'
    BY <1>1, <1>2 DEF CallbackPlace, Offline, Known
<1> QED
    BY <1>1, <1>3 DEF CallbackPlace, OnlineSteps, OfflineSteps, RecoverSteps

\* The threads that go through the recovery: it is of a node that has been heard,
\* or that a callback says is online.
LEMMA HeardRecover ==
    ASSUME PcTypeOK, DataTypeOK, HeardInv, NEW t \in {"hb", "loop", "net"}, Recover(t), \A u \in Node : Dht[u] = <<>>
    PROVE  HeardInv'
<1>0. /\ MessagesHeard /\ CallbackPlace /\ BroughtBack /\ t \in Thread /\ "hb" \in Thread /\ "loop" \in Thread /\ "net" \in Thread
      /\ heal \in [Node -> HealStates \cup {None}] /\ pc \in [Thread -> Steps] /\ cur \in [Thread -> Node \cup {None}]
    BY DEF HeardInv, DataTypeOK, PcTypeOK, Thread
<1>1. UNCHANGED <<pongs, todo, heard>> /\ pc[t] \in RecoverSteps /\ cur[t] \in Node
    BY <1>0 DEF Recover, MarkOnline, LookRoute, RebuildRoute, RecoverSteps, PcTypeOK, BusySteps
<1>2. cur[t] \in heard \/ ~Offline(cur[t])
    BY <1>0, <1>1 DEF MessagesHeard, CallbackPlace, OnlineSteps, RecoverSteps
<1>3. \/ heal' = heal /\ Done(t)
      \/ hbVars' = hbVars /\ cur' = cur /\ (Goto(t, "lookRoute") \/ Goto(t, "rebuild"))
         /\ (heal' = heal \/ heal' = [heal EXCEPT ![cur[t]] = State(FALSE, 0)])
    BY DEF Recover, MarkOnline, LookRoute, RebuildRoute, SetHeal, hbVars
<1>4. hb' = hb
    BY <1>3 DEF Done, CallbackReturns, hbVars
<1>5. \A n \in Node : heal'[n] = heal[n] \/ (n = cur[t])
    BY <1>0, <1>1, <1>3
<1>6. \A u \in Thread : u # t => pc'[u] = pc[u] /\ cur'[u] = cur[u]
    BY <1>0, <1>3 DEF Done, GotoFor, Goto
<1>7. (pc'[t] \in RecoverSteps /\ cur'[t] = cur[t]) \/ (pc'[t] = (IF t = "loop" THEN "pongs" ELSE "idle"))
    BY <1>0, <1>3 DEF Done, GotoFor, Goto, RecoverSteps
<1>8. CallbackPlace'
  <2>1. CASE t # "hb"
    BY <1>0, <1>3, <1>6, <2>1, PlaceKept DEF Done, hbVars
  <2>2. CASE t = "hb" /\ Done("hb")
    BY <1>0, <1>1, <2>2, PlaceDone DEF RecoverSteps
  <2>3. CASE t = "hb" /\ hbVars' = hbVars /\ cur' = cur /\ pc'[t] \in RecoverSteps
    BY <1>0, <1>1, <2>3 DEF CallbackPlace, OnlineSteps, OfflineSteps, RecoverSteps, hbVars, Offline, Known
  <2> QED
    BY <1>0, <1>3, <2>1, <2>2, <2>3 DEF Goto, RecoverSteps
<1>9. BroughtBack'
  <2>1. \A n \in Node : heal'[n] = heal[n] \/ ~Offline(n) \/ n \in heard'
    BY <1>1, <1>2, <1>5
  <2>2. pc["hb"] = "idle" => calling' = calling /\ pc'["hb"] = "idle"
    BY <1>0, <1>1, <1>3, <1>6 DEF Done, hbVars, RecoverSteps
  <2> QED
    BY <1>0, <1>1, <1>4, <2>1, <2>2, BackKept
<1>10. MessagesHeard'
  <2>1. CASE t = "hb"
    BY <1>0, <1>1, <1>6, <2>1, MessagesKept
  <2>2. CASE t = "loop"
    BY <1>0, <1>1, <1>6, <1>7, <2>2 DEF MessagesHeard, RecoverSteps
  <2>3. CASE t = "net"
    BY <1>0, <1>1, <1>6, <1>7, <2>3 DEF MessagesHeard, RecoverSteps
  <2> QED
    BY <2>1, <2>2, <2>3
<1> QED
    BY <1>8, <1>9, <1>10 DEF HeardInv

\* Switching targets brings nobody back.
LEMMA HeardSwitch ==
    ASSUME PcTypeOK, DataTypeOK, HeardInv, NEW t \in {"hb", "app"}, SwitchTargets(t)
    PROVE  HeardInv'
<1>0. /\ MessagesHeard /\ CallbackPlace /\ BroughtBack /\ t \in Thread /\ "hb" \in Thread /\ "loop" \in Thread /\ "net" \in Thread
      /\ pc \in [Thread -> Steps] /\ cur \in [Thread -> Node \cup {None}] /\ todo \in [Thread -> SUBSET Node]
    BY DEF HeardInv, DataTypeOK, PcTypeOK, Thread
<1>1. UNCHANGED <<heal, pongs, heard>> /\ pc[t] \in {"invalidate", "alternative", "discover"}
      /\ (todo' = todo \/ \E x : todo' = [todo EXCEPT ![t] = @ \ {x}])
    BY DEF SwitchTargets, Invalidate, TryAlternative, Rediscover, AllSwitched
<1>2. \/ Done(t)
      \/ hbVars' = hbVars /\ \E n : GotoFor(t, "alternative", n) \/ GotoFor(t, "invalidate", n)
      \/ hbVars' = hbVars /\ Goto(t, "discover") /\ cur' = cur
    BY DEF SwitchTargets, Invalidate, TryAlternative, Rediscover, AllSwitched, hbVars
<1>3. \A u \in Thread : u # t => pc'[u] = pc[u] /\ cur'[u] = cur[u] /\ todo'[u] = todo[u]
    BY <1>0, <1>1, <1>2 DEF Done, GotoFor, Goto
<1>4. hb' = hb
    BY <1>2 DEF Done, CallbackReturns, hbVars
<1>5. MessagesHeard'
    BY <1>0, <1>1, <1>3, MessagesKept
<1>6. CallbackPlace'
  <2>1. CASE t # "hb"
    BY <1>0, <1>2, <1>3, <2>1, PlaceKept DEF Done, hbVars
  <2>2. CASE t = "hb" /\ Done("hb")
    BY <1>0, <1>1, <2>2, PlaceDone
  <2>3. CASE t = "hb" /\ hbVars' = hbVars /\ pc'[t] \in {"invalidate", "alternative", "discover"}
    BY <1>0, <1>1, <2>3 DEF CallbackPlace, OnlineSteps, OfflineSteps, RecoverSteps, hbVars, Offline, Known
  <2> QED
    BY <1>0, <1>2, <2>1, <2>2, <2>3 DEF GotoFor, Goto
<1>7. BroughtBack'
  <2>1. pc["hb"] = "idle" => calling' = calling /\ pc'["hb"] = "idle"
    BY <1>0, <1>1, <1>2, <1>3 DEF Done, hbVars
  <2> QED
    BY <1>0, <1>1, <1>4, <2>1, BackKept
<1> QED
    BY <1>5, <1>6, <1>7 DEF HeardInv

\* The callbacks: on_node_offline marks its node offline, the others are of a node
\* that is online.
LEMMA HeardCallback ==
    ASSUME HealInv, PcTypeOK, DataTypeOK, HeardInv, HeartbeatCallback, \A u \in Node : Dht[u] = <<>>
    PROVE  HeardInv'
<1>0. /\ MessagesHeard /\ CallbackPlace /\ BroughtBack /\ "hb" \in Thread /\ "loop" \in Thread /\ "net" \in Thread
      /\ heal \in [Node -> HealStates \cup {None}] /\ pc \in [Thread -> Steps] /\ cur \in [Thread -> Node \cup {None}]
      /\ todo \in [Thread -> SUBSET Node] /\ None \notin [kind : CallKind, node : Node]
    BY CallAssumption DEF HeardInv, DataTypeOK, PcTypeOK, Thread
<1>1. ASSUME NEW s, NEW n, GotoFor("hb", s, n), UNCHANGED <<pongs, todo, heard>>
      PROVE  pc'["hb"] = s /\ cur'["hb"] = n /\ MessagesHeard'
  <2>1. pc'["hb"] = s /\ cur'["hb"] = n /\ \A u \in Thread : u # "hb" => pc'[u] = pc[u] /\ cur'[u] = cur[u]
    BY <1>0, <1>1 DEF GotoFor, Goto
  <2> QED
    BY <1>0, <1>1, <2>1, MessagesKept
<1>2. ASSUME NEW s, Goto("hb", s), UNCHANGED <<pongs, todo, heard, cur>>
      PROVE  pc'["hb"] = s /\ MessagesHeard'
  <2>1. pc'["hb"] = s /\ \A u \in Thread : u # "hb" => pc'[u] = pc[u]
    BY <1>0, <1>2 DEF Goto
  <2> QED
    BY <1>0, <1>2, <2>1, MessagesKept
<1>3. ASSUME Done("hb"), UNCHANGED <<pongs, todo, heard>> PROVE MessagesHeard'
    BY <1>1, <1>3 DEF Done
<1>4. CASE \E n \in Node : MarkOffline(n)
  <2>1. PICK n \in Node : MarkOffline(n)
    BY <1>4
  <2>2. /\ pc["hb"] = "idle" /\ calling = [kind |-> "offline", node |-> n] /\ heal' = [heal EXCEPT ![n] = State(TRUE, 0)]
        /\ GotoFor("hb", "removeRoute", n) /\ UNCHANGED <<pongs, todo, heard>> /\ hbVars' = hbVars
    BY <2>1 DEF MarkOffline, Callback, SetHeal, hbVars
  <2>3. calling.kind = "offline" /\ calling.node = n /\ calling # None /\ State(TRUE, 0).offline
    BY <1>0, <2>2 DEF State, CallKind
  <2>4. pc'["hb"] = "removeRoute" /\ cur'["hb"] = n /\ MessagesHeard'
    BY <1>1, <2>2
  <2>5. CallbackPlace'
    BY <1>0, <2>2, <2>3, <2>4 DEF CallbackPlace, OnlineSteps, OfflineSteps, RecoverSteps, hbVars, Offline, Known
  <2>6. heal'[n].offline /\ \A m \in Node : m # n => heal'[m] = heal[m]
    BY <1>0, <2>2, <2>3
  <2>7. BroughtBack'
    BY <1>0, <2>2, <2>3, <2>6, BackKept DEF hbVars
  <2> QED
    BY <2>4, <2>5, <2>7 DEF HeardInv
<1>5. CASE \E n \in Node : CameOnline(n) \/ Received(n)
  <2>1. PICK n \in Node : CameOnline(n) \/ Received(n)
    BY <1>5
  <2>2. /\ pc["hb"] = "idle" /\ (calling = [kind |-> "online", node |-> n] \/ calling = [kind |-> "received", node |-> n])
        /\ heal' = heal \/ heal' = [heal EXCEPT ![n] = IF heal[n] = None THEN State(FALSE, 0) ELSE heal[n]]
        /\ GotoFor("hb", "trackOffline", n) \/ GotoFor("hb", "track", n) \/ GotoFor("hb", "received", n)
        /\ UNCHANGED <<pongs, todo, heard>> /\ hbVars' = hbVars
    BY <2>1 DEF CameOnline, Received, Callback, Track, SetHeal, hbVars
  <2>3. calling.kind # "offline" /\ calling.node = n /\ calling # None /\ ~Offline(n)
    BY <1>0, <2>2 DEF CallKind, CallbackPlace
  <2>4. pc'["hb"] \in {"trackOffline", "track", "received"} /\ cur'["hb"] = n /\ MessagesHeard'
    BY <1>1, <2>2
  <2>5. CallbackPlace'
    BY <1>0, <2>2, <2>3, <2>4 DEF CallbackPlace, OnlineSteps, OfflineSteps, RecoverSteps, hbVars, Offline, Known
  <2>6. \A m \in Node : m # n => heal'[m] = heal[m]
    BY <1>0, <2>2
  <2>7. BroughtBack'
    BY <1>0, <2>2, <2>3, <2>6, BackKept DEF hbVars
  <2> QED
    BY <2>4, <2>5, <2>7 DEF HeardInv
<1>6. CASE RemoveTarget \/ FindAffected
  <2>1. /\ pc["hb"] \in {"removeRoute", "findAffected"} /\ UNCHANGED <<heal, pongs, heard>> /\ hbVars' = hbVars
        /\ \/ Goto("hb", "findAffected") /\ UNCHANGED <<todo, cur>>
           \/ GotoFor("hb", "invalidate", None) /\ \E S : todo' = [todo EXCEPT !["hb"] = S]
    BY <1>6 DEF RemoveTarget, FindAffected, hbVars
  <2>2. /\ pc'["hb"] \in {"findAffected", "invalidate"}
        /\ \A u \in Thread : u # "hb" => pc'[u] = pc[u] /\ cur'[u] = cur[u] /\ todo'[u] = todo[u]
    BY <1>0, <2>1 DEF GotoFor, Goto
  <2>3. MessagesHeard'
    BY <1>0, <2>1, <2>2, MessagesKept
  <2>4. CallbackPlace'
    BY <1>0, <2>1, <2>2 DEF CallbackPlace, OnlineSteps, OfflineSteps, RecoverSteps, hbVars, Offline, Known
  <2>5. BroughtBack'
    BY <1>0, <2>1, BackKept DEF hbVars
  <2> QED
    BY <2>3, <2>4, <2>5 DEF HeardInv
<1>7. CASE TrackOnline \/ CheckReceived
  <2>1. /\ pc["hb"] \in {"track", "trackOffline", "received"} /\ UNCHANGED <<pongs, todo, heard>>
        /\ Done("hb") \/ (hbVars' = hbVars /\ Goto("hb", "markOnline") /\ cur' = cur)
        /\ heal' = heal \/ \E s : heal' = [heal EXCEPT ![cur["hb"]] = s]
    BY <1>7 DEF TrackOnline, CheckReceived, Track, SetHeal, hbVars
  <2>2. calling # None /\ cur["hb"] = calling.node /\ calling.kind # "offline" /\ ~Offline(cur["hb"])
    BY <1>0, <2>1 DEF CallbackPlace, OnlineSteps
  <2>3. MessagesHeard'
    BY <1>2, <1>3, <2>1
  <2>4. \A m \in Node : m # cur["hb"] => heal'[m] = heal[m]
    BY <1>0, <2>1
  <2>5. CallbackPlace' /\ hb' = hb
    <3>1. CASE Done("hb")
      BY <1>0, <2>1, <3>1, PlaceDone
    <3>2. CASE hbVars' = hbVars /\ Goto("hb", "markOnline") /\ cur' = cur
      <4>1. pc'["hb"] = "markOnline"
        BY <1>0, <3>2 DEF Goto
      <4> QED
        BY <1>0, <2>2, <3>2, <4>1 DEF CallbackPlace, OnlineSteps, OfflineSteps, RecoverSteps, hbVars, Offline, Known
    <3> QED
      BY <2>1, <3>1, <3>2
  <2>6. BroughtBack'
    BY <1>0, <2>1, <2>2, <2>4, <2>5, BackKept
  <2> QED
    BY <2>3, <2>5, <2>6 DEF HeardInv
<1>8. CASE Recover("hb") \/ SwitchTargets("hb")
    BY <1>8, HeardRecover, HeardSwitch
<1> QED
    BY <1>4, <1>5, <1>6, <1>7, <1>8 DEF HeartbeatCallback

\* The loop: without a DHT it finds no route, so only a pong brings a node back.
LEMMA HeardLoop ==
    ASSUME PcTypeOK, DataTypeOK, HeardInv, HealLoop, \A u \in Node : Dht[u] = <<>>
    PROVE  HeardInv'
<1>0. /\ MessagesHeard /\ CallbackPlace /\ BroughtBack /\ "hb" \in Thread /\ "loop" \in Thread /\ "net" \in Thread
      /\ heal \in [Node -> HealStates \cup {None}] /\ pc \in [Thread -> Steps] /\ cur \in [Thread -> Node \cup {None}]
      /\ todo \in [Thread -> SUBSET Node] /\ (pc["loop"] \in BusySteps => cur["loop"] \in Node)
    BY DEF HeardInv, DataTypeOK, PcTypeOK, Thread
<1>1. CASE Recover("loop")
    BY <1>1, HeardRecover
<1>2. CASE ~Recover("loop")
  <2>1. /\ hbVars' = hbVars /\ heard' = heard
        /\ \A u \in Thread : u # "loop" => pc'[u] = pc[u] /\ cur'[u] = cur[u]
    BY <1>0, <1>2 DEF HealLoop, TakePongs, CheckPong, ScanOffline, EndRound, RecordAttempt, TryDiscover, MarkRecovered,
                      GotoFor, Goto, hbVars
  <2>2. CallbackPlace'
    BY <1>0, <2>1, PlaceKept
  <2>3. heal' = heal \/ RecordAttempt
    BY <1>0, <1>2 DEF HealLoop, TakePongs, CheckPong, ScanOffline, EndRound, TryDiscover, MarkRecovered, MessagesHeard
  <2>4. \A n \in Node : heal'[n] = heal[n] \/ (heal[n] # None /\ heal'[n].offline = heal[n].offline)
    <3>1. CASE RecordAttempt
      <4>1. PICK n \in todo["loop"] : heal' = IF heal[n] = None THEN heal ELSE [heal EXCEPT ![n].attempts = @ + 1]
        BY <3>1 DEF RecordAttempt
      <4>2. n \in Node
        BY <1>0
      <4>3. CASE heal[n] # None
        <5>1. heal' = [heal EXCEPT ![n] = [heal[n] EXCEPT !.attempts = @ + 1]] /\ heal[n] \in HealStates
          BY <1>0, <4>1, <4>2, <4>3
        <5>2. [heal[n] EXCEPT !.attempts = @ + 1].offline = heal[n].offline
          BY <5>1 DEF HealStates
        <5> QED
          BY <1>0, <4>2, <4>3, <5>1, <5>2
      <4> QED
        BY <4>1, <4>3
    <3> QED
      BY <2>3, <3>1
  <2>5. BroughtBack'
    <3>1. hb' = hb /\ calling' = calling /\ pc'["hb"] = pc["hb"]
      BY <1>0, <2>1 DEF hbVars
    <3> QED
      BY <1>0, <2>1, <2>4, <3>1, BackKept
  <2>6. MessagesHeard'
    <3>1. CASE TakePongs
      BY <1>0, <2>1, <3>1 DEF TakePongs, MessagesHeard, Goto, RecoverSteps
    <3>2. CASE CheckPong
      BY <1>0, <2>1, <3>2 DEF CheckPong, MessagesHeard, GotoFor, Goto, RecoverSteps
    <3>3. CASE ScanOffline \/ EndRound \/ RecordAttempt
      <4>1. pongs' = pongs /\ pc'["loop"] \in {"attempts", "idle", "tryDiscover"}
        BY <1>0, <3>3 DEF ScanOffline, EndRound, RecordAttempt, GotoFor, Goto
      <4> QED
        BY <1>0, <2>1, <4>1 DEF MessagesHeard, RecoverSteps
    <3>4. CASE TryDiscover
      <4>1. ~CanDiscover(cur["loop"])
        BY <1>0, <3>4 DEF TryDiscover, CanDiscover, BusySteps
      <4>2. pongs' = pongs /\ pc'["loop"] = "attempts"
        BY <1>0, <3>4, <4>1 DEF TryDiscover, GotoFor, Goto
      <4> QED
        BY <1>0, <2>1, <4>2 DEF MessagesHeard, RecoverSteps
    <3>5. ~MarkRecovered
      BY <1>0 DEF MarkRecovered, MessagesHeard
    <3> QED
      BY <1>2, <3>1, <3>2, <3>3, <3>4, <3>5, HealLoop DEF HealLoop
  <2> QED
    BY <2>2, <2>5, <2>6 DEF HeardInv
<1> QED
    BY <1>1, <1>2

\* Messages, and the application's calls.
LEMMA HeardCaller ==
    ASSUME PcTypeOK, DataTypeOK, HeardInv, Messages \/ Application, \A u \in Node : Dht[u] = <<>>, Tracked = {}
    PROVE  HeardInv'
<1>0. /\ MessagesHeard /\ CallbackPlace /\ BroughtBack /\ "hb" \in Thread /\ "loop" \in Thread /\ "net" \in Thread /\ "app" \in Thread
      /\ heal \in [Node -> HealStates \cup {None}] /\ pc \in [Thread -> Steps] /\ cur \in [Thread -> Node \cup {None}]
      /\ todo \in [Thread -> SUBSET Node] /\ Senders \subseteq Node
    BY CallersAssumption DEF HeardInv, DataTypeOK, PcTypeOK, Thread
<1>1. CASE Recover("net") \/ SwitchTargets("app")
    BY <1>1, HeardRecover, HeardSwitch
<1>2. CASE \E n \in Senders : HealPong(n)
  <2>1. PICK n \in Senders : pongs' = pongs \cup {n} /\ heard' = heard \cup {n} /\ UNCHANGED <<heal, pc, cur, todo>> /\ hbVars' = hbVars
    BY <1>2 DEF HealPong, hbVars
  <2>2. MessagesHeard'
    BY <1>0, <2>1 DEF MessagesHeard
  <2>3. CallbackPlace'
    BY <1>0, <2>1, PlaceKept
  <2>4. BroughtBack'
    BY <1>0, <2>1, BackKept DEF hbVars
  <2> QED
    BY <2>2, <2>3, <2>4 DEF HeardInv
<1>3. CASE \E n \in Senders : PartitionSync(n)
  <2>1. PICK n \in Senders : /\ heal' = [heal EXCEPT ![n] = IF heal[n] = None THEN State(FALSE, 0) ELSE heal[n]]
                             /\ heard' = heard \cup {n} /\ GotoFor("net", "sync", n)
                             /\ UNCHANGED <<pongs, todo>> /\ hbVars' = hbVars
    BY <1>3 DEF PartitionSync, Track, SetHeal, hbVars
  <2>2. pc'["net"] = "sync" /\ cur'["net"] = n /\ \A u \in Thread : u # "net" => pc'[u] = pc[u] /\ cur'[u] = cur[u]
    BY <1>0, <2>1 DEF GotoFor, Goto
  <2>3. MessagesHeard'
    BY <1>0, <2>1, <2>2 DEF MessagesHeard, RecoverSteps
  <2>4. CallbackPlace'
    BY <1>0, <2>1, <2>2, PlaceKept
  <2>5. \A m \in Node : heal'[m] = heal[m] \/ m \in heard'
    BY <1>0, <2>1
  <2>6. BroughtBack'
    <3>1. hb' = hb /\ calling' = calling /\ pc'["hb"] = pc["hb"]
      BY <1>0, <2>1, <2>2 DEF hbVars
    <3> QED
      BY <1>0, <2>1, <2>5, <3>1, BackKept
  <2> QED
    BY <2>3, <2>4, <2>6 DEF HeardInv
<1>4. CASE CheckSync
  <2>1. /\ pc["net"] = "sync" /\ UNCHANGED <<heal, pongs, todo, heard>> /\ hbVars' = hbVars
        /\ (Goto("net", "markOnline") /\ cur' = cur) \/ GotoFor("net", "idle", None)
    BY <1>4 DEF CheckSync, Done, hbVars
  <2>2. /\ (pc'["net"] = "markOnline" /\ cur'["net"] = cur["net"]) \/ pc'["net"] = "idle"
        /\ \A u \in Thread : u # "net" => pc'[u] = pc[u] /\ cur'[u] = cur[u]
    BY <1>0, <2>1 DEF GotoFor, Goto
  <2>3. MessagesHeard'
    BY <1>0, <2>1, <2>2 DEF MessagesHeard, RecoverSteps
  <2>4. CallbackPlace'
    BY <1>0, <2>1, <2>2, PlaceKept
  <2>5. BroughtBack'
    <3>1. hb' = hb /\ calling' = calling /\ pc'["hb"] = pc["hb"]
      BY <1>0, <2>1, <2>2 DEF hbVars
    <3> QED
      BY <1>0, <2>1, <3>1, BackKept
  <2> QED
    BY <2>3, <2>4, <2>5 DEF HeardInv
<1>5. CASE \E t \in Failing : HandlePathFailure(t)
  <2>1. PICK t \in Failing : /\ todo' = [todo EXCEPT !["app"] = {t}] /\ Goto("app", "invalidate")
                             /\ UNCHANGED <<heal, pongs, cur, heard>> /\ hbVars' = hbVars
    BY <1>5 DEF HandlePathFailure, hbVars
  <2>2. \A u \in Thread : u # "app" => pc'[u] = pc[u] /\ todo'[u] = todo[u]
    BY <1>0, <2>1 DEF Goto
  <2>3. MessagesHeard'
    BY <1>0, <2>1, <2>2, MessagesKept
  <2>4. CallbackPlace'
    BY <1>0, <2>1, <2>2, PlaceKept
  <2>5. BroughtBack'
    <3>1. hb' = hb /\ calling' = calling /\ pc'["hb"] = pc["hb"]
      BY <1>0, <2>1, <2>2 DEF hbVars
    <3> QED
      BY <1>0, <2>1, <3>1, BackKept
  <2> QED
    BY <2>3, <2>4, <2>5 DEF HeardInv
<1> QED
    BY <1>1, <1>2, <1>3, <1>4, <1>5 DEF Messages, Application

\* Where no DHT is bound and the application does not track nodes itself, a node
\* that the heartbeats have found to be offline is online for the self-healing
\* only when it has sent a pong or a sync, in whatever order the callbacks, the
\* loop and the messages run.
THEOREM OnlyTheHeardComeBack ==
    ASSUME \A t \in Node : Dht[t] = <<>>, Tracked = {}
    PROVE  HealSpec => []RecoveredWasHeard
<1>1. HealInv /\ HeardInv /\ [HealNext]_allVars => HeardInv'
  <2> SUFFICES ASSUME HealInv, HeardInv, [HealNext]_allVars PROVE HeardInv'
    OBVIOUS
  <2>1. PcTypeOK /\ DataTypeOK
    BY DEF HealInv, ThreadTypeOK, PcTypeOK, DataTypeOK
  <2>2. CASE HeartbeatCallback \/ HealLoop \/ Messages \/ Application
    BY <2>1, <2>2, HeardCallback, HeardLoop, HeardCaller
  <2>3. CASE Heartbeats
    BY <2>3, HeardHeartbeat
  <2>4. CASE RouteCalls \/ RefreshRoutes \/ UNCHANGED allVars
    <3>1. UNCHANGED healVars /\ hbVars' = hbVars
      BY <2>4 DEF RouteCalls, RefreshRoutes, allVars, hbVars
    <3> QED
      BY <3>1 DEF healVars, hbVars, HeardInv, MessagesHeard, CallbackPlace, BroughtBack, Offline, Known
  <2> QED
    BY <2>2, <2>3, <2>4 DEF HealNext
<1>2. HeardInv => RecoveredWasHeard
    BY DEF HeardInv, BroughtBack, RecoveredWasHeard, IsOffline
<1> QED
    BY <1>1, <1>2, HealInvariant, HeardInit, PTL DEF HealSpec
=============================================================================
