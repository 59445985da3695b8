---------------------------- MODULE StorageProofs ----------------------------
(***************************************************************************)
(* What holds of the storage layer for every set of workers, nodes, clients, *)
(* processes, stores and files, every content and every size of a chunk: the *)
(* chunks of a file make the file; parallel downloads count their loads and  *)
(* never mix files; what a client synchronizes is stored as a whole; what is *)
(* restored was sent; the stores of the commands keep what was reported.     *)
(***************************************************************************)
EXTENDS MCStorage, FiniteSetTheorems, SequenceTheorems, NaturalsInduction, WellFoundedInduction, TLAPS

----------------------------------------------------------------------------
(* Chunks. *)

\* Every set of natural numbers that is not empty has a least element: the form of
\* induction the proofs about recursive functions use.
LEMMA NatMinExists ==
    ASSUME NEW S \in SUBSET Nat, S # {}
    PROVE  \E x \in S : \A y \in S : x <= y
<1> DEFINE R == OpToRel(<, Nat)
<1>1. IsWellFoundedOn(R, Nat)
    BY NatLessThanWellFounded
<1>2. \A y, x \in Nat : y < x => <<y, x>> \in R
    BY DEF OpToRel
<1> HIDE DEF R
<1>3. PICK x \in S : \A y \in S : ~(<<y, x>> \in R)
    BY <1>1, WFMin
<1>4. \A y \in S : ~(y < x)
    BY <1>2, <1>3, Zenon
<1>5. \A y \in S : x <= y
    BY <1>4, SMT
<1> QED
    BY <1>5

\* The size of a chunk is a positive number.
LEMMA ChunkSizeType == ChunkSize \in Nat /\ ChunkSize > 0
BY ChunkAssumption

\* Division rounds down.
LEMMA RoundsDown ==
    ASSUME NEW a \in Nat, NEW c \in Nat, c > 0
    PROVE  a \div c \in Nat /\ (a \div c) * c <= a /\ a < (a \div c) * c + c
OBVIOUS

\* The number of chunks is the least that covers the data.
LEMMA NumChunksCover ==
    ASSUME NEW d \in Seq(Nat)
    PROVE  /\ NumChunks(d) \in Nat
           /\ NumChunks(d) * ChunkSize >= Len(d)
           /\ NumChunks(d) * ChunkSize < Len(d) + ChunkSize
<1>1. Len(d) \in Nat /\ ChunkSize \in Nat /\ ChunkSize > 0 /\ Len(d) + ChunkSize - 1 \in Nat
    BY ChunkSizeType
<1>2. PICK q \in Nat : q = NumChunks(d) /\ q * ChunkSize <= Len(d) + ChunkSize - 1 /\ Len(d) + ChunkSize - 1 < q * ChunkSize + ChunkSize
    BY <1>1, RoundsDown DEF NumChunks
<1>3. q * ChunkSize \in Nat
    BY <1>1, <1>2
<1>4. \A x, l, c \in Nat : x <= l + c - 1 /\ l + c - 1 < x + c => x >= l /\ x < l + c
    OBVIOUS
<1> QED
    BY <1>1, <1>2, <1>3, <1>4

\* The smaller one and the larger one of two numbers.
LEMMA TwoNumbers ==
    \A x, y \in Int : /\ Min({x, y}) = IF x <= y THEN x ELSE y
                      /\ Max({x, y}) = IF x >= y THEN x ELSE y
<1> SUFFICES ASSUME NEW x \in Int, NEW y \in Int
             PROVE  Min({x, y}) = (IF x <= y THEN x ELSE y) /\ Max({x, y}) = (IF x >= y THEN x ELSE y)
    OBVIOUS
<1>1. \A z \in {x, y} : (\A u \in {x, y} : z <= u) <=> z = IF x <= y THEN x ELSE y
    OBVIOUS
<1>2. \A z \in {x, y} : (\A u \in {x, y} : z >= u) <=> z = IF x >= y THEN x ELSE y
    OBVIOUS
<1>3. (IF x <= y THEN x ELSE y) \in {x, y} /\ (IF x >= y THEN x ELSE y) \in {x, y}
    OBVIOUS
<1>4. Min({x, y}) = IF x <= y THEN x ELSE y
    BY <1>1, <1>3 DEF Min
<1>5. Max({x, y}) = IF x >= y THEN x ELSE y
    BY <1>2, <1>3 DEF Max
<1> QED
    BY <1>4, <1>5

\* How far the first i chunks reach.
Reach(d, i) == IF i * ChunkSize <= Len(d) THEN i * ChunkSize ELSE Len(d)

\* A chunk is the part of the data from where the ones before it end to where it
\* ends; it is not empty.
LEMMA ChunkPart ==
    ASSUME NEW d \in Seq(Nat), NEW i \in Nat, i < NumChunks(d)
    PROVE  /\ Reach(d, i) = i * ChunkSize /\ Reach(d, i + 1) \in Nat
           /\ Reach(d, i) < Reach(d, i + 1) /\ Reach(d, i + 1) <= Len(d)
           /\ ChunkAt(d, i) = SubSeq(d, Reach(d, i) + 1, Reach(d, i + 1))
<1>1. Len(d) \in Nat /\ ChunkSize \in Nat /\ ChunkSize > 0
    BY ChunkSizeType
<1>2. PICK q \in Nat : q = NumChunks(d) /\ q * ChunkSize < Len(d) + ChunkSize
    BY NumChunksCover
<1>3. (i + 1) * ChunkSize = i * ChunkSize + ChunkSize /\ i * ChunkSize \in Nat
    BY <1>1
<1>4. (i + 1) * ChunkSize <= q * ChunkSize
  <2>1. PICK r \in Nat : q = i + 1 + r
    <3>1. q - (i + 1) \in Nat /\ q = i + 1 + (q - (i + 1))
      BY <1>2
    <3> QED
      BY <3>1
  <2>2. q * ChunkSize = (i + 1) * ChunkSize + r * ChunkSize /\ r * ChunkSize \in Nat /\ (i + 1) * ChunkSize \in Nat
    BY <1>1, <2>1
  <2> QED
    BY <2>2
<1>5. i * ChunkSize < Len(d)
    BY <1>1, <1>2, <1>3, <1>4
<1>6. Min({(i + 1) * ChunkSize, Len(d)}) = Reach(d, i + 1)
    BY <1>1, <1>3, TwoNumbers DEF Reach
<1>7. Reach(d, i) = i * ChunkSize
    BY <1>1, <1>3, <1>5 DEF Reach
<1>8. Reach(d, i + 1) = IF i * ChunkSize + ChunkSize <= Len(d) THEN i * ChunkSize + ChunkSize ELSE Len(d)
    BY <1>3 DEF Reach
<1>9. Reach(d, i + 1) \in Nat /\ i * ChunkSize < Reach(d, i + 1) /\ Reach(d, i + 1) <= Len(d)
    BY <1>1, <1>3, <1>5, <1>8
<1>10. ChunkAt(d, i) = SubSeq(d, i * ChunkSize + 1, Reach(d, i + 1))
    BY <1>6 DEF ChunkAt
<1> QED
    BY <1>7, <1>9, <1>10

\* F[i] is what the first i chunks make up.
IsFlatten(F, s) == F = [i \in 1..Len(s) |-> IF i = 1 THEN s[i] ELSE F[i - 1] \o s[i]]

\* The chunks of a file.
LEMMA ChunksType ==
    ASSUME NEW d \in Seq(Nat)
    PROVE  /\ ChunkData(d) \in Seq(Seq(Nat)) /\ Len(ChunkData(d)) = NumChunks(d) /\ NumChunks(d) \in Nat
           /\ \A i \in 0..NumChunks(d) - 1 : ChunkAt(d, i) \in Seq(Nat) /\ ChunkAt(d, i) # <<>> /\ ChunkData(d)[i + 1] = ChunkAt(d, i)
<1>1. NumChunks(d) \in Nat
    BY NumChunksCover
<1>2. ASSUME NEW i \in 0..NumChunks(d) - 1 PROVE ChunkAt(d, i) \in Seq(Nat) /\ ChunkAt(d, i) # <<>> /\ ChunkData(d)[i + 1] = ChunkAt(d, i)
  <2>1. i \in Nat /\ i < NumChunks(d)
    BY <1>1
  <2>2. PICK a \in Nat, b \in Nat : a < b /\ b <= Len(d) /\ ChunkAt(d, i) = SubSeq(d, a + 1, b)
    <3>1. /\ Reach(d, i) \in Nat /\ Reach(d, i + 1) \in Nat /\ Reach(d, i) < Reach(d, i + 1) /\ Reach(d, i + 1) <= Len(d)
          /\ ChunkAt(d, i) = SubSeq(d, Reach(d, i) + 1, Reach(d, i + 1))
      BY <2>1, ChunkPart, ChunkSizeType
    <3> QED
      BY <3>1
  <2>3. \A j \in a + 1..b : d[j] \in Nat
    BY <2>2
  <2>4. SubSeq(d, a + 1, b) \in Seq(Nat) /\ Len(SubSeq(d, a + 1, b)) = (IF a + 1 <= b THEN b - (a + 1) + 1 ELSE 0)
    BY <2>2, <2>3, SubSeqProperties
  <2>5. Len(SubSeq(d, a + 1, b)) > 0
    BY <2>2, <2>4
  <2>6. i + 1 \in 1..NumChunks(d) /\ i + 1 - 1 = i
    BY <1>1
  <2> QED
    BY <2>2, <2>4, <2>5, <2>6 DEF ChunkData
<1>3. \A k \in 1..NumChunks(d) : k - 1 \in 0..NumChunks(d) - 1
    BY <1>1
<1>4. \A k \in 1..NumChunks(d) : ChunkAt(d, k - 1) \in Seq(Nat)
    BY <1>2, <1>3
<1>5. ChunkData(d) \in Seq(Seq(Nat)) /\ Len(ChunkData(d)) = NumChunks(d)
    BY <1>1, <1>4 DEF ChunkData
<1> QED
    BY <1>1, <1>2, <1>5

\* A file is put together from its chunks: what reassemble relies on.
THEOREM ChunksMakeFile ==
    ASSUME NEW d \in Seq(Nat)
    PROVE  FlattenSeq(ChunkData(d)) = d
<1> DEFINE s == ChunkData(d)
           n == NumChunks(d)
           F == CHOOSE F : IsFlatten(F, s)
<1>1. n \in Nat /\ Len(s) = n /\ s \in Seq(Seq(Nat)) /\ \A i \in 0..n - 1 : s[i + 1] = ChunkAt(d, i)
    BY ChunksType
<1>2. FlattenSeq(s) = IF Len(s) = 0 THEN s ELSE F[Len(s)]
    BY DEF FlattenSeq, IsFlatten
<1> HIDE DEF s
<1>3. CASE n = 0
  <2>1. Len(d) = 0
    <3>1. n * ChunkSize >= Len(d) /\ 0 * ChunkSize = 0 /\ Len(d) \in Nat
      BY NumChunksCover, ChunkSizeType
    <3> QED
      BY <1>3, <3>1
  <2>2. d = <<>> /\ s = <<>>
    BY <1>1, <1>3, <2>1
  <2> QED
    BY <1>1, <1>2, <1>3, <2>2 DEF s
<1>4. CASE n # 0
  <2> DEFINE P == [i \in 1..n |-> SubSeq(d, 1, Reach(d, i))]
  <2> HIDE DEF n
  <2>1. s[1] = SubSeq(d, 1, Reach(d, 1))
    <3>1. 0 \in Nat /\ 0 < n /\ 0 \in 0..n - 1 /\ 0 * ChunkSize = 0 /\ 0 + 1 = 1
      BY <1>1, <1>4, ChunkSizeType
    <3>2. ChunkAt(d, 0) = SubSeq(d, Reach(d, 0) + 1, Reach(d, 0 + 1)) /\ Reach(d, 0) = 0 * ChunkSize
      BY <3>1, ChunkPart DEF n
    <3> QED
      BY <1>1, <3>1, <3>2
  <2>2. ASSUME NEW i \in 2..n PROVE SubSeq(d, 1, Reach(d, i)) = SubSeq(d, 1, Reach(d, i - 1)) \o s[i]
    <3>1. i - 1 \in Nat /\ i - 1 < n /\ i - 1 \in 0..n - 1 /\ (i - 1) + 1 = i
      BY <1>1
    <3>2. /\ Reach(d, i - 1) \in Nat /\ Reach(d, i) \in Nat /\ Reach(d, i - 1) < Reach(d, i) /\ Reach(d, i) <= Len(d)
          /\ ChunkAt(d, i - 1) = SubSeq(d, Reach(d, i - 1) + 1, Reach(d, i))
      <4>1. /\ Reach(d, i - 1) = (i - 1) * ChunkSize /\ Reach(d, (i - 1) + 1) \in Nat
            /\ Reach(d, i - 1) < Reach(d, (i - 1) + 1) /\ Reach(d, (i - 1) + 1) <= Len(d)
            /\ ChunkAt(d, i - 1) = SubSeq(d, Reach(d, i - 1) + 1, Reach(d, (i - 1) + 1))
        BY <3>1, ChunkPart DEF n
      <4>2. (i - 1) * ChunkSize \in Nat
        BY <3>1, ChunkSizeType
      <4> QED
        BY <3>1, <4>1, <4>2
    <3>3. PICK a \in Nat, b \in Nat : a = Reach(d, i - 1) /\ b = Reach(d, i) /\ a < b /\ b <= Len(d)
      BY <3>2
    <3>4. 1 \in 1..Len(d) + 1 /\ a \in 1 - 1..Len(d) /\ b \in a..Len(d)
      BY <3>3
    <3>5. SubSeq(d, 1, a) \o SubSeq(d, a + 1, b) = SubSeq(d, 1, b)
      BY <3>4, ConcatAdjacentSubSeq
    <3>6. s[i] = SubSeq(d, a + 1, b)
      BY <1>1, <3>1, <3>2, <3>3
    <3> QED
      BY <3>3, <3>5, <3>6
  <2>3. IsFlatten(P, s)
    <3>1. \A i \in 1..n : i # 1 => i \in 2..n /\ i - 1 \in 1..n
      BY <1>1
    <3>2. \A i \in 1..n : P[i] = IF i = 1 THEN s[i] ELSE P[i - 1] \o s[i]
      BY <2>1, <2>2, <3>1
    <3> QED
      BY <1>1, <3>2 DEF IsFlatten
  <2>4. IsFlatten(F, s)
    BY <2>3
  <2> HIDE DEF F
  <2>5. \A i \in 1..n : F[i] = IF i = 1 THEN s[i] ELSE F[i - 1] \o s[i]
    BY <1>1, <2>4 DEF IsFlatten
  <2> DEFINE Bad == {i \in 1..n : F[i] # SubSeq(d, 1, Reach(d, i))}
  <2>6. Bad = {}
    <3> SUFFICES ASSUME Bad # {} PROVE FALSE
      OBVIOUS
    <3>1. Bad \in SUBSET Nat
      BY <1>1
    <3>2. PICK i \in Bad : \A j \in Bad : i <= j
      BY <3>1, NatMinExists
    <3>3. i \in 1..n /\ F[i] # SubSeq(d, 1, Reach(d, i))
      BY <3>2
    <3>4. i # 1
      BY <2>1, <2>5, <3>3
    <3>5. i \in 2..n /\ i - 1 \in 1..n /\ ~(i <= i - 1)
      BY <1>1, <3>3, <3>4
    <3>6. F[i - 1] = SubSeq(d, 1, Reach(d, i - 1))
      BY <3>2, <3>5
    <3> QED
      BY <2>2, <2>5, <3>3, <3>4, <3>5, <3>6
  <2>7. F[n] = SubSeq(d, 1, Reach(d, n))
    <3>1. n \in 1..n
      BY <1>1, <1>4
    <3> QED
      BY <2>6, <3>1
  <2>8. Reach(d, n) = Len(d)
    <3>1. n * ChunkSize >= Len(d) /\ Len(d) \in Nat /\ n * ChunkSize \in Nat
      BY <1>1, NumChunksCover, ChunkSizeType DEF n
    <3> QED
      BY <3>1 DEF Reach
  <2>9. SubSeq(d, 1, Len(d)) = d
    BY SubSeqFull
  <2> QED
    BY <1>1, <1>2, <1>4, <2>7, <2>8, <2>9 DEF s
<1> QED
    BY <1>3, <1>4

\* A longer file has at least as many chunks.
LEMMA LongerHasMore ==
    ASSUME NEW d \in Seq(Nat), NEW e \in Seq(Nat), Len(e) <= Len(d)
    PROVE  NumChunks(e) <= NumChunks(d)
<1>1. PICK p \in Nat, q \in Nat : /\ p = NumChunks(e) /\ q = NumChunks(d)
                                  /\ p * ChunkSize < Len(e) + ChunkSize /\ q * ChunkSize >= Len(d)
    BY NumChunksCover
<1>2. ASSUME p > q PROVE FALSE
  <2>1. PICK r \in Nat : p = q + 1 + r
    <3>1. p - (q + 1) \in Nat /\ p = q + 1 + (p - (q + 1))
      BY <1>2
    <3> QED
      BY <3>1
  <2>2. p * ChunkSize = q * ChunkSize + ChunkSize + r * ChunkSize /\ r * ChunkSize \in Nat /\ q * ChunkSize \in Nat
    BY <2>1, ChunkSizeType
  <2>3. \A x, c, y, l, m \in Nat : x + c + y < l + c /\ x >= m /\ l <= m => FALSE
    OBVIOUS
  <2> QED
    BY <1>1, <2>2, <2>3, ChunkSizeType, SMTT(40)
<1> QED
    BY <1>1, <1>2

\* The indexes up to the largest number of chunks are enough for every file.
LEMMA IndexesCover ==
    ASSUME NEW D \in SUBSET Seq(Nat), NEW d \in D, \A e \in D : Len(e) <= Len(d)
    PROVE  /\ 0..Max({NumChunks(x) : x \in D}) - 1 \subseteq Nat
           /\ \A e \in D : 0..NumChunks(e) - 1 \subseteq 0..Max({NumChunks(x) : x \in D}) - 1
<1> DEFINE N == {NumChunks(x) : x \in D}
<1>1. \A e \in D : NumChunks(e) \in Nat /\ NumChunks(e) <= NumChunks(d)
    BY LongerHasMore, NumChunksCover
<1>2. NumChunks(d) \in N /\ \A x \in N : NumChunks(d) >= x
    BY <1>1
<1>3. Max(N) \in N /\ \A x \in N : Max(N) >= x
    BY <1>2 DEF Max
<1>4. Max(N) = NumChunks(d)
  <2>1. PICK e \in D : Max(N) = NumChunks(e)
    BY <1>3
  <2>2. NumChunks(e) >= NumChunks(d) /\ NumChunks(e) <= NumChunks(d) /\ NumChunks(e) \in Nat /\ NumChunks(d) \in Nat
    BY <1>1, <1>2, <1>3, <2>1
  <2> QED
    BY <2>1, <2>2
<1>5. \A p, q \in Nat : p <= q => 0..p - 1 \subseteq 0..q - 1 /\ 0..q - 1 \subseteq Nat
    OBVIOUS
<1> HIDE DEF N
<1>6. 0..Max(N) - 1 \subseteq Nat /\ \A e \in D : 0..NumChunks(e) - 1 \subseteq 0..Max(N) - 1
    BY <1>1, <1>4, <1>5
<1> QED
    BY <1>6 DEF N

----------------------------------------------------------------------------
(* MetadataSync. *)

\* The contents of a store.
Tables == [Name -> Entry \cup {Absent}]

\* The types, with the domains, and a clean store is the one in its file.
MeInv ==
    /\ entries \in [Store -> Tables \cup {Cut}]
    /\ meFile \in [Store -> Tables \cup {Cut}]
    /\ dirty \in [Store -> BOOLEAN]
    /\ mail \subseteq [to : Store, table : Tables]
    /\ now \in 0..MaxNow /\ writes \in 0..MaxWrites
    /\ CleanIsSaved

\* The bounds are natural numbers.
LEMMA MeConstants == MaxNow \in Nat /\ MaxWrites \in Nat
BY MeAssumption

\* It holds at first.
LEMMA MeInvInit == MeInit => MeInv
BY MeConstants DEF MeInit, MeInv, NoneHeld, Tables, CleanIsSaved

\* Saving: whether the file is written, is not, or the node dies at it.
LEMMA SavesKeeps ==
    ASSUME MeInv, NEW s \in Store, NEW table \in Tables, Saves(s, table),
           mail' \subseteq mail, now' = now, writes' \in 0..MaxWrites
    PROVE  MeInv'
<1>1. /\ entries \in [Store -> Tables \cup {Cut}] /\ meFile \in [Store -> Tables \cup {Cut}] /\ dirty \in [Store -> BOOLEAN]
      /\ \A u \in Store : ~dirty[u] => meFile[u] = entries[u]
    BY DEF MeInv, CleanIsSaved
<1>2. mail' \subseteq [to : Store, table : Tables] /\ now' \in 0..MaxNow
    BY DEF MeInv
<1>3. CASE /\ entries' = [entries EXCEPT ![s] = table] /\ meFile' = [meFile EXCEPT ![s] = table]
           /\ dirty' = [dirty EXCEPT ![s] = FALSE]
    BY <1>1, <1>2, <1>3 DEF MeInv, CleanIsSaved
<1>4. CASE entries' = [entries EXCEPT ![s] = table] /\ meFile' = meFile /\ dirty' = [dirty EXCEPT ![s] = TRUE]
    BY <1>1, <1>2, <1>4 DEF MeInv, CleanIsSaved
<1>5. CASE \E left \in {NoneHeld, Cut} : /\ meFile' = [meFile EXCEPT ![s] = left] /\ entries' = [entries EXCEPT ![s] = left]
                                         /\ dirty' = [dirty EXCEPT ![s] = FALSE]
  <2>1. NoneHeld \in Tables
    BY DEF NoneHeld, Tables
  <2> QED
    BY <1>1, <1>2, <1>5, <2>1 DEF MeInv, CleanIsSaved
<1> QED
    BY <1>3, <1>4, <1>5 DEF Saves

\* Every step preserves it.
LEMMA MeInvStep == ASSUME MeInv, [MeNext]_meVars PROVE MeInv'
<1>1. /\ entries \in [Store -> Tables \cup {Cut}] /\ meFile \in [Store -> Tables \cup {Cut}] /\ dirty \in [Store -> BOOLEAN]
      /\ mail \subseteq [to : Store, table : Tables] /\ now \in 0..MaxNow /\ writes \in 0..MaxWrites /\ CleanIsSaved
    BY DEF MeInv
<1>2. \A s \in Store : Running(s) => entries[s] \in Tables
    BY <1>1 DEF Running
<1>3. writes < MaxWrites => writes + 1 \in 0..MaxWrites
    BY <1>1, MeConstants
<1>4. ASSUME NEW s \in Store, NEW table \in Tables, UserChanges(s), Saves(s, table) PROVE MeInv'
    BY <1>3, <1>4, SavesKeeps DEF UserChanges
<1>5. ASSUME NEW s \in Store, NEW n \in Name, NEW c \in Content, Register(s, n, c) \/ Upsert(s, n, c) PROVE MeInv'
  <2> DEFINE e == [content |-> c, updated |-> now, written |-> now]
             table == [entries[s] EXCEPT ![n] = e]
  <2>1. e \in Entry
    BY <1>1 DEF Entry
  <2>2. UserChanges(s) /\ Saves(s, table) /\ Running(s)
    BY <1>5 DEF Register, Upsert, Put, UserChanges
  <2>3. table \in Tables
    BY <1>2, <2>1, <2>2 DEF Tables
  <2> HIDE DEF table
  <2> QED
    BY <1>4, <2>2, <2>3
<1>6. ASSUME NEW s \in Store, NEW n \in Name, AddBlockNodes(s, n) \/ MarkEncrypted(s, n) PROVE MeInv'
  <2> DEFINE table == [entries[s] EXCEPT ![n].updated = now, ![n].written = now]
  <2>1. UserChanges(s) /\ Saves(s, table) /\ Running(s) /\ entries[s][n] # Absent
    BY <1>6 DEF AddBlockNodes, MarkEncrypted, Annotate, UserChanges
  <2>2. entries[s] \in Tables /\ entries[s][n] \in Entry
    BY <1>2, <2>1 DEF Tables
  <2>3. table = [entries[s] EXCEPT ![n] = [content |-> entries[s][n].content, updated |-> now, written |-> now]]
    BY <2>2 DEF Tables, Entry
  <2>4. [content |-> entries[s][n].content, updated |-> now, written |-> now] \in Entry
    BY <1>1, <2>2 DEF Entry
  <2>5. table \in Tables
    BY <2>2, <2>3, <2>4 DEF Tables
  <2> HIDE DEF table
  <2> QED
    BY <1>4, <2>1, <2>5
<1>7. ASSUME NEW s \in Store, NEW n \in Name, RemoveFile(s, n) PROVE MeInv'
  <2> DEFINE table == [entries[s] EXCEPT ![n] = Absent]
  <2>1. UserChanges(s) /\ Saves(s, table) /\ Running(s)
    BY <1>7 DEF RemoveFile, UserChanges
  <2>2. table \in Tables
    BY <1>2, <2>1 DEF Tables
  <2> HIDE DEF table
  <2> QED
    BY <1>4, <2>1, <2>2
<1>8. ASSUME NEW s \in Store, Restart(s) PROVE MeInv'
    BY <1>1, <1>8 DEF Restart, MeInv, CleanIsSaved
<1>9. ASSUME NEW s \in Store, Flush(s) PROVE MeInv'
  <2>1. Running(s) /\ Saves(s, entries[s]) /\ mail' = mail /\ now' = now /\ writes' = writes
    BY <1>9 DEF Flush
  <2> QED
    BY <1>1, <1>2, <2>1, SavesKeeps
<1>10. ASSUME NEW s \in Store, NEW to \in Store, SendEntries(s, to) PROVE MeInv'
  <2>1. Running(s) /\ mail' = mail \cup {[to |-> to, table |-> entries[s]]} /\ UNCHANGED <<entries, meFile, dirty, now, writes>>
    BY <1>10 DEF SendEntries
  <2> QED
    BY <1>1, <1>2, <2>1 DEF MeInv, CleanIsSaved
<1>11. ASSUME NEW m \in mail, SyncFrom(m.to, m) PROVE MeInv'
  <2> DEFINE s == m.to
             table == [n \in Name |-> IF m.table[n] # Absent /\ ShouldMerge(entries[s][n], m.table[n])
                                      THEN Merged(m.table[n]) ELSE entries[s][n]]
  <2>1. s \in Store /\ m.table \in Tables
    BY <1>1
  <2>2. Running(s) /\ mail' \subseteq mail /\ now' = now /\ writes' = writes
        /\ (Saves(s, table) \/ UNCHANGED <<entries, meFile, dirty>>)
    BY <1>11 DEF SyncFrom
  <2>3. table \in Tables
    <3>1. \A e \in Entry : Merged(e) \in Entry
      BY <1>1 DEF Merged, Entry
    <3>2. entries[s] \in Tables
      BY <1>2, <2>1, <2>2
    <3>3. \A n \in Name : /\ m.table[n] # Absent => Merged(m.table[n]) \in Entry
                          /\ entries[s][n] \in Entry \cup {Absent}
      BY <2>1, <3>1, <3>2 DEF Tables
    <3> QED
      BY <3>3 DEF Tables
  <2> HIDE DEF table, s
  <2>4. CASE UNCHANGED <<entries, meFile, dirty>>
    BY <1>1, <2>2, <2>4 DEF MeInv, CleanIsSaved
  <2> QED
    BY <1>1, <2>1, <2>2, <2>3, <2>4, SavesKeeps
<1>12. CASE Passes
  <2>1. now' \in 0..MaxNow
    BY <1>1, <1>12, MeConstants DEF Passes
  <2> QED
    BY <1>1, <1>12, <2>1 DEF Passes, MeInv, CleanIsSaved
<1>13. CASE UNCHANGED meVars
    BY <1>1, <1>13 DEF meVars, MeInv, CleanIsSaved
<1> QED
    BY <1>5, <1>6, <1>7, <1>8, <1>9, <1>10, <1>11, <1>12, <1>13 DEF MeNext

\* It implies the type invariant of the runs.
LEMMA MeInvTyped == MeInv => MeTypeOK
BY DEF MeInv, MeTypeOK, Tables

\* However writes fail, nodes die while they save and merge each other's entries,
\* a store that is not marked dirty is the one in its file.
THEOREM CleanStoresAreSaved == MeSpec => []CleanIsSaved
<1>1. MeInv /\ [MeNext]_meVars => MeInv'
    BY MeInvStep
<1>2. MeInv => CleanIsSaved
    BY DEF MeInv
<1> QED
    BY <1>1, <1>2, MeInvInit, PTL DEF MeSpec

----------------------------------------------------------------------------
(* Download. *)

Jobs == [step : DlStep, block : Block, node : Node \cup {NoNode}, data : 0..MaxTasks]

\* The workers at assign_block that have chosen n and not raised its load yet.
Choosing(n) == {w \in Worker : worker[w].step = "load" /\ worker[w].node = n}

\* The types; a worker that is at work has a task's number, and a node where it
\* needs one; every load was raised by an assignment.
DlTyped ==
    /\ task \in 0..MaxTasks /\ tasksMade \in 0..MaxTasks /\ tries \in 0..MaxTries
    /\ blocks \in [Block -> 0..MaxTasks] /\ completed \subseteq Block /\ failed \subseteq Block
    /\ assigned \in [Block -> Node \cup {NoNode}] /\ status \in Status
    /\ load \in [Node -> Nat]
    /\ worker \in [Worker -> Jobs]
    /\ late \subseteq Block \X (1..MaxTasks)
    /\ mixedUp \in BOOLEAN
    /\ \A w \in Worker : worker[w].step = "idle" => worker[w] = Idle
    /\ \A w \in Worker : worker[w].step # "idle" => worker[w].data \in 1..MaxTasks
    /\ \A w \in Worker : worker[w].step \in {"load", "record"} => worker[w].node \in Node

LoadsCounted == \A n \in Node : load[n] + Cardinality(Choosing(n)) <= tries

\* The bounds are natural numbers.
LEMMA DlConstants ==
    /\ Blocks \in Nat /\ Blocks > 0 /\ MaxTasks \in Nat /\ MaxTries \in Nat /\ NoNode \notin Node /\ IsFiniteSet(Worker)
    /\ 0 \in Block /\ 0 \in 0..MaxTasks /\ 0 \in 0..MaxTries /\ 1..MaxTasks \subseteq 0..MaxTasks /\ 0 \notin 1..MaxTasks
    /\ IsFiniteSet(Block) /\ Block \subseteq Nat
<1>1. Blocks \in Nat /\ Blocks > 0 /\ MaxTasks \in Nat /\ MaxTries \in Nat /\ NoNode \notin Node /\ IsFiniteSet(Worker)
    BY DlAssumption
<1>2. Blocks - 1 \in Int /\ 0 \in Int
    BY <1>1
<1>3. IsFiniteSet(0..Blocks - 1)
    BY <1>2, FS_Interval
<1> QED
    BY <1>1, <1>3 DEF Block

\* The larger one of a number and zero.
LEMMA MaxZero == \A x \in Int : Max({x, 0}) = IF x >= 0 THEN x ELSE 0
<1> SUFFICES ASSUME NEW x \in Int PROVE Max({x, 0}) = IF x >= 0 THEN x ELSE 0
    OBVIOUS
<1> DEFINE m == IF x >= 0 THEN x ELSE 0
<1>1. m \in {x, 0} /\ \A y \in {x, 0} : m >= y
    OBVIOUS
<1>2. \A z \in {x, 0} : (\A y \in {x, 0} : z >= y) => z = m
    OBVIOUS
<1> QED
    BY <1>1, <1>2 DEF Max

\* Idle workers.
LEMMA IdleJob == Idle \in Jobs /\ Idle.step = "idle" /\ Idle.node = NoNode
BY DlConstants DEF Idle, Job, Jobs, DlStep

\* A worker that moves on: its job at most changes the step and the node.
LEMMA JobMoves ==
    ASSUME DlTyped, NEW w \in Worker, NEW s \in DlStep, NEW n \in Node \cup {NoNode},
           worker' = [worker EXCEPT ![w].step = s] \/ worker' = [worker EXCEPT ![w].step = s, ![w].node = n]
    PROVE  /\ worker' \in [Worker -> Jobs] /\ worker'[w].step = s
           /\ worker'[w].block = worker[w].block /\ worker'[w].data = worker[w].data
           /\ worker'[w].node = worker[w].node \/ worker'[w].node = n
           /\ \A v \in Worker : v # w => worker'[v] = worker[v]
<1>1. worker \in [Worker -> Jobs] /\ worker[w] \in Jobs
    BY DEF DlTyped
<1> QED
    BY <1>1 DEF Jobs

\* What becomes of the workers that are choosing.
LEMMA ChoosingMoves ==
    ASSUME DlTyped, LoadsCounted, NEW w \in Worker, \A v \in Worker : v # w => worker'[v] = worker[v],
           load' = load, tries' = tries, worker'[w].step # "load"
    PROVE  LoadsCounted'
<1> SUFFICES ASSUME NEW n \in Node PROVE load'[n] + Cardinality(Choosing(n)') <= tries'
    BY DEF LoadsCounted
<1>1. Choosing(n)' \subseteq Choosing(n) /\ Choosing(n) \subseteq Worker
    BY DEF Choosing
<1>2. IsFiniteSet(Choosing(n))
    BY <1>1, DlConstants, FS_Subset
<1>3. IsFiniteSet(Choosing(n)') /\ Cardinality(Choosing(n)') <= Cardinality(Choosing(n))
    BY <1>1, <1>2, FS_Subset
<1>4. Cardinality(Choosing(n)) \in Nat /\ Cardinality(Choosing(n)') \in Nat
    BY <1>2, <1>3, FS_CardinalityType
<1>5. load[n] \in Nat /\ tries \in Nat /\ load[n] + Cardinality(Choosing(n)) <= tries
    BY DlConstants DEF DlTyped, LoadsCounted
<1>6. \A a, b, c, t \in Nat : a + b <= t /\ c <= b => a + c <= t
    OBVIOUS
<1> QED
    BY <1>3, <1>4, <1>5, <1>6

\* It holds at first.
LEMMA DlTypedInit == DlInit => DlTyped /\ LoadsCounted
<1> SUFFICES ASSUME DlInit PROVE DlTyped /\ LoadsCounted
    OBVIOUS
<1>1. DlTyped
    BY DlConstants, IdleJob DEF DlInit, DlTyped, Status
<1>2. \A n \in Node : Choosing(n) = {}
    BY IdleJob DEF DlInit, Choosing
<1>3. \A n \in Node : load[n] = 0 /\ tries = 0
    BY DEF DlInit
<1> QED
    BY <1>1, <1>2, <1>3, FS_EmptySet DEF LoadsCounted

\* Choosing a node.
LEMMA AssignTyped ==
    ASSUME DlTyped, LoadsCounted, NEW w \in Worker, NEW b \in Block, Assign(w, b)
    PROVE  DlTyped' /\ LoadsCounted'
<1>1. PICK n \in Node : worker' = [worker EXCEPT ![w] = Job("load", b, n, task)]
    BY DEF Assign, SelectSource
<1>2. /\ UNCHANGED <<taskVars, load, late, tasksMade>> /\ tries < MaxTries /\ tries' = tries + 1 /\ task # 0
      /\ mixedUp' = (mixedUp \/ Overlaps(w, b)) /\ worker[w] = Idle
    BY DEF Assign
<1>3. task \in 1..MaxTasks /\ tries' \in 0..MaxTries /\ tries \in Nat
    BY <1>2, DlConstants DEF DlTyped
<1> DEFINE j == Job("load", b, n, task)
<1>4. j \in Jobs /\ j.step = "load" /\ j.node = n /\ j.data = task /\ j.block = b
    BY <1>3, DlConstants DEF Job, Jobs, DlStep
<1> HIDE DEF j
<1>5. worker \in [Worker -> Jobs] /\ worker' = [worker EXCEPT ![w] = j]
    BY <1>1 DEF DlTyped, j
<1>6. worker' \in [Worker -> Jobs] /\ worker'[w] = j /\ \A v \in Worker : v # w => worker'[v] = worker[v]
    BY <1>4, <1>5
<1>7. mixedUp' \in BOOLEAN
    BY <1>2
<1>8. DlTyped'
    BY <1>2, <1>3, <1>4, <1>6, <1>7 DEF DlTyped, taskVars
<1>9. ASSUME NEW m \in Node PROVE load'[m] + Cardinality(Choosing(m)') <= tries'
  <2>1. Choosing(m) \subseteq Worker /\ Choosing(m)' \subseteq Choosing(m) \cup {w}
    BY <1>6 DEF Choosing
  <2>2. IsFiniteSet(Choosing(m))
    BY <2>1, DlConstants, FS_Subset
  <2>3. IsFiniteSet(Choosing(m) \cup {w}) /\ Cardinality(Choosing(m) \cup {w}) = (IF w \in Choosing(m) THEN Cardinality(Choosing(m)) ELSE Cardinality(Choosing(m)) + 1)
    BY <2>2, FS_AddElement
  <2>4. IsFiniteSet(Choosing(m)') /\ Cardinality(Choosing(m)') <= Cardinality(Choosing(m) \cup {w})
    BY <2>1, <2>3, FS_Subset
  <2>5. Cardinality(Choosing(m)) \in Nat /\ Cardinality(Choosing(m)') \in Nat
    BY <2>2, <2>4, FS_CardinalityType
  <2>6. Cardinality(Choosing(m)') <= Cardinality(Choosing(m)) + 1
    BY <2>3, <2>4, <2>5
  <2>7. load[m] \in Nat /\ load[m] + Cardinality(Choosing(m)) <= tries /\ load' = load
    BY <1>2 DEF DlTyped, LoadsCounted
  <2>8. \A x, y, z, t \in Nat : x + y <= t /\ z <= y + 1 => x + z <= t + 1
    OBVIOUS
  <2> QED
    BY <1>2, <1>3, <2>5, <2>6, <2>7, <2>8
<1> QED
    BY <1>8, <1>9 DEF LoadsCounted

\* Raising its load.
LEMMA AssignLoadTyped ==
    ASSUME DlTyped, LoadsCounted, NEW w \in Worker, AssignLoad(w)
    PROVE  DlTyped' /\ LoadsCounted'
<1> DEFINE n == worker[w].node
<1>1. /\ worker[w].step = "load" /\ load' = [load EXCEPT ![n] = @ + 1] /\ worker' = [worker EXCEPT ![w].step = "record"]
      /\ UNCHANGED <<taskVars, late, tasksMade, tries, mixedUp>>
    BY DEF AssignLoad
<1>2. n \in Node /\ load \in [Node -> Nat]
    BY <1>1 DEF DlTyped
<1>3. /\ worker' \in [Worker -> Jobs] /\ worker'[w].step = "record" /\ worker'[w].block = worker[w].block
      /\ worker'[w].data = worker[w].data /\ worker'[w].node = n /\ \A v \in Worker : v # w => worker'[v] = worker[v]
  <2>1. worker \in [Worker -> Jobs] /\ worker[w] \in Jobs
    BY DEF DlTyped
  <2> QED
    BY <1>1, <2>1 DEF Jobs, DlStep
<1> HIDE DEF n
<1>4. load' \in [Node -> Nat] /\ load'[n] = load[n] + 1 /\ \A m \in Node : m # n => load'[m] = load[m]
    BY <1>1, <1>2
<1>5. DlTyped'
    BY <1>1, <1>2, <1>3, <1>4 DEF DlTyped, taskVars
<1>6. ASSUME NEW m \in Node PROVE load'[m] + Cardinality(Choosing(m)') <= tries'
  <2>1. Choosing(m) \subseteq Worker /\ load[m] \in Nat /\ load[m] + Cardinality(Choosing(m)) <= tries /\ tries' = tries /\ tries \in Nat
    BY <1>1, DlConstants DEF DlTyped, LoadsCounted, Choosing
  <2>2. IsFiniteSet(Choosing(m))
    BY <2>1, DlConstants, FS_Subset
  <2>3. Cardinality(Choosing(m)) \in Nat
    BY <2>2, FS_CardinalityType
  <2>4. CASE m = n
    <3>1. w \in Choosing(m) /\ Choosing(m)' = Choosing(m) \ {w}
      BY <1>1, <1>3, <2>4 DEF Choosing, n
    <3>2. Cardinality(Choosing(m) \ {w}) = Cardinality(Choosing(m)) - 1
      BY <2>2, <3>1, FS_RemoveElement
    <3>3. \A x, y, t \in Nat : x + y <= t => x + 1 + (y - 1) <= t
      OBVIOUS
    <3> QED
      BY <1>4, <2>1, <2>3, <2>4, <3>1, <3>2, <3>3
  <2>5. CASE m # n
    <3>1. Choosing(m)' = Choosing(m)
      BY <1>1, <1>3, <2>5 DEF Choosing, n
    <3> QED
      BY <1>4, <2>1, <2>5, <3>1
  <2> QED
    BY <2>4, <2>5
<1> QED
    BY <1>5, <1>6 DEF LoadsCounted

\* Releasing a load.
LEMMA ReleaseTyped ==
    ASSUME DlTyped, LoadsCounted, NEW w \in Worker, NEW from \in {"completeLoad", "failLoad"}, NEW to \in {"completeTask", "failTask"},
           ReleaseLoad(w, from, to)
    PROVE  /\ DlTyped' /\ LoadsCounted'
           /\ \A m \in Node : load'[m] = IF m = worker[w].node /\ load[m] > 0 THEN load[m] - 1 ELSE load[m]
<1>1. /\ worker[w].step = from /\ worker' = [worker EXCEPT ![w].step = to] /\ UNCHANGED <<taskVars, late, tasksMade, tries, mixedUp>>
      /\ load' = [m \in Node |-> IF m = worker[w].node THEN Max({load[m] - 1, 0}) ELSE load[m]]
    BY DEF ReleaseLoad
<1>2. \A m \in Node : load[m] \in Nat /\ load[m] - 1 \in Int
    BY DEF DlTyped
<1>3. \A m \in Node : Max({load[m] - 1, 0}) = IF load[m] > 0 THEN load[m] - 1 ELSE load[m]
    BY <1>2, MaxZero
<1>4. \A m \in Node : load'[m] = IF m = worker[w].node /\ load[m] > 0 THEN load[m] - 1 ELSE load[m]
    BY <1>1, <1>3
<1>5. \A x \in Nat : x > 0 => x - 1 \in Nat /\ x - 1 <= x
    OBVIOUS
<1>6. load' \in [Node -> Nat] /\ \A m \in Node : load'[m] <= load[m]
  <2>1. \A m \in Node : load'[m] \in Nat /\ load'[m] <= load[m]
    BY <1>2, <1>4, <1>5
  <2>2. DOMAIN load' = Node
    BY <1>1
  <2> QED
    BY <1>1, <2>1, <2>2
<1>7. /\ worker' \in [Worker -> Jobs] /\ worker'[w].step = to
      /\ worker'[w].block = worker[w].block /\ worker'[w].data = worker[w].data
      /\ \A v \in Worker : v # w => worker'[v] = worker[v]
    BY <1>1, JobMoves DEF DlStep
<1>8. DlTyped'
    BY <1>1, <1>6, <1>7 DEF DlTyped, taskVars
<1>9. ASSUME NEW m \in Node PROVE load'[m] + Cardinality(Choosing(m)') <= tries'
  <2>1. Choosing(m) \subseteq Worker /\ load[m] \in Nat /\ load[m] + Cardinality(Choosing(m)) <= tries /\ tries' = tries /\ tries \in Nat
    BY <1>1, DlConstants DEF DlTyped, LoadsCounted, Choosing
  <2>2. IsFiniteSet(Choosing(m))
    BY <2>1, DlConstants, FS_Subset
  <2>3. Cardinality(Choosing(m)) \in Nat
    BY <2>2, FS_CardinalityType
  <2>4. Choosing(m)' = Choosing(m)
    BY <1>1, <1>7 DEF Choosing
  <2>5. load'[m] \in Nat /\ load'[m] <= load[m]
    BY <1>6
  <2>6. \A x, y, z, t \in Nat : x + y <= t /\ z <= x => z + y <= t
    OBVIOUS
  <2> QED
    BY <2>1, <2>3, <2>4, <2>5, <2>6
<1> QED
    BY <1>4, <1>8, <1>9 DEF LoadsCounted

\* create_task and cancel.
LEMMA NewTaskTyped ==
    ASSUME DlTyped, LoadsCounted, CreateTask \/ Cancel
    PROVE  DlTyped' /\ LoadsCounted'
<1>1. /\ NewTask /\ UNCHANGED <<load, worker, late, tries>> /\ mixedUp' = (mixedUp \/ AnyBusy \/ late # {})
      /\ status' \in {"Pending", "none"} /\ task' \in 0..MaxTasks /\ tasksMade' \in 0..MaxTasks
  <2>1. CASE CreateTask
    <3>1. tasksMade \in 0..MaxTasks /\ tasksMade < MaxTasks /\ tasksMade' = tasksMade + 1 /\ task' = tasksMade'
      BY <2>1 DEF CreateTask, DlTyped
    <3>2. tasksMade' \in 0..MaxTasks
      BY <3>1, DlConstants
    <3> QED
      BY <2>1, <3>1, <3>2 DEF CreateTask
  <2>2. CASE Cancel
    BY <2>2, DlConstants DEF Cancel, DlTyped
  <2> QED
    BY <2>1, <2>2
<1>2. blocks' \in [Block -> 0..MaxTasks] /\ completed' \subseteq Block /\ failed' \subseteq Block /\ assigned' \in [Block -> Node \cup {NoNode}]
    BY <1>1, DlConstants DEF NewTask
<1>3. mixedUp' \in BOOLEAN
    BY <1>1
<1>4. DlTyped'
    BY <1>1, <1>2, <1>3 DEF DlTyped, Status
<1>5. LoadsCounted'
    BY <1>1 DEF LoadsCounted, Choosing
<1> QED
    BY <1>4, <1>5

\* Recording the assignment.
LEMMA AssignRecordTyped ==
    ASSUME DlTyped, LoadsCounted, NEW w \in Worker, AssignRecord(w)
    PROVE  DlTyped' /\ LoadsCounted'
<1>1. /\ worker[w].step = "record" /\ worker' = [worker EXCEPT ![w].step = "fetching"]
      /\ assigned' = IF task = 0 THEN assigned ELSE [assigned EXCEPT ![worker[w].block] = worker[w].node]
      /\ UNCHANGED <<task, blocks, completed, failed, status, load, late, tasksMade, tries, mixedUp>>
    BY DEF AssignRecord
<1>2. /\ worker' \in [Worker -> Jobs] /\ worker'[w].step = "fetching"
      /\ worker'[w].block = worker[w].block /\ worker'[w].data = worker[w].data
      /\ \A v \in Worker : v # w => worker'[v] = worker[v]
    BY <1>1, JobMoves DEF DlStep
<1>3. assigned' \in [Block -> Node \cup {NoNode}]
    BY <1>1 DEF DlTyped, Jobs
<1>4. DlTyped'
    BY <1>1, <1>2, <1>3 DEF DlTyped
<1> QED
    BY <1>1, <1>2, <1>4, ChoosingMoves

\* The answer, and the worker that gives up.
LEMMA AnswerTyped ==
    ASSUME DlTyped, LoadsCounted, NEW w \in Worker, FetchAnswer(w) \/ GiveUp(w)
    PROVE  DlTyped' /\ LoadsCounted'
<1>1. PICK s \in {"complete", "fail"} : worker' = [worker EXCEPT ![w].step = s]
    BY DEF FetchAnswer, GiveUp
<1>2. /\ worker[w].step = "fetching" /\ UNCHANGED <<taskVars, load, tasksMade, tries, mixedUp>>
      /\ late' \subseteq late \cup {<<worker[w].block, worker[w].data>>}
    BY DEF FetchAnswer, GiveUp
<1>3. /\ worker' \in [Worker -> Jobs] /\ worker'[w].step = s
      /\ worker'[w].block = worker[w].block /\ worker'[w].data = worker[w].data
      /\ \A v \in Worker : v # w => worker'[v] = worker[v]
    BY <1>1, JobMoves DEF DlStep
<1>4. worker[w].block \in Block /\ worker[w].data \in 1..MaxTasks
    BY <1>2 DEF DlTyped, Jobs
<1>5. late' \subseteq Block \X (1..MaxTasks)
    BY <1>2, <1>4 DEF DlTyped
<1>6. DlTyped'
    BY <1>2, <1>3, <1>5 DEF DlTyped, taskVars
<1>7. worker'[w].step # "load"
    BY <1>3
<1> QED
    BY <1>2, <1>3, <1>6, <1>7, ChoosingMoves

\* A late answer that a free worker reports.
LEMMA LateTyped ==
    ASSUME DlTyped, LoadsCounted, NEW w \in Worker, LateAnswer(w)
    PROVE  DlTyped' /\ LoadsCounted'
<1>1. PICK a \in late : /\ worker' = [worker EXCEPT ![w] = Job("complete", a[1], NoNode, a[2])]
                        /\ late' = late \ {a} /\ mixedUp' = (mixedUp \/ Overlaps(w, a[1]))
    BY DEF LateAnswer
<1>2. UNCHANGED <<taskVars, load, tasksMade, tries>>
    BY DEF LateAnswer
<1>3. a[1] \in Block /\ a[2] \in 1..MaxTasks
    BY DEF DlTyped
<1> DEFINE j == Job("complete", a[1], NoNode, a[2])
<1>4. j \in Jobs /\ j.step = "complete" /\ j.data \in 1..MaxTasks
    BY <1>3, DlConstants DEF Job, Jobs, DlStep
<1> HIDE DEF j
<1>5. worker \in [Worker -> Jobs] /\ worker' = [worker EXCEPT ![w] = j]
    BY <1>1 DEF DlTyped, j
<1>6. worker' \in [Worker -> Jobs] /\ worker'[w] = j /\ \A v \in Worker : v # w => worker'[v] = worker[v]
    BY <1>4, <1>5
<1>7. mixedUp' \in BOOLEAN
    BY <1>1
<1>8. DlTyped'
    BY <1>1, <1>2, <1>4, <1>6, <1>7 DEF DlTyped, taskVars
<1> QED
    BY <1>2, <1>4, <1>6, <1>8, ChoosingMoves

\* The node of the block is looked up.
LEMMA FindTyped ==
    ASSUME DlTyped, LoadsCounted, NEW w \in Worker, NEW from \in {"complete", "fail"}, NEW to \in {"completeLoad", "failLoad"},
           FindNode(w, from, to)
    PROVE  DlTyped' /\ LoadsCounted'
<1>1. /\ worker[w].step = from /\ worker' = [worker EXCEPT ![w].step = to, ![w].node = assigned[worker[w].block]]
      /\ UNCHANGED <<taskVars, load, late, tasksMade, tries, mixedUp>>
    BY DEF FindNode
<1>2. PICK n \in Node \cup {NoNode} : n = assigned[worker[w].block]
    BY DEF DlTyped, Jobs
<1>3. /\ worker' \in [Worker -> Jobs] /\ worker'[w].step = to
      /\ worker'[w].block = worker[w].block /\ worker'[w].data = worker[w].data
      /\ \A v \in Worker : v # w => worker'[v] = worker[v]
  <2>1. worker' = [worker EXCEPT ![w].step = to, ![w].node = n] /\ to \in DlStep
    BY <1>1, <1>2 DEF DlStep
  <2> QED
    BY <2>1, JobMoves
<1>4. DlTyped'
    BY <1>1, <1>3 DEF DlTyped, taskVars
<1>5. worker'[w].step # "load"
    BY <1>3
<1> QED
    BY <1>1, <1>3, <1>4, <1>5, ChoosingMoves

\* The end of complete_block and of fail_block.
LEMMA EndTyped ==
    ASSUME DlTyped, LoadsCounted, NEW w \in Worker, CompleteTask(w) \/ FailTask(w)
    PROVE  DlTyped' /\ LoadsCounted'
<1> DEFINE b == worker[w].block
           d == worker[w].data
<1>1. /\ worker' = [worker EXCEPT ![w] = Idle] /\ UNCHANGED <<load, late, tasksMade, tries, mixedUp>>
      /\ worker[w].step \in {"completeTask", "failTask"}
    BY DEF CompleteTask, FailTask
<1>2. b \in Block /\ d \in 0..MaxTasks
    BY DEF DlTyped, Jobs
<1>3. worker' \in [Worker -> Jobs] /\ worker'[w] = Idle /\ \A v \in Worker : v # w => worker'[v] = worker[v]
    BY <1>1, IdleJob DEF DlTyped
<1> HIDE DEF b, d
<1>4. /\ task' = task /\ completed' \subseteq Block /\ failed' \subseteq Block /\ status' \in Status
      /\ assigned' \in [Block -> Node \cup {NoNode}] /\ blocks' \in [Block -> 0..MaxTasks]
  <2>1. CASE task = 0
    BY <2>1 DEF CompleteTask, FailTask, taskVars, DlTyped
  <2>2. CASE task # 0 /\ CompleteTask(w)
    <3>1. /\ completed' = completed \cup {b} /\ assigned' = [assigned EXCEPT ![b] = NoNode] /\ UNCHANGED <<task, failed>>
          /\ blocks' = [blocks EXCEPT ![b] = IF @ = 0 THEN d ELSE @]
          /\ status' = status \/ status' = "full" \/ status' = "Downloading"
      BY <2>2 DEF CompleteTask, Push, b, d
    <3> QED
      BY <1>2, <3>1 DEF DlTyped, Status
  <2>3. CASE task # 0 /\ FailTask(w)
    <3>1. /\ failed' = failed \cup {b} /\ assigned' = [assigned EXCEPT ![b] = NoNode] /\ UNCHANGED <<task, blocks, completed>>
          /\ status' = status \/ status' = "Failed"
      BY <2>3 DEF FailTask, b
    <3> QED
      BY <1>2, <3>1 DEF DlTyped, Status
  <2> QED
    BY <2>1, <2>2, <2>3
<1>5. DlTyped'
    BY <1>1, <1>3, <1>4, IdleJob DEF DlTyped
<1>6. worker'[w].step # "load"
    BY <1>3, IdleJob
<1> QED
    BY <1>1, <1>3, <1>5, <1>6, ChoosingMoves

\* Every step keeps them.
LEMMA DlTypedStep ==
    ASSUME DlTyped, LoadsCounted, [DlNext]_dlVars
    PROVE  DlTyped' /\ LoadsCounted'
<1>1. CASE UNCHANGED dlVars
    BY <1>1 DEF dlVars, taskVars, DlTyped, LoadsCounted, Choosing
<1>2. CASE DlNext
  <2>1. CASE CreateTask \/ Cancel
    BY <2>1, NewTaskTyped
  <2>2. ASSUME NEW w \in Worker, NEW b \in Block, Assign(w, b) PROVE DlTyped' /\ LoadsCounted'
    BY <2>2, AssignTyped
  <2>3. ASSUME NEW w \in Worker, FetchAnswer(w) \/ GiveUp(w) \/ LateAnswer(w) PROVE DlTyped' /\ LoadsCounted'
    BY <2>3, AnswerTyped, LateTyped
  <2>4. ASSUME NEW w \in Worker, AssignLoad(w) \/ AssignRecord(w) PROVE DlTyped' /\ LoadsCounted'
    BY <2>4, AssignLoadTyped, AssignRecordTyped
  <2>5. ASSUME NEW w \in Worker, FindNode(w, "complete", "completeLoad") \/ FindNode(w, "fail", "failLoad") PROVE DlTyped' /\ LoadsCounted'
    BY <2>5, FindTyped
  <2>6. ASSUME NEW w \in Worker, ReleaseLoad(w, "completeLoad", "completeTask") \/ ReleaseLoad(w, "failLoad", "failTask") PROVE DlTyped' /\ LoadsCounted'
    BY <2>6, ReleaseTyped
  <2>7. ASSUME NEW w \in Worker, CompleteTask(w) \/ FailTask(w) PROVE DlTyped' /\ LoadsCounted'
    BY <2>7, EndTyped
  <2> QED
    BY <1>2, <2>1, <2>2, <2>3, <2>4, <2>5, <2>6, <2>7 DEF DlNext, Work
<1> QED
    BY <1>1, <1>2

\* They bound the loads.
LEMMA DlTypedTypes == DlTyped /\ LoadsCounted => DlTypeOK
<1> SUFFICES ASSUME DlTyped, LoadsCounted PROVE DlTypeOK
    OBVIOUS
<1>1. ASSUME NEW n \in Node PROVE load[n] \in 0..MaxTries
  <2>1. Choosing(n) \subseteq Worker
    BY DEF Choosing
  <2>2. IsFiniteSet(Choosing(n))
    BY <2>1, DlConstants, FS_Subset
  <2>3. Cardinality(Choosing(n)) \in Nat
    BY <2>2, FS_CardinalityType
  <2>4. load[n] \in Nat /\ tries \in Nat /\ tries <= MaxTries /\ load[n] + Cardinality(Choosing(n)) <= tries /\ MaxTries \in Nat
    BY DlConstants DEF DlTyped, LoadsCounted
  <2>5. \A x, y, t, m \in Nat : x + y <= t /\ t <= m => x \in 0..m
    OBVIOUS
  <2> QED
    BY <2>3, <2>4, <2>5
<1>2. load \in [Node -> 0..MaxTries]
    BY <1>1 DEF DlTyped
<1> QED
    BY <1>2 DEF DlTyped, DlTypeOK, Jobs

\* While nothing is mixed up, all that is on its way belongs to the task.
OwnTask ==
    ~mixedUp => /\ \A w \in Worker : worker[w].step # "idle" => worker[w].data = task
                /\ \A a \in late : a[2] = task

\* It holds at first.
LEMMA BlocksInit == DlInit => BlocksSound /\ OwnTask
<1> SUFFICES ASSUME DlInit PROVE BlocksSound /\ OwnTask
    OBVIOUS
<1>1. \A b \in Block : blocks[b] = 0
    BY DEF DlInit
<1>2. FullMeansComplete
    BY <1>1 DEF DlInit, FullMeansComplete
<1>3. OneTasksBlocks /\ OwnTask
    BY <1>1, IdleJob DEF DlInit, OneTasksBlocks, OwnTask
<1> QED
    BY <1>2, <1>3 DEF BlocksSound

\* Every step keeps it.
LEMMA BlocksStep ==
    ASSUME DlTyped, BlocksSound, OwnTask, [DlNext]_dlVars
    PROVE  BlocksSound' /\ OwnTask'
<1>0. /\ worker \in [Worker -> Jobs] /\ mixedUp \in BOOLEAN /\ late \subseteq Block \X (1..MaxTasks) /\ blocks \in [Block -> 0..MaxTasks]
      /\ completed \subseteq Block
      /\ \A w \in Worker : worker[w].step # "idle" => worker[w].data \in 1..MaxTasks
    BY DEF DlTyped
<1>1. CASE UNCHANGED dlVars
    BY <1>1 DEF dlVars, taskVars, BlocksSound, FullMeansComplete, OneTasksBlocks, OwnTask
<1>2. CASE CreateTask \/ Cancel
  <2>1. NewTask /\ UNCHANGED <<worker, late>> /\ mixedUp' = (mixedUp \/ AnyBusy \/ late # {}) /\ status' # "full"
    BY <1>2 DEF CreateTask, Cancel
  <2>2. BlocksSound'
    BY <2>1 DEF NewTask, BlocksSound, FullMeansComplete, OneTasksBlocks
  <2>3. ~mixedUp' => (\A w \in Worker : worker'[w].step = "idle") /\ late' = {}
    BY <2>1, IdleJob DEF AnyBusy
  <2> QED
    BY <2>2, <2>3 DEF OwnTask
<1>3. ASSUME NEW w \in Worker, NEW b \in Block, Assign(w, b) PROVE BlocksSound' /\ OwnTask'
  <2>1. PICK n \in Node : worker' = [worker EXCEPT ![w] = Job("load", b, n, task)]
    BY <1>3 DEF Assign, SelectSource
  <2>2. UNCHANGED <<taskVars, late>> /\ (mixedUp => mixedUp')
    BY <1>3 DEF Assign
  <2>3. BlocksSound'
    BY <2>2 DEF BlocksSound, FullMeansComplete, OneTasksBlocks, taskVars
  <2>4. worker'[w].data = task /\ \A v \in Worker : v # w => worker'[v] = worker[v]
    BY <1>0, <2>1 DEF Job
  <2> QED
    BY <2>2, <2>3, <2>4 DEF OwnTask, taskVars
<1>4. ASSUME NEW w \in Worker, FetchAnswer(w) \/ GiveUp(w) PROVE BlocksSound' /\ OwnTask'
  <2>1. PICK s \in {"complete", "fail"} : worker' = [worker EXCEPT ![w].step = s]
    BY <1>4 DEF FetchAnswer, GiveUp
  <2>2. UNCHANGED <<taskVars, mixedUp>> /\ worker[w].step = "fetching" /\ late' \subseteq late \cup {<<worker[w].block, worker[w].data>>}
    BY <1>4 DEF FetchAnswer, GiveUp
  <2>3. BlocksSound'
    BY <2>2 DEF BlocksSound, FullMeansComplete, OneTasksBlocks, taskVars
  <2>4. worker'[w].data = worker[w].data /\ \A v \in Worker : v # w => worker'[v] = worker[v]
    BY <1>0, <2>1 DEF Jobs
  <2> QED
    BY <2>2, <2>3, <2>4 DEF OwnTask, taskVars
<1>5. ASSUME NEW w \in Worker, LateAnswer(w) PROVE BlocksSound' /\ OwnTask'
  <2>1. PICK a \in late : /\ worker' = [worker EXCEPT ![w] = Job("complete", a[1], NoNode, a[2])]
                          /\ late' = late \ {a} /\ (mixedUp => mixedUp')
    BY <1>5 DEF LateAnswer
  <2>2. UNCHANGED taskVars
    BY <1>5 DEF LateAnswer
  <2>3. BlocksSound'
    BY <2>1, <2>2 DEF BlocksSound, FullMeansComplete, OneTasksBlocks, taskVars
  <2>4. worker'[w].data = a[2] /\ \A v \in Worker : v # w => worker'[v] = worker[v]
    BY <1>0, <2>1 DEF Job
  <2> QED
    BY <2>1, <2>2, <2>3, <2>4 DEF OwnTask, taskVars
<1>6. ASSUME NEW w \in Worker, \/ AssignLoad(w) \/ AssignRecord(w)
                               \/ FindNode(w, "complete", "completeLoad") \/ ReleaseLoad(w, "completeLoad", "completeTask")
                               \/ FindNode(w, "fail", "failLoad") \/ ReleaseLoad(w, "failLoad", "failTask")
      PROVE BlocksSound' /\ OwnTask'
  <2>1. UNCHANGED <<task, blocks, completed, status, late, mixedUp>> /\ worker[w].step # "idle"
    BY <1>6 DEF AssignLoad, AssignRecord, FindNode, ReleaseLoad, taskVars
  <2>2. worker'[w].data = worker[w].data /\ \A v \in Worker : v # w => worker'[v] = worker[v]
    BY <1>0, <1>6 DEF AssignLoad, AssignRecord, FindNode, ReleaseLoad, Jobs
  <2>3. BlocksSound'
    BY <2>1 DEF BlocksSound, FullMeansComplete, OneTasksBlocks
  <2> QED
    BY <2>1, <2>2, <2>3 DEF OwnTask
<1>7. ASSUME NEW w \in Worker, CompleteTask(w) \/ FailTask(w) PROVE BlocksSound' /\ OwnTask'
  <2> DEFINE b == worker[w].block
             d == worker[w].data
  <2>1. /\ worker' = [worker EXCEPT ![w] = Idle] /\ UNCHANGED <<late, mixedUp>> /\ worker[w].step # "idle" /\ task' = task
    BY <1>7 DEF CompleteTask, FailTask, taskVars
  <2>2. worker'[w].step = "idle" /\ \A v \in Worker : v # w => worker'[v] = worker[v]
    BY <1>0, <2>1, IdleJob
  <2>3. OwnTask'
    BY <2>1, <2>2 DEF OwnTask
  <2>4. b \in Block /\ d \in 1..MaxTasks /\ d # 0 /\ (~mixedUp => d = task)
    BY <1>0, <2>1, DlConstants DEF Jobs, OwnTask
  <2> HIDE DEF b, d
  <2>5. CASE UNCHANGED <<blocks, completed>> /\ (status' = "full" => status = "full")
    BY <2>1, <2>3, <2>5 DEF BlocksSound, FullMeansComplete, OneTasksBlocks
  <2>6. CASE task # 0 /\ CompleteTask(w)
    <3>1. /\ completed' = completed \cup {b} /\ blocks' = [blocks EXCEPT ![b] = IF @ = 0 THEN d ELSE @]
          /\ status' = CASE blocks[b] # 0 -> status
                         [] blocks[b] = 0 /\ CanAssemble(blocks') -> "full"
                         [] OTHER -> "Downloading"
      BY <2>6 DEF CompleteTask, Push, b, d
    <3>2. \A c \in Block : blocks'[c] = IF c = b /\ blocks[b] = 0 THEN d ELSE blocks[c]
      BY <1>0, <2>4, <3>1
    <3>3. completed = {c \in Block : blocks[c] # 0} /\ (status = "full" => completed = Block)
      BY DEF BlocksSound, FullMeansComplete
    <3>4. completed' = {c \in Block : blocks'[c] # 0}
      BY <2>4, <3>1, <3>2, <3>3
    <3>5. status' = "full" => completed' = Block
      <4>1. CASE blocks[b] # 0
        BY <2>4, <3>1, <3>3, <4>1
      <4>2. CASE blocks[b] = 0 /\ CanAssemble(blocks')
        BY <3>4, <4>2 DEF CanAssemble
      <4>3. CASE blocks[b] = 0 /\ ~CanAssemble(blocks')
        BY <3>1, <4>3
      <4> QED
        BY <4>1, <4>2, <4>3
    <3>6. OneTasksBlocks'
      BY <2>1, <2>4, <3>2 DEF BlocksSound, OneTasksBlocks
    <3> QED
      BY <2>3, <3>4, <3>5, <3>6 DEF BlocksSound, FullMeansComplete
  <2>7. CASE task = 0 \/ FailTask(w)
    BY <1>7, <2>5, <2>7 DEF CompleteTask, FailTask, taskVars
  <2> QED
    BY <1>7, <2>6, <2>7
<1> QED
    BY <1>1, <1>2, <1>3, <1>4, <1>5, <1>6, <1>7 DEF DlNext, Work

\* A buffer that counts as full can be assembled, and into one file: what
\* complete_block and fail_block leave behind, whatever the order in which the
\* workers take the two locks.
THEOREM BuffersAreSound == DlSpec => []BlocksSound
<1>1. DlInit => DlTyped /\ LoadsCounted /\ BlocksSound /\ OwnTask
    BY DlTypedInit, BlocksInit
<1>2. DlTyped /\ LoadsCounted /\ BlocksSound /\ OwnTask /\ [DlNext]_dlVars => (DlTyped /\ LoadsCounted /\ BlocksSound /\ OwnTask)'
    BY DlTypedStep, BlocksStep
<1> QED
    BY <1>1, <1>2, PTL DEF DlSpec

\* The load a call has raised and not released yet: the block is assigned to the
\* node, up to the release, or about to be.
Settling == {"completeTask", "failTask"}
Charges(jobs, held, n, b) ==
    \/ held[b] = n /\ ~\E v \in Worker : jobs[v].block = b /\ jobs[v].step \in Settling
    \/ \E v \in Worker : jobs[v].block = b /\ jobs[v].step = "record" /\ jobs[v].node = n
Charged(jobs, held, n) == {b \in Block : Charges(jobs, held, n, b)}

\* The steps of a call that holds an assignment, and those that know its node.
Holding == {"fetching", "complete", "completeLoad", "completeTask", "fail", "failLoad", "failTask"}
Naming == {"completeLoad", "completeTask", "failLoad", "failTask"}

\* Calls of different workers are about different blocks; an assigned block has a
\* call at work on it; that call names the node the block is assigned to.
CalmCalls(jobs, held) ==
    /\ \A v, w \in Worker : v # w /\ jobs[v].step # "idle" /\ jobs[w].step # "idle" => jobs[v].block # jobs[w].block
    /\ \A b \in Block : held[b] # NoNode => \E v \in Worker : jobs[v].block = b /\ jobs[v].step \in Holding
    /\ \A w \in Worker : jobs[w].step \in Naming => jobs[w].node = held[jobs[w].block]

Calm ==
    ~mixedUp => /\ CalmCalls(worker, assigned)
                /\ \A n \in Node : load[n] = Cardinality(Charged(worker, assigned, n))

\* No other worker is at block b.
Alone(jobs, w, b) == \A v \in Worker : v # w /\ jobs[v].step # "idle" => jobs[v].block # b

\* A block that one worker alone is at is charged as that worker's step says.
LEMMA ChargesOwn ==
    ASSUME NEW jobs, NEW held, NEW w \in Worker, NEW b, NEW n, Alone(jobs, w, b)
    PROVE  Charges(jobs, held, n, b) <=>
              \/ held[b] = n /\ ~(jobs[w].block = b /\ jobs[w].step \in Settling)
              \/ jobs[w].block = b /\ jobs[w].step = "record" /\ jobs[w].node = n
BY DEF Charges, Alone, Settling

\* A step of a worker at one block, alone there: what it says of its own block is
\* all there is to check.
LEMMA CalmStep ==
    ASSUME NEW jobs, NEW held, NEW next, NEW then, NEW w \in Worker, NEW b \in Block,
           CalmCalls(jobs, held), Alone(jobs, w, b),
           \A v \in Worker : v # w => next[v] = jobs[v],
           \A c \in Block : c # b => then[c] = held[c],
           \A v \in Worker : jobs[v].block \in Block,
           jobs[w].step = "idle" \/ jobs[w].block = b,
           next[w].step = "idle" \/ next[w].block = b,
           then[b] # NoNode => next[w].block = b /\ next[w].step \in Holding,
           next[w].step \in Naming => next[w].node = then[b]
    PROVE  /\ CalmCalls(next, then) /\ Alone(next, w, b)
           /\ \A n : \A c \in Block : c # b => (Charges(next, then, n, c) <=> Charges(jobs, held, n, c))
<1>1. Alone(next, w, b)
    BY DEF Alone
<1>2. ASSUME NEW v \in Worker, NEW u \in Worker, v # u, next[v].step # "idle", next[u].step # "idle" PROVE next[v].block # next[u].block
  <2>1. CASE v # w /\ u # w
    BY <1>2, <2>1 DEF CalmCalls
  <2>2. CASE v = w
    BY <1>2, <1>1, <2>2 DEF Alone
  <2>3. CASE u = w
    BY <1>2, <1>1, <2>3 DEF Alone
  <2> QED
    BY <2>1, <2>2, <2>3
<1>3. ASSUME NEW c \in Block, then[c] # NoNode PROVE \E v \in Worker : next[v].block = c /\ next[v].step \in Holding
  <2>1. CASE c = b
    BY <1>3, <2>1
  <2>2. CASE c # b
    <3>1. PICK v \in Worker : jobs[v].block = c /\ jobs[v].step \in Holding
      BY <1>3, <2>2 DEF CalmCalls
    <3>2. v # w
      BY <2>2, <3>1 DEF Holding
    <3> QED
      BY <3>1, <3>2
  <2> QED
    BY <2>1, <2>2
<1>4. ASSUME NEW v \in Worker, next[v].step \in Naming PROVE next[v].node = then[next[v].block]
  <2>1. CASE v = w
    BY <1>4, <2>1 DEF Naming
  <2>2. CASE v # w
    <3>1. jobs[v].step \in Naming /\ next[v] = jobs[v] /\ jobs[v].step # "idle"
      BY <1>4, <2>2 DEF Naming
    <3>2. jobs[v].block # b /\ jobs[v].block \in Block /\ jobs[v].node = held[jobs[v].block]
      BY <2>2, <3>1 DEF Alone, CalmCalls
    <3> QED
      BY <3>1, <3>2
  <2> QED
    BY <2>1, <2>2
<1>5. CalmCalls(next, then)
    BY <1>2, <1>3, <1>4 DEF CalmCalls
<1>6. ASSUME NEW n, NEW c \in Block, c # b PROVE Charges(next, then, n, c) <=> Charges(jobs, held, n, c)
  <2>1. \A v \in Worker : (next[v].block = c /\ next[v].step \in Settling) <=> (jobs[v].block = c /\ jobs[v].step \in Settling)
    BY <1>6 DEF Settling
  <2>2. \A v \in Worker : (next[v].block = c /\ next[v].step = "record" /\ next[v].node = n) <=> (jobs[v].block = c /\ jobs[v].step = "record" /\ jobs[v].node = n)
    BY <1>6
  <2>3. then[c] = held[c]
    BY <1>6
  <2> QED
    BY <2>1, <2>2, <2>3 DEF Charges
<1> QED
    BY <1>1, <1>5, <1>6

\* A set of blocks is finite; one more, one less.
LEMMA ChargedFinite ==
    ASSUME NEW jobs, NEW held, NEW n
    PROVE  IsFiniteSet(Charged(jobs, held, n)) /\ Cardinality(Charged(jobs, held, n)) \in Nat
<1>1. Charged(jobs, held, n) \subseteq Block
    BY DEF Charged
<1>2. IsFiniteSet(Charged(jobs, held, n))
    BY <1>1, DlConstants, FS_Subset
<1> QED
    BY <1>2, FS_CardinalityType

\* Steps that leave the loads alone and what the worker's block is charged for.
LEMMA CalmKept ==
    ASSUME NEW w \in Worker, NEW b \in Block, DlTyped, CalmCalls(worker, assigned), Alone(worker, w, b),
           \A n \in Node : load[n] = Cardinality(Charged(worker, assigned, n)),
           \A v \in Worker : v # w => worker'[v] = worker[v],
           \A c \in Block : c # b => assigned'[c] = assigned[c],
           worker[w].step = "idle" \/ worker[w].block = b,
           worker'[w].step = "idle" \/ worker'[w].block = b,
           assigned'[b] # NoNode => worker'[w].block = b /\ worker'[w].step \in Holding,
           worker'[w].step \in Naming => worker'[w].node = assigned'[b],
           \A n \in Node : Charges(worker', assigned', n, b) <=> Charges(worker, assigned, n, b),
           load' = load
    PROVE  Calm'
<1>1. \A v \in Worker : worker[v].block \in Block
    BY DEF DlTyped, Jobs
<1>2. /\ CalmCalls(worker', assigned')
      /\ \A n : \A c \in Block : c # b => (Charges(worker', assigned', n, c) <=> Charges(worker, assigned, n, c))
    BY <1>1, CalmStep, SMTT(40)
<1>3. \A n \in Node : Charged(worker', assigned', n) = Charged(worker, assigned, n)
    BY <1>2 DEF Charged
<1> QED
    BY <1>2, <1>3 DEF Calm

\* What a calm worker's call stands for.
LEMMA CalmHere ==
    ASSUME NEW w \in Worker, NEW b \in Block, DlTyped, CalmCalls(worker, assigned), worker[w].step # "idle", worker[w].block = b
    PROVE  /\ Alone(worker, w, b)
           /\ assigned[b] # NoNode => worker[w].step \in Holding
           /\ worker[w].step \in Naming => worker[w].node = assigned[b]
<1>1. Alone(worker, w, b)
    BY DEF Alone, CalmCalls
<1>2. ASSUME assigned[b] # NoNode PROVE worker[w].step \in Holding
  <2>1. PICK v \in Worker : worker[v].block = b /\ worker[v].step \in Holding
    BY <1>2 DEF CalmCalls
  <2> QED
    BY <1>1, <2>1 DEF Alone, Holding
<1> QED
    BY <1>1, <1>2 DEF CalmCalls

\* A worker that starts on a block nobody is at: the block is assigned to nobody.
LEMMA FreshHere ==
    ASSUME NEW w \in Worker, NEW b \in Block, CalmCalls(worker, assigned), worker[w] = Idle, ~Overlaps(w, b)
    PROVE  Alone(worker, w, b) /\ assigned[b] = NoNode
<1>1. Alone(worker, w, b) /\ worker[w].step = "idle"
    BY IdleJob DEF Alone, Overlaps
<1>2. ASSUME assigned[b] # NoNode PROVE FALSE
  <2>1. PICK v \in Worker : worker[v].block = b /\ worker[v].step \in Holding
    BY <1>2 DEF CalmCalls
  <2> QED
    BY <1>1, <2>1 DEF Alone, Holding
<1> QED
    BY <1>1, <1>2

\* Steps of the workers that leave the loads alone.
LEMMA CalmQuiet ==
    ASSUME DlTyped, OwnTask, Calm, ~mixedUp', NEW w \in Worker, NEW b \in Block,
           \/ Assign(w, b)
           \/ (LateAnswer(w) /\ worker'[w].block = b)
           \/ /\ worker[w].block = b
              /\ \/ AssignRecord(w) \/ FetchAnswer(w) \/ GiveUp(w)
                 \/ FindNode(w, "complete", "completeLoad") \/ FindNode(w, "fail", "failLoad")
                 \/ CompleteTask(w) \/ FailTask(w)
    PROVE  Calm'
<1>0. /\ worker \in [Worker -> Jobs] /\ assigned \in [Block -> Node \cup {NoNode}] /\ NoNode \notin Node
      /\ \A v \in Worker : worker[v].step # "idle" => worker[v].data \in 1..MaxTasks
      /\ \A v \in Worker : worker[v].step \in {"load", "record"} => worker[v].node \in Node
    BY DlConstants DEF DlTyped
<1>1. ~mixedUp /\ load' = load
  <2>1. CASE Assign(w, b)
    BY <2>1 DEF Assign
  <2>2. CASE LateAnswer(w)
    BY <2>2 DEF LateAnswer
  <2>3. CASE AssignRecord(w) \/ FetchAnswer(w) \/ GiveUp(w) \/ FindNode(w, "complete", "completeLoad") \/ FindNode(w, "fail", "failLoad")
    BY <2>3 DEF AssignRecord, FetchAnswer, GiveUp, FindNode
  <2>4. CASE CompleteTask(w) \/ FailTask(w)
    BY <2>4 DEF CompleteTask, FailTask
  <2> QED
    BY <2>1, <2>2, <2>3, <2>4
<1>2. CalmCalls(worker, assigned) /\ \A n \in Node : load[n] = Cardinality(Charged(worker, assigned, n))
    BY <1>1 DEF Calm
<1>3. ASSUME Assign(w, b) \/ (LateAnswer(w) /\ worker'[w].block = b) PROVE Calm'
  <2>1. worker[w] = Idle /\ ~Overlaps(w, b) /\ assigned' = assigned
    <3>1. CASE Assign(w, b)
      BY <3>1 DEF Assign, taskVars
    <3>2. CASE LateAnswer(w) /\ worker'[w].block = b
      <4>1. PICK a \in late : worker' = [worker EXCEPT ![w] = Job("complete", a[1], NoNode, a[2])] /\ mixedUp' = (mixedUp \/ Overlaps(w, a[1]))
        BY <3>2 DEF LateAnswer
      <4>2. a[1] = b
        BY <1>0, <3>2, <4>1 DEF Job
      <4> QED
        BY <3>2, <4>1, <4>2 DEF LateAnswer, taskVars
    <3> QED
      BY <1>3, <3>1, <3>2
  <2>2. /\ worker'[w].block = b /\ worker'[w].step \in {"load", "complete"} /\ \A v \in Worker : v # w => worker'[v] = worker[v]
    <3>1. CASE Assign(w, b)
      BY <1>0, <3>1 DEF Assign, Job
    <3>2. CASE LateAnswer(w) /\ worker'[w].block = b
      BY <1>0, <3>2 DEF LateAnswer, Job
    <3> QED
      BY <1>3, <3>1, <3>2
  <2>3. Alone(worker, w, b) /\ assigned[b] = NoNode /\ worker[w].step = "idle"
    BY <1>2, <2>1, FreshHere, IdleJob
  <2>4. Alone(worker', w, b)
    BY <2>2, <2>3 DEF Alone
  <2>5. ASSUME NEW n \in Node PROVE ~Charges(worker, assigned, n, b) /\ ~Charges(worker', assigned', n, b)
    <3>1. ~Charges(worker, assigned, n, b)
      BY <1>0, <2>3, ChargesOwn DEF Settling
    <3>2. Charges(worker', assigned', n, b) <=>
              \/ assigned'[b] = n /\ ~(worker'[w].block = b /\ worker'[w].step \in Settling)
              \/ worker'[w].block = b /\ worker'[w].step = "record" /\ worker'[w].node = n
      BY <2>4, ChargesOwn
    <3>3. assigned'[b] # n /\ worker'[w].step # "record"
      BY <1>0, <2>1, <2>2, <2>3
    <3> QED
      BY <3>1, <3>2, <3>3
  <2>6. worker'[w].step \notin Naming
    BY <2>2 DEF Naming
  <2> QED
    BY <1>1, <1>2, <2>1, <2>2, <2>3, <2>5, <2>6, CalmKept
<1>4. ASSUME worker[w].block = b, AssignRecord(w) PROVE Calm'
  <2>1. worker[w].step = "record" /\ task # 0 /\ worker[w].node \in Node
    BY <1>0, <1>1, <1>4, DlConstants DEF AssignRecord, OwnTask
  <2>2. assigned' = [assigned EXCEPT ![b] = worker[w].node] /\ worker' = [worker EXCEPT ![w].step = "fetching"]
    BY <1>4, <2>1 DEF AssignRecord
  <2>3. Alone(worker, w, b) /\ assigned[b] = NoNode
    BY <1>2, <1>4, <2>1, CalmHere DEF Holding
  <2>4. /\ worker'[w].step = "fetching" /\ worker'[w].block = b /\ \A v \in Worker : v # w => worker'[v] = worker[v]
        /\ assigned'[b] = worker[w].node /\ \A c \in Block : c # b => assigned'[c] = assigned[c]
    BY <1>0, <1>4, <2>2 DEF Jobs
  <2>5. Alone(worker', w, b)
    BY <2>3, <2>4 DEF Alone
  <2>6. ASSUME NEW n \in Node PROVE Charges(worker', assigned', n, b) <=> Charges(worker, assigned, n, b)
    <3>1. Charges(worker, assigned, n, b) <=> worker[w].node = n
      BY <1>0, <1>4, <2>1, <2>3, ChargesOwn DEF Settling
    <3>2. Charges(worker', assigned', n, b) <=>
              \/ assigned'[b] = n /\ ~(worker'[w].block = b /\ worker'[w].step \in Settling)
              \/ worker'[w].block = b /\ worker'[w].step = "record" /\ worker'[w].node = n
      BY <2>5, ChargesOwn
    <3> QED
      BY <2>4, <3>1, <3>2 DEF Settling
  <2>7. worker'[w].step \notin Naming /\ worker'[w].step \in Holding
    BY <2>4 DEF Naming, Holding
  <2> QED
    BY <1>1, <1>2, <1>4, <2>3, <2>4, <2>6, <2>7, CalmKept
<1>5. ASSUME worker[w].block = b, \/ FetchAnswer(w) \/ GiveUp(w) \/ FindNode(w, "complete", "completeLoad") \/ FindNode(w, "fail", "failLoad")
      PROVE Calm'
  <2>1. worker[w].step \in {"fetching", "complete", "fail"} /\ assigned' = assigned
    BY <1>5 DEF FetchAnswer, GiveUp, FindNode, taskVars
  <2>2. /\ worker'[w].step \in {"complete", "fail", "completeLoad", "failLoad"} /\ worker'[w].block = b
        /\ worker'[w].step \in Naming => worker'[w].node = assigned[b]
        /\ \A v \in Worker : v # w => worker'[v] = worker[v]
    BY <1>0, <1>5 DEF FetchAnswer, GiveUp, FindNode, Naming, Jobs
  <2>3. Alone(worker, w, b)
    BY <1>2, <1>5, <2>1, CalmHere
  <2>4. Alone(worker', w, b)
    BY <2>2, <2>3 DEF Alone
  <2>5. ASSUME NEW n \in Node PROVE Charges(worker', assigned', n, b) <=> Charges(worker, assigned, n, b)
    <3>1. Charges(worker, assigned, n, b) <=> assigned[b] = n
      <4>1. worker[w].step \notin Settling /\ worker[w].step # "record"
        BY <2>1 DEF Settling
      <4>2. Charges(worker, assigned, n, b) <=>
              \/ assigned[b] = n /\ ~(worker[w].block = b /\ worker[w].step \in Settling)
              \/ worker[w].block = b /\ worker[w].step = "record" /\ worker[w].node = n
        BY <2>3, ChargesOwn
      <4> QED
        BY <4>1, <4>2
    <3>2. Charges(worker', assigned', n, b) <=>
              \/ assigned'[b] = n /\ ~(worker'[w].block = b /\ worker'[w].step \in Settling)
              \/ worker'[w].block = b /\ worker'[w].step = "record" /\ worker'[w].node = n
      BY <2>4, ChargesOwn
    <3> QED
      BY <2>1, <2>2, <3>1, <3>2 DEF Settling
  <2>6. worker'[w].step \in Holding
    BY <2>2 DEF Holding
  <2> QED
    BY <1>1, <1>2, <1>5, <2>1, <2>2, <2>3, <2>5, <2>6, CalmKept
<1>6. ASSUME worker[w].block = b, CompleteTask(w) \/ FailTask(w) PROVE Calm'
  <2>1. worker[w].step \in Settling /\ worker[w].step # "idle"
    BY <1>6 DEF CompleteTask, FailTask, Settling
  <2>2. task # 0
    BY <1>0, <1>1, <2>1, DlConstants DEF OwnTask
  <2>3. assigned' = [assigned EXCEPT ![b] = NoNode] /\ worker' = [worker EXCEPT ![w] = Idle]
    BY <1>6, <2>2 DEF CompleteTask, FailTask
  <2>4. /\ worker'[w].step = "idle" /\ \A v \in Worker : v # w => worker'[v] = worker[v]
        /\ assigned'[b] = NoNode /\ \A c \in Block : c # b => assigned'[c] = assigned[c]
    BY <1>0, <2>3, IdleJob
  <2>5. Alone(worker, w, b)
    BY <1>2, <1>6, <2>1, CalmHere
  <2>6. Alone(worker', w, b)
    BY <2>4, <2>5 DEF Alone
  <2>7. ASSUME NEW n \in Node PROVE ~Charges(worker, assigned, n, b) /\ ~Charges(worker', assigned', n, b)
    <3>1. ~Charges(worker, assigned, n, b)
      BY <1>6, <2>1, <2>5, ChargesOwn DEF Settling
    <3>2. Charges(worker', assigned', n, b) <=>
              \/ assigned'[b] = n /\ ~(worker'[w].block = b /\ worker'[w].step \in Settling)
              \/ worker'[w].block = b /\ worker'[w].step = "record" /\ worker'[w].node = n
      BY <2>6, ChargesOwn
    <3> QED
      BY <1>0, <2>4, <3>1, <3>2
  <2>8. worker'[w].step \notin Naming
    BY <2>4 DEF Naming
  <2> QED
    BY <1>1, <1>2, <1>6, <2>4, <2>5, <2>7, <2>8, CalmKept
<1> QED
    BY <1>3, <1>4, <1>5, <1>6

\* Raising a load charges the block to its node.
LEMMA CalmRaise ==
    ASSUME DlTyped, Calm, ~mixedUp', NEW w \in Worker, NEW b \in Block, NEW k \in Node,
           worker[w].block = b, worker[w].node = k, AssignLoad(w)
    PROVE  Calm'
<1>0. worker \in [Worker -> Jobs] /\ load \in [Node -> Nat] /\ NoNode \notin Node /\ \A v \in Worker : worker[v].block \in Block
    BY DlConstants DEF DlTyped, Jobs
<1>1. /\ ~mixedUp /\ assigned' = assigned /\ worker[w].step = "load" /\ load' = [load EXCEPT ![k] = @ + 1]
      /\ worker' = [worker EXCEPT ![w].step = "record"]
    BY DEF AssignLoad, taskVars
<1>2. CalmCalls(worker, assigned) /\ \A n \in Node : load[n] = Cardinality(Charged(worker, assigned, n))
    BY <1>1 DEF Calm
<1>3. Alone(worker, w, b) /\ assigned[b] = NoNode
    BY <1>1, <1>2, CalmHere DEF Holding
<1>4. /\ worker'[w].step = "record" /\ worker'[w].block = b /\ worker'[w].node = k /\ \A v \in Worker : v # w => worker'[v] = worker[v]
      /\ \A c \in Block : c # b => assigned'[c] = assigned[c]
    BY <1>0, <1>1 DEF Jobs
<1>5. worker'[w].step \notin Naming
    BY <1>4 DEF Naming
<1>6. /\ CalmCalls(worker', assigned') /\ Alone(worker', w, b)
      /\ \A n : \A c \in Block : c # b => (Charges(worker', assigned', n, c) <=> Charges(worker, assigned, n, c))
  <2>1. assigned'[b] = NoNode
    BY <1>1, <1>3
  <2> QED
    BY <1>0, <1>2, <1>3, <1>4, <1>5, <2>1, CalmStep, SMTT(40)
<1>7. \A n \in Node : ~Charges(worker, assigned, n, b)
    BY <1>0, <1>1, <1>3, ChargesOwn DEF Settling
<1>8. \A n \in Node : Charges(worker', assigned', n, b) <=> n = k
  <2>1. \A n \in Node : Charges(worker', assigned', n, b) <=>
              \/ assigned'[b] = n /\ ~(worker'[w].block = b /\ worker'[w].step \in Settling)
              \/ worker'[w].block = b /\ worker'[w].step = "record" /\ worker'[w].node = n
    BY <1>6, ChargesOwn
  <2> QED
    BY <1>0, <1>1, <1>3, <1>4, <2>1
<1>9. ASSUME NEW n \in Node PROVE load'[n] = Cardinality(Charged(worker', assigned', n))
  <2>1. CASE n # k
    <3>1. Charged(worker', assigned', n) = Charged(worker, assigned, n)
      BY <1>6, <1>7, <1>8, <2>1 DEF Charged
    <3> QED
      BY <1>0, <1>1, <1>2, <2>1, <3>1
  <2>2. CASE n = k
    <3>1. Charged(worker', assigned', n) = Charged(worker, assigned, n) \cup {b} /\ b \notin Charged(worker, assigned, n)
      BY <1>6, <1>7, <1>8, <2>2 DEF Charged
    <3>2. IsFiniteSet(Charged(worker, assigned, n))
      BY ChargedFinite
    <3>3. Cardinality(Charged(worker, assigned, n) \cup {b}) = Cardinality(Charged(worker, assigned, n)) + 1
      BY <3>1, <3>2, FS_AddElement
    <3> QED
      BY <1>0, <1>1, <1>2, <2>2, <3>1, <3>3
  <2> QED
    BY <2>1, <2>2
<1> QED
    BY <1>6, <1>9 DEF Calm

\* Releasing it ends the charge.
LEMMA CalmRelease ==
    ASSUME DlTyped, LoadsCounted, Calm, ~mixedUp', NEW w \in Worker, NEW b \in Block, NEW k \in Node \cup {NoNode},
           NEW from \in {"completeLoad", "failLoad"}, NEW to \in {"completeTask", "failTask"},
           worker[w].block = b, worker[w].node = k, ReleaseLoad(w, from, to)
    PROVE  Calm'
<1>0. worker \in [Worker -> Jobs] /\ load \in [Node -> Nat] /\ NoNode \notin Node /\ \A v \in Worker : worker[v].block \in Block
    BY DlConstants DEF DlTyped, Jobs
<1>1. ~mixedUp /\ assigned' = assigned /\ worker[w].step = from /\ worker' = [worker EXCEPT ![w].step = to]
    BY DEF ReleaseLoad, taskVars
<1>2. CalmCalls(worker, assigned) /\ \A n \in Node : load[n] = Cardinality(Charged(worker, assigned, n))
    BY <1>1 DEF Calm
<1>3. worker[w].step \in Naming /\ worker[w].step # "idle" /\ worker[w].step # "record" /\ worker[w].step \notin Settling
    BY <1>1 DEF Naming, Settling
<1>4. Alone(worker, w, b) /\ assigned[b] = k
    BY <1>2, <1>3, CalmHere
<1>5. /\ worker'[w].step = to /\ worker'[w].block = b /\ worker'[w].node = k /\ \A v \in Worker : v # w => worker'[v] = worker[v]
      /\ \A c \in Block : c # b => assigned'[c] = assigned[c]
    BY <1>0, <1>1 DEF Jobs
<1>6. worker'[w].step \in Holding /\ worker'[w].step \in Settling /\ worker'[w].step # "record" /\ assigned'[b] = k
    BY <1>1, <1>4, <1>5 DEF Holding, Settling
<1>7. /\ CalmCalls(worker', assigned') /\ Alone(worker', w, b)
      /\ \A n : \A c \in Block : c # b => (Charges(worker', assigned', n, c) <=> Charges(worker, assigned, n, c))
  <2>1. (assigned'[b] # NoNode => worker'[w].block = b /\ worker'[w].step \in Holding) /\ (worker'[w].step \in Naming => worker'[w].node = assigned'[b])
    BY <1>5, <1>6
  <2>2. worker[w].block = b /\ worker'[w].block = b
    BY <1>5
  <2> QED
    BY <1>0, <1>2, <1>4, <1>5, <2>1, <2>2, CalmStep, SMTT(40)
<1>8. \A n \in Node : Charges(worker, assigned, n, b) <=> n = k
  <2>1. ASSUME NEW n \in Node
        PROVE  Charges(worker, assigned, n, b) <=>
                  \/ assigned[b] = n /\ ~(worker[w].block = b /\ worker[w].step \in Settling)
                  \/ worker[w].block = b /\ worker[w].step = "record" /\ worker[w].node = n
    BY ONLY <1>4, w \in Worker, ChargesOwn
  <2> QED
    BY <1>3, <1>4, <2>1
<1>9. \A n \in Node : ~Charges(worker', assigned', n, b)
  <2>1. \A n \in Node : Charges(worker', assigned', n, b) <=>
              \/ assigned'[b] = n /\ ~(worker'[w].block = b /\ worker'[w].step \in Settling)
              \/ worker'[w].block = b /\ worker'[w].step = "record" /\ worker'[w].node = n
    BY <1>7, ChargesOwn
  <2> QED
    BY <1>5, <1>6, <2>1
<1>10. \A m \in Node : load'[m] = IF m = k /\ load[m] > 0 THEN load[m] - 1 ELSE load[m]
  <2>1. \A m \in Node : load'[m] = IF m = worker[w].node /\ load[m] > 0 THEN load[m] - 1 ELSE load[m]
    BY ReleaseTyped
  <2> QED
    BY <2>1
<1>11. ASSUME NEW n \in Node PROVE load'[n] = Cardinality(Charged(worker', assigned', n))
  <2>1. CASE n # k
    <3>1. Charged(worker', assigned', n) = Charged(worker, assigned, n)
      BY <1>7, <1>8, <1>9, <2>1 DEF Charged
    <3> QED
      BY <1>2, <1>10, <2>1, <3>1
  <2>2. CASE n = k
    <3>1. Charged(worker', assigned', n) = Charged(worker, assigned, n) \ {b} /\ b \in Charged(worker, assigned, n)
      BY <1>7, <1>8, <1>9, <2>2 DEF Charged
    <3>2. IsFiniteSet(Charged(worker, assigned, n)) /\ Cardinality(Charged(worker, assigned, n)) \in Nat
      BY ChargedFinite
    <3>3. Cardinality(Charged(worker, assigned, n) \ {b}) = Cardinality(Charged(worker, assigned, n)) - 1
      BY <3>1, <3>2, FS_RemoveElement
    <3>4. Cardinality(Charged(worker, assigned, n)) # 0
      BY <3>1, <3>2, FS_EmptySet
    <3>5. load[n] > 0
      BY <1>2, <3>2, <3>4
    <3> QED
      BY <1>2, <1>10, <2>2, <3>1, <3>3, <3>5
  <2> QED
    BY <2>1, <2>2
<1> QED
    BY <1>7, <1>11 DEF Calm

\* Nobody at work: nothing is charged.
LEMMA NobodyCharged ==
    ASSUME NEW jobs, NEW held, \A v \in Worker : jobs[v].step = "idle", \A b \in Block : held[b] = NoNode
    PROVE  CalmCalls(jobs, held) /\ \A n \in Node : Cardinality(Charged(jobs, held, n)) = 0
<1>1. CalmCalls(jobs, held)
    BY DEF CalmCalls, Naming
<1>2. \A n \in Node : Charged(jobs, held, n) = {}
    BY DlConstants DEF Charged, Charges
<1> QED
    BY <1>1, <1>2, FS_EmptySet

\* It holds at first.
LEMMA CalmInit == DlInit => Calm
<1> SUFFICES ASSUME DlInit PROVE Calm
    OBVIOUS
<1>1. (\A v \in Worker : worker[v].step = "idle") /\ (\A b \in Block : assigned[b] = NoNode) /\ \A n \in Node : load[n] = 0
    BY IdleJob DEF DlInit
<1> QED
    BY <1>1, NobodyCharged DEF Calm

\* A task that is replaced or cancelled while nobody is at work.
LEMMA CalmNewTask ==
    ASSUME DlTyped, Calm, ~mixedUp', CreateTask \/ Cancel
    PROVE  Calm'
<1>1. NewTask /\ UNCHANGED <<worker, load>> /\ mixedUp' = (mixedUp \/ AnyBusy \/ late # {})
    BY DEF CreateTask, Cancel
<1>2. ~mixedUp /\ \A v \in Worker : worker[v].step = "idle"
    BY <1>1, IdleJob DEF AnyBusy
<1>3. CalmCalls(worker, assigned) /\ \A n \in Node : load[n] = Cardinality(Charged(worker, assigned, n))
    BY <1>2 DEF Calm
<1>4. \A b \in Block : assigned[b] = NoNode
    BY <1>2, <1>3 DEF CalmCalls, Holding
<1>5. \A n \in Node : load[n] = 0
    BY <1>2, <1>3, <1>4, NobodyCharged
<1>6. (\A v \in Worker : worker'[v].step = "idle") /\ (\A b \in Block : assigned'[b] = NoNode) /\ \A n \in Node : load'[n] = 0
    BY <1>1, <1>2, <1>5 DEF NewTask
<1>7. CalmCalls(worker', assigned') /\ \A n \in Node : Cardinality(Charged(worker', assigned', n)) = 0
    BY <1>6, NobodyCharged
<1> QED
    BY <1>6, <1>7 DEF Calm

\* Every step keeps the calm.
LEMMA CalmNext ==
    ASSUME DlTyped, LoadsCounted, OwnTask, Calm, [DlNext]_dlVars
    PROVE  Calm'
<1>0. CASE mixedUp'
    BY <1>0 DEF Calm
<1>1. CASE UNCHANGED dlVars
    BY <1>1 DEF dlVars, taskVars, Calm
<1>2. CASE ~mixedUp' /\ DlNext
  <2>0. \A w \in Worker : worker[w].block \in Block /\ worker[w].node \in Node \cup {NoNode} /\ (worker[w].step = "load" => worker[w].node \in Node)
    BY DEF DlTyped, Jobs
  <2>1. CASE CreateTask \/ Cancel
    BY <1>2, <2>1, CalmNewTask
  <2>2. ASSUME NEW w \in Worker, NEW b \in Block, Assign(w, b) PROVE Calm'
    BY <1>2, <2>2, CalmQuiet
  <2>3. ASSUME NEW w \in Worker, LateAnswer(w) PROVE Calm'
    <3>1. PICK a \in late : worker' = [worker EXCEPT ![w] = Job("complete", a[1], NoNode, a[2])]
      BY <2>3 DEF LateAnswer
    <3>2. PICK b \in Block : b = a[1]
      BY DEF DlTyped
    <3>3. worker'[w].block = b
      BY <3>1, <3>2 DEF DlTyped, Job
    <3> QED
      BY <1>2, <2>3, <3>3, CalmQuiet
  <2>4. ASSUME NEW w \in Worker, \/ AssignRecord(w) \/ FetchAnswer(w) \/ GiveUp(w)
                                 \/ FindNode(w, "complete", "completeLoad") \/ FindNode(w, "fail", "failLoad")
                                 \/ CompleteTask(w) \/ FailTask(w)
        PROVE Calm'
    <3>1. PICK b \in Block : worker[w].block = b
      BY <2>0
    <3> QED
      BY <1>2, <2>4, <3>1, CalmQuiet
  <2>5. ASSUME NEW w \in Worker, AssignLoad(w) PROVE Calm'
    <3>1. PICK b \in Block : worker[w].block = b
      BY <2>0
    <3>2. PICK k \in Node : worker[w].node = k
      BY <2>0, <2>5 DEF AssignLoad
    <3> QED
      BY <1>2, <2>5, <3>1, <3>2, CalmRaise
  <2>6. ASSUME NEW w \in Worker, ReleaseLoad(w, "completeLoad", "completeTask") \/ ReleaseLoad(w, "failLoad", "failTask") PROVE Calm'
    <3>1. PICK b \in Block : worker[w].block = b
      BY <2>0
    <3>2. PICK k \in Node \cup {NoNode} : worker[w].node = k
      BY <2>0
    <3> QED
      BY <1>2, <2>6, <3>1, <3>2, CalmRelease
  <2> QED
    BY <1>2, <2>1, <2>2, <2>3, <2>4, <2>5, <2>6 DEF DlNext, Work
<1> QED
    BY <1>0, <1>1, <1>2

\* Between the calls the charges are the assignments.
LEMMA CalmExact == Calm => LoadExact
<1> SUFFICES ASSUME Calm, ~mixedUp, ~Unsettled, NEW n \in Node PROVE load[n] = Cardinality({b \in Block : assigned[b] = n})
    BY DEF LoadExact
<1>1. Charged(worker, assigned, n) = {b \in Block : assigned[b] = n}
    BY DEF Unsettled, Charged, Charges, Settling
<1> QED
    BY <1>1 DEF Calm

\* The load that select_source balances by is the number of blocks each node is
\* downloading: for any number of workers, nodes and blocks, with late answers,
\* retries and failures, as long as the calls for one block do not overlap and no
\* task is dropped with blocks assigned.
THEOREM LoadsAreExact == DlSpec => []LoadExact
<1>1. DlInit => DlTyped /\ LoadsCounted /\ BlocksSound /\ OwnTask /\ Calm
    BY DlTypedInit, BlocksInit, CalmInit
<1>2. DlTyped /\ LoadsCounted /\ BlocksSound /\ OwnTask /\ Calm /\ [DlNext]_dlVars => (DlTyped /\ LoadsCounted /\ BlocksSound /\ OwnTask /\ Calm)'
    BY DlTypedStep, BlocksStep, CalmNext
<1> QED
    BY <1>1, <1>2, CalmExact, PTL DEF DlSpec

----------------------------------------------------------------------------
(* IncrementalSync. *)

Manifests == {EmptyManifest} \cup {Manifest(d) : d \in Data}
SyJobs == [step : SyStep, target : Target \cup {NoTarget}, data : Data \cup {NoData}, manifest : Manifests,
           todo : SUBSET Index, have : Seq(Seq(Int))]
Syncing == {"manifest", "diff", "blocks", "done"}
Fetching == {"compare", "getBlocks"}

\* The types: what is held, sent and fetched is chunks and manifests of contents
\* that users gave the file.
SyTyped ==
    /\ authored \subseteq Data /\ local \in [Client -> authored] /\ state \in [Client -> authored \cup {NoData}]
    /\ manifests \in [Target -> Manifests] /\ \A t \in Target : manifests[t] = EmptyManifest \/ manifests[t].file \in authored
    /\ stored \in [Target -> [Index -> Seq(Int)]]
    /\ job \in [Client -> SyJobs]
    /\ \A c \in Client : /\ job[c].step # "idle" => job[c].target \in Target
                         /\ job[c].step = "idle" => job[c] = NoJob
                         /\ job[c].step \in Syncing => job[c].data \in authored
                         /\ job[c].manifest = EmptyManifest \/ job[c].manifest.file \in authored
    /\ edits \in 0..MaxEdits /\ syncedTo \in [Client -> Target \cup {NoTarget}] /\ unsettled \in BOOLEAN

\* The constants: contents are bytes, and every chunk of one has an index.
LEMMA SyConstants ==
    /\ NoTarget \notin Target /\ NoData \notin Data /\ MaxEdits \in Nat /\ Data \subseteq Seq(Nat) /\ Seq(Nat) \subseteq Seq(Int)
    /\ Index \subseteq Nat /\ \A d \in Data : 0..NumChunks(d) - 1 \subseteq Index
<1>1. NoTarget \notin Target /\ NoData \notin Data /\ MaxEdits \in Nat /\ Data \subseteq Seq(Nat)
    BY SyAssumption
<1>2. Seq(Nat) \subseteq Seq(Int)
    BY SeqMonotonic
<1>3. PICK d \in Data : \A e \in Data : Len(e) <= Len(d)
    BY SyAssumption
<1>4. Index \subseteq Nat /\ \A e \in Data : 0..NumChunks(e) - 1 \subseteq Index
    BY <1>1, <1>3, IndexesCover DEF Index
<1> QED
    BY <1>1, <1>2, <1>4

\* Manifests: the made-up one has no chunks, and no file's digest.
LEMMA ManifestFacts ==
    /\ EmptyManifest \in Manifests /\ EmptyManifest.file = <<-1>> /\ EmptyManifest.chunks = <<>>
    /\ \A d \in Data : /\ Manifest(d) \in Manifests /\ Manifest(d).file = d /\ Manifest(d).chunks = ChunkData(d) /\ d # <<-1>>
                       /\ d \in Seq(Nat)
    /\ \A m \in Manifests : /\ m.chunks \in Seq(Seq(Int)) /\ Len(m.chunks) \in Nat /\ 0..Len(m.chunks) - 1 \subseteq Index
                            /\ \A e \in Data : m.file = e => m = Manifest(e)
<1>1. EmptyManifest \in Manifests /\ EmptyManifest.file = <<-1>> /\ EmptyManifest.chunks = <<>>
    BY DEF Manifests, EmptyManifest, ZeroHash
<1>2. ASSUME NEW d \in Data PROVE /\ Manifest(d) \in Manifests /\ Manifest(d).file = d /\ Manifest(d).chunks = ChunkData(d) /\ d # <<-1>> /\ d \in Seq(Nat)
  <2>1. d \in Seq(Nat)
    BY SyConstants
  <2>2. d # <<-1>>
    <3>1. ASSUME d = <<-1>> PROVE FALSE
      <4>1. Len(d) = 1 /\ d[1] = -1
        BY <3>1
      <4>2. d[1] \in Nat
        BY <2>1, <4>1
      <4> QED
        BY <4>1, <4>2
    <3> QED
      BY <3>1
  <2> QED
    BY <2>1, <2>2 DEF Manifests, Manifest
<1>3. ASSUME NEW m \in Manifests PROVE /\ m.chunks \in Seq(Seq(Int)) /\ Len(m.chunks) \in Nat /\ 0..Len(m.chunks) - 1 \subseteq Index
                                       /\ \A e \in Data : m.file = e => m = Manifest(e)
  <2>1. CASE m = EmptyManifest
    <3>1. m.chunks = <<>> /\ Len(<<>>) = 0 /\ 0..0 - 1 = {} /\ <<>> \in Seq(Seq(Int))
      BY <1>1, <2>1
    <3> QED
      BY <1>1, <1>2, <2>1, <3>1
  <2>2. ASSUME NEW d \in Data, m = Manifest(d) PROVE /\ m.chunks \in Seq(Seq(Int)) /\ Len(m.chunks) \in Nat /\ 0..Len(m.chunks) - 1 \subseteq Index
                                                     /\ \A e \in Data : m.file = e => m = Manifest(e)
    <3>1. m.file = d /\ m.chunks = ChunkData(d) /\ d \in Seq(Nat)
      BY <1>2, <2>2
    <3>2. m.chunks \in Seq(Seq(Nat)) /\ Len(m.chunks) = NumChunks(d) /\ NumChunks(d) \in Nat
      BY <3>1, ChunksType
    <3>3. Seq(Seq(Nat)) \subseteq Seq(Seq(Int))
      BY SyConstants, SeqMonotonic
    <3> QED
      BY <2>2, <3>1, <3>2, <3>3, SyConstants
  <2> QED
    BY <2>1, <2>2 DEF Manifests
<1> QED
    BY <1>1, <1>2, <1>3

\* A client that does nothing.
LEMMA NoJobType == NoJob \in SyJobs /\ NoJob.step = "idle" /\ NoJob.manifest = EmptyManifest /\ NoJob.have = <<>> /\ NoJob.data = NoData
<1>1. <<>> \in Seq(Seq(Int))
    OBVIOUS
<1> QED
    BY <1>1, ManifestFacts DEF NoJob, SyJobs, SyStep

\* It holds at first.
LEMMA SyTypedInit == SyInit => SyTyped
<1> SUFFICES ASSUME SyInit PROVE SyTyped
    OBVIOUS
<1>1. authored \subseteq Data /\ local \in [Client -> authored] /\ state \in [Client -> authored \cup {NoData}]
    BY DEF SyInit
<1>2. manifests \in [Target -> Manifests] /\ \A t \in Target : manifests[t] = EmptyManifest
    BY ManifestFacts DEF SyInit
<1>3. stored \in [Target -> [Index -> Seq(Int)]]
  <2>1. <<>> \in Seq(Int)
    OBVIOUS
  <2> QED
    BY <2>1 DEF SyInit, NoBlock
<1>4. job \in [Client -> SyJobs] /\ \A c \in Client : job[c] = NoJob
    BY NoJobType DEF SyInit
<1>5. \A c \in Client : /\ job[c].step # "idle" => job[c].target \in Target
                        /\ job[c].step = "idle" => job[c] = NoJob
                        /\ job[c].step \in Syncing => job[c].data \in authored
                        /\ job[c].manifest = EmptyManifest
    BY <1>4, NoJobType DEF Syncing
<1>6. edits \in 0..MaxEdits /\ syncedTo \in [Client -> Target \cup {NoTarget}] /\ unsettled \in BOOLEAN
  <2>1. edits = 0 /\ syncedTo = [c \in Client |-> NoTarget] /\ unsettled = FALSE /\ 0 \in 0..MaxEdits
    BY SyConstants DEF SyInit
  <2> QED
    BY <2>1
<1> QED
    BY <1>1, <1>2, <1>3, <1>4, <1>5, <1>6 DEF SyTyped

\* They are the types.
LEMMA SyTypedTypes == SyTyped => SyTypeOK
<1> SUFFICES ASSUME SyTyped PROVE SyTypeOK
    OBVIOUS
<1>1. authored \subseteq Seq(Int)
    BY SyConstants DEF SyTyped
<1>2. ASSUME NEW c \in Client PROVE /\ local[c] \in Seq(Int) /\ state[c] \in Seq(Int) \cup {NoData}
                                    /\ job[c].step \in SyStep /\ job[c].target \in Target \cup {NoTarget}
                                    /\ job[c].todo \subseteq Index
    BY <1>1 DEF SyTyped, SyJobs
<1> QED
    BY <1>2 DEF SyTyped, SyTypeOK

\* A client whose job changes: what is to be shown is about that job alone.
LEMMA JobTyped ==
    ASSUME SyTyped, NEW c \in Client, NEW j \in SyJobs, job' = [job EXCEPT ![c] = j],
           authored \subseteq authored',
           j.step # "idle" => j.target \in Target,
           j.step = "idle" => j = NoJob,
           j.step \in Syncing => j.data \in authored',
           j.manifest = EmptyManifest \/ j.manifest.file \in authored'
    PROVE  /\ job' \in [Client -> SyJobs] /\ job'[c] = j /\ \A o \in Client : o # c => job'[o] = job[o]
           /\ \A o \in Client : /\ job'[o].step # "idle" => job'[o].target \in Target
                                /\ job'[o].step = "idle" => job'[o] = NoJob
                                /\ job'[o].step \in Syncing => job'[o].data \in authored'
                                /\ job'[o].manifest = EmptyManifest \/ job'[o].manifest.file \in authored'
<1>1. job \in [Client -> SyJobs]
    BY DEF SyTyped
<1>2. job' \in [Client -> SyJobs] /\ job'[c] = j /\ \A o \in Client : o # c => job'[o] = job[o]
    BY <1>1
<1>3. ASSUME NEW o \in Client PROVE /\ job'[o].step # "idle" => job'[o].target \in Target
                                    /\ job'[o].step = "idle" => job'[o] = NoJob
                                    /\ job'[o].step \in Syncing => job'[o].data \in authored'
                                    /\ job'[o].manifest = EmptyManifest \/ job'[o].manifest.file \in authored'
  <2>1. CASE o = c
    BY <1>2, <2>1
  <2>2. CASE o # c
    BY <1>2, <2>2 DEF SyTyped
  <2> QED
    BY <2>1, <2>2
<1> QED
    BY <1>2, <1>3

\* A call that ends.
LEMMA EndJob ==
    ASSUME SyTyped, NEW c \in Client, job' = [job EXCEPT ![c] = NoJob], UNCHANGED <<authored, local, manifests, stored, edits>>,
           state' \in [Client -> authored \cup {NoData}], syncedTo' \in [Client -> Target \cup {NoTarget}], unsettled' \in BOOLEAN
    PROVE  SyTyped'
<1>1. /\ NoJob \in SyJobs /\ NoJob.step = "idle" /\ NoJob.step \notin Syncing /\ NoJob.manifest = EmptyManifest
    BY NoJobType DEF Syncing
<1>2. /\ job' \in [Client -> SyJobs]
      /\ \A o \in Client : /\ job'[o].step # "idle" => job'[o].target \in Target
                           /\ job'[o].step = "idle" => job'[o] = NoJob
                           /\ job'[o].step \in Syncing => job'[o].data \in authored'
                           /\ job'[o].manifest = EmptyManifest \/ job'[o].manifest.file \in authored'
    BY <1>1, JobTyped
<1> QED
    BY <1>2 DEF SyTyped

\* A step that changes jobs, history and what the remote nodes hold.
LEMMA StepJob ==
    ASSUME SyTyped, NEW c \in Client, NEW j \in SyJobs, job' = [job EXCEPT ![c] = j], UNCHANGED <<authored, local, state, edits>>,
           manifests' \in [Target -> Manifests], \A t \in Target : manifests'[t] = EmptyManifest \/ manifests'[t].file \in authored,
           stored' \in [Target -> [Index -> Seq(Int)]],
           syncedTo' \in [Client -> Target \cup {NoTarget}], unsettled' \in BOOLEAN,
           j.step # "idle", j.target \in Target,
           j.step \in Syncing => j.data \in authored,
           j.manifest = EmptyManifest \/ j.manifest.file \in authored
    PROVE  SyTyped'
<1>2. /\ job' \in [Client -> SyJobs]
      /\ \A o \in Client : /\ job'[o].step # "idle" => job'[o].target \in Target
                           /\ job'[o].step = "idle" => job'[o] = NoJob
                           /\ job'[o].step \in Syncing => job'[o].data \in authored'
                           /\ job'[o].manifest = EmptyManifest \/ job'[o].manifest.file \in authored'
    BY JobTyped
<1> QED
    BY <1>2 DEF SyTyped

\* The larger one of two numbers.
LEMMA MaxOf == ASSUME NEW x \in Nat, NEW y \in Nat PROVE Max({x, y}) = IF x >= y THEN x ELSE y
BY TwoNumbers

\* The least element of a set of natural numbers is one of them.
LEMMA MinIn == ASSUME NEW S \in SUBSET Nat, S # {} PROVE Min(S) \in S /\ \A y \in S : Min(S) <= y
<1>1. \E x \in S : \A y \in S : x <= y
    BY NatMinExists
<1> QED
    BY <1>1 DEF Min

\* What is cut out of a file is bytes.
LEMMA ChunkBytes == ASSUME NEW d \in Seq(Nat), NEW i \in Nat PROVE ChunkAt(d, i) \in Seq(Nat)
<1>1. Len(d) \in Nat /\ i * ChunkSize \in Nat /\ (i + 1) * ChunkSize \in Nat
    BY ChunkSizeType
<1>2. PICK m \in Int, n \in Int : m = i * ChunkSize + 1 /\ n = Min({(i + 1) * ChunkSize, Len(d)})
    BY <1>1, TwoNumbers
<1>3. m >= 1 /\ n <= Len(d)
    BY <1>1, <1>2, TwoNumbers
<1>4. \A j \in m..n : d[j] \in Nat
    BY <1>1, <1>3
<1>5. SubSeq(d, m, n) \in Seq(Nat)
    BY <1>4, SubSeqProperties
<1> QED
    BY <1>2, <1>5 DEF ChunkAt

\* Only blocks the local file has are sent.
LEMMA TransferLocal ==
    ASSUME NEW m \in Manifests, NEW d \in Data
    PROVE  ToTransfer(m, d) \subseteq 0..NumChunks(d) - 1 /\ ToTransfer(m, d) \subseteq Index
<1>1. Len(m.chunks) \in Nat /\ NumChunks(d) \in Nat /\ d \in Seq(Nat)
    BY ManifestFacts, NumChunksCover
<1>2. Max({Len(m.chunks), NumChunks(d)}) = IF Len(m.chunks) >= NumChunks(d) THEN Len(m.chunks) ELSE NumChunks(d)
    BY <1>1, MaxOf
<1>3. ASSUME NEW i \in ToTransfer(m, d) PROVE i \in 0..NumChunks(d) - 1
  <2>1. i \in 0..Max({Len(m.chunks), NumChunks(d)}) - 1 /\ DiffStatus(m, d, i) \in {"Added", "Modified"}
    BY <1>3 DEF ToTransfer
  <2>2. i \in Nat /\ (i < Len(m.chunks) \/ i < NumChunks(d))
    BY <1>1, <1>2, <2>1
  <2>3. i < NumChunks(d)
    BY <2>1, <2>2 DEF DiffStatus
  <2> QED
    BY <1>1, <2>2, <2>3
<1> QED
    BY <1>3, SyConstants

\* A block that is not sent is the one the remote node has.
LEMMA TransferEnough ==
    ASSUME NEW m \in Manifests, NEW d \in Data, NEW i \in 0..NumChunks(d) - 1, i \notin ToTransfer(m, d)
    PROVE  i < Len(m.chunks) /\ m.chunks[i + 1] = ChunkAt(d, i)
<1>1. Len(m.chunks) \in Nat /\ NumChunks(d) \in Nat /\ d \in Seq(Nat)
    BY ManifestFacts, NumChunksCover
<1>2. CASE m.file = d
  <2>1. m.chunks = ChunkData(d)
    BY <1>2, ManifestFacts
  <2> QED
    BY <1>1, <2>1, ChunksType, SMTT(40)
<1>3. CASE m.file # d
  <2>1. Max({Len(m.chunks), NumChunks(d)}) = IF Len(m.chunks) >= NumChunks(d) THEN Len(m.chunks) ELSE NumChunks(d)
    BY <1>1, MaxOf
  <2>2. i \in 0..Max({Len(m.chunks), NumChunks(d)}) - 1 /\ i < NumChunks(d)
    BY <1>1, <2>1
  <2>3. DiffStatus(m, d, i) \notin {"Added", "Modified"}
    BY <1>3, <2>2 DEF ToTransfer
  <2>4. DiffStatus(m, d, i) = IF i < Len(m.chunks) THEN (IF m.chunks[i + 1] = ChunkAt(d, i) THEN "Unchanged" ELSE "Modified") ELSE "Added"
    BY <2>2 DEF DiffStatus
  <2> QED
    BY <2>3, <2>4
<1> QED
    BY <1>2, <1>3

\* What is reassembled from a manifest is a file that some user wrote.
LEMMA ReassembledWasWritten ==
    ASSUME NEW m \in Manifests, NEW s \in Seq(Seq(Int)), NEW A, m = EmptyManifest \/ m.file \in A, Reassemble(m, s)
    PROVE  FlattenSeq(s) = m.file /\ m.file \in A
<1>1. Len(s) = Len(m.chunks) /\ FlattenSeq(s) = m.file
    BY DEF Reassemble
<1>2. ASSUME m = EmptyManifest PROVE FALSE
  <2>1. Len(s) = 0 /\ m.file = <<-1>>
    BY <1>1, <1>2, ManifestFacts
  <2>2. FlattenSeq(s) = s
    BY <2>1 DEF FlattenSeq
  <2> QED
    BY <1>1, <2>1, <2>2
<1> QED
    BY <1>1, <1>2

\* sync_file up to its first request, and download_file.
LEMMA StartTyped ==
    ASSUME SyTyped, NEW c \in Client, NEW t \in Target, SyncFile(c, t) \/ DownloadFile(c, t)
    PROVE  SyTyped'
<1>0. /\ local \in [Client -> authored] /\ authored \subseteq Data /\ manifests \in [Target -> Manifests]
      /\ manifests[t] = EmptyManifest \/ manifests[t].file \in authored
      /\ syncedTo \in [Client -> Target \cup {NoTarget}]
    BY DEF SyTyped
<1>1. CASE SyncFile(c, t)
  <2>1. /\ UNCHANGED <<local, state, manifests, stored, edits, authored>>
        /\ syncedTo' = [syncedTo EXCEPT ![c] = t] /\ unsettled' = (unsettled \/ Shared(c, t))
    BY <1>1 DEF SyncFile
  <2>2. syncedTo' \in [Client -> Target \cup {NoTarget}]
    BY <1>0, <2>1
  <2>3. unsettled' \in BOOLEAN
    BY <2>1
  <2>4. CASE UNCHANGED job
    BY <2>1, <2>2, <2>3, <2>4 DEF SyTyped
  <2>5. CASE job' = [job EXCEPT ![c] = [NoJob EXCEPT !.step = "manifest", !.target = t, !.data = local[c]]]
    <3> DEFINE j == [NoJob EXCEPT !.step = "manifest", !.target = t, !.data = local[c]]
    <3>1. j \in SyJobs /\ j.step = "manifest" /\ j.target = t /\ j.data = local[c] /\ j.manifest = EmptyManifest
      BY <1>0, NoJobType DEF SyJobs, SyStep
    <3>2. PICK k \in SyJobs : job' = [job EXCEPT ![c] = k] /\ k.step = "manifest" /\ k.target = t /\ k.data = local[c] /\ k.manifest = EmptyManifest
      BY <2>5, <3>1
    <3>3. k.data \in authored
      BY <1>0, <3>2
    <3> QED
      BY <2>1, <2>2, <2>3, <3>2, <3>3, StepJob DEF SyTyped
  <2> QED
    BY <1>1, <2>4, <2>5 DEF SyncFile
<1>2. CASE DownloadFile(c, t)
  <2>1. UNCHANGED <<local, state, manifests, stored, edits, authored, syncedTo>>
    BY <1>2 DEF DownloadFile
  <2>2. CASE Fail(c)
    <3>1. unsettled' = TRUE /\ job' = [job EXCEPT ![c] = NoJob]
      BY <2>2 DEF Fail
    <3> QED
      BY <2>1, <3>1, EndJob DEF SyTyped
  <2>3. CASE /\ job' = [job EXCEPT ![c] = [NoJob EXCEPT !.step = "compare", !.target = t, !.manifest = manifests[t]]]
             /\ UNCHANGED unsettled
    <3> DEFINE j == [NoJob EXCEPT !.step = "compare", !.target = t, !.manifest = manifests[t]]
    <3>1. j \in SyJobs /\ j.step = "compare" /\ j.target = t /\ j.manifest = manifests[t]
      BY <1>0, NoJobType DEF SyJobs, SyStep
    <3>2. PICK k \in SyJobs : job' = [job EXCEPT ![c] = k] /\ k.step = "compare" /\ k.target = t /\ k.manifest = manifests[t]
      BY <2>3, <3>1
    <3>3. k.step \notin Syncing
      BY <3>2 DEF Syncing
    <3> QED
      BY <1>0, <2>1, <2>3, <3>2, <3>3, StepJob DEF SyTyped
  <2> QED
    BY <1>2, <2>2, <2>3 DEF DownloadFile
<1> QED
    BY <1>1, <1>2

\* The request for the manifest and the comparison with it.
LEMMA DiffTyped ==
    ASSUME SyTyped, NEW c \in Client, RequestManifest(c) \/ Diff(c)
    PROVE  SyTyped'
<1>0. /\ job[c] \in SyJobs /\ job \in [Client -> SyJobs] /\ manifests \in [Target -> Manifests]
      /\ job[c].step # "idle" => job[c].target \in Target
      /\ job[c].step \in Syncing => job[c].data \in authored
      /\ \A t \in Target : manifests[t] = EmptyManifest \/ manifests[t].file \in authored
      /\ job[c].manifest = EmptyManifest \/ job[c].manifest.file \in authored
      /\ authored \subseteq Data
    BY DEF SyTyped
<1>1. /\ UNCHANGED <<local, state, manifests, stored, edits, authored, syncedTo>> /\ job[c].step \in {"manifest", "diff"}
    BY DEF RequestManifest, Diff
<1>2. job[c].target \in Target /\ job[c].data \in authored
    BY <1>0, <1>1 DEF Syncing
<1>3. CASE Fail(c)
  <2>1. unsettled' = TRUE /\ job' = [job EXCEPT ![c] = NoJob]
    BY <1>3 DEF Fail
  <2> QED
    BY <1>1, <2>1, EndJob DEF SyTyped
<1>4. CASE /\ job' = [job EXCEPT ![c].step = "diff", ![c].manifest = manifests[job[c].target]] /\ UNCHANGED unsettled
  <2>1. PICK k \in SyJobs : k = [job[c] EXCEPT !.step = "diff", !.manifest = manifests[job[c].target]]
    BY <1>0, <1>2 DEF SyJobs, SyStep
  <2>2. job' = [job EXCEPT ![c] = k] /\ k.step = "diff" /\ k.target \in Target /\ k.data \in authored
        /\ (k.manifest = EmptyManifest \/ k.manifest.file \in authored)
    BY <1>0, <1>2, <1>4, <2>1 DEF SyJobs
  <2> QED
    BY <1>1, <1>4, <2>2, StepJob DEF SyTyped
<1>5. CASE Diff(c)
  <2>1. job[c].manifest \in Manifests /\ job[c].data \in Data
    BY <1>0, <1>2 DEF SyJobs
  <2>2. ToTransfer(job[c].manifest, job[c].data) \in SUBSET Index
    BY <2>1, TransferLocal
  <2>3. PICK k \in SyJobs : k = [job[c] EXCEPT !.step = "blocks", !.todo = ToTransfer(job[c].manifest, job[c].data)]
    BY <1>0, <2>2 DEF SyJobs, SyStep
  <2>4. job' = [job EXCEPT ![c] = k] /\ k.step = "blocks" /\ k.target \in Target /\ k.data \in authored
        /\ (k.manifest = EmptyManifest \/ k.manifest.file \in authored)
    BY <1>0, <1>2, <1>5, <2>3 DEF SyJobs, Diff
  <2>5. UNCHANGED unsettled
    BY <1>5 DEF Diff
  <2> QED
    BY <1>1, <2>4, <2>5, StepJob DEF SyTyped
<1> QED
    BY <1>3, <1>4, <1>5 DEF RequestManifest

\* Blocks and manifest are sent.
LEMMA SendTyped ==
    ASSUME SyTyped, NEW c \in Client, SendBlock(c) \/ SendManifest(c)
    PROVE  SyTyped'
<1>0. /\ job[c] \in SyJobs /\ job \in [Client -> SyJobs] /\ manifests \in [Target -> Manifests] /\ stored \in [Target -> [Index -> Seq(Int)]]
      /\ job[c].step # "idle" => job[c].target \in Target
      /\ job[c].step \in Syncing => job[c].data \in authored
      /\ \A t \in Target : manifests[t] = EmptyManifest \/ manifests[t].file \in authored
      /\ job[c].manifest = EmptyManifest \/ job[c].manifest.file \in authored
      /\ authored \subseteq Data
    BY DEF SyTyped
<1>1. UNCHANGED <<local, state, edits, authored, syncedTo>> /\ job[c].step = "blocks"
    BY DEF SendBlock, SendManifest
<1>2. job[c].target \in Target /\ job[c].data \in authored
    BY <1>0, <1>1 DEF Syncing
<1>3. manifests' \in [Target -> Manifests] /\ \A t \in Target : manifests'[t] = EmptyManifest \/ manifests'[t].file \in authored
  <2>1. CASE UNCHANGED manifests
    BY <1>0, <2>1
  <2>2. CASE manifests' = [manifests EXCEPT ![job[c].target] = Manifest(job[c].data)]
    <3>1. PICK m \in Manifests : m = Manifest(job[c].data) /\ m.file = job[c].data
      BY <1>0, <1>2, ManifestFacts
    <3> QED
      BY <1>0, <1>2, <2>2, <3>1
  <2> QED
    BY <2>1, <2>2 DEF SendBlock, SendManifest, Sends
<1>4. stored' \in [Target -> [Index -> Seq(Int)]]
  <2>1. CASE UNCHANGED stored
    BY <1>0, <2>1
  <2>2. CASE SendBlock(c) /\ stored' = [stored EXCEPT ![job[c].target][Min(job[c].todo)] = ChunkAt(job[c].data, Min(job[c].todo))]
    <3>1. job[c].todo \in SUBSET Nat /\ job[c].todo # {} /\ job[c].todo \subseteq Index
      BY <1>0, <2>2, SyConstants DEF SendBlock, SyJobs
    <3>2. PICK i \in Index : i = Min(job[c].todo) /\ i \in Nat
      BY <3>1, MinIn, SyConstants
    <3>3. PICK b \in Seq(Int) : b = ChunkAt(job[c].data, i)
      BY <1>0, <1>2, <3>2, ChunkBytes, SyConstants
    <3>4. stored' = [stored EXCEPT ![job[c].target][i] = b]
      BY <2>2, <3>2, <3>3
    <3> QED
      BY <1>0, <1>2, <3>4
  <2> QED
    BY <2>1, <2>2 DEF SendBlock, SendManifest, Sends
<1>5. unsettled' \in BOOLEAN
  <2>1. unsettled' = unsettled \/ unsettled' = TRUE
    BY DEF SendBlock, SendManifest, Sends, Fail
  <2> QED
    BY <2>1 DEF SyTyped
<1>6. CASE Fail(c)
  <2>1. job' = [job EXCEPT ![c] = NoJob] /\ UNCHANGED <<manifests, stored>>
    <3>1. NoJob.step = "idle" /\ job'[c] = NoJob
      BY <1>0, <1>6, NoJobType DEF Fail
    <3>2. CASE SendBlock(c)
      <4>1. \A S : job' = [job EXCEPT ![c].todo = S] => job'[c].step = "blocks"
        BY <1>0, <1>1 DEF SyJobs
      <4> QED
        BY <1>6, <3>1, <3>2, <4>1 DEF SendBlock, Sends, Fail
    <3>3. CASE SendManifest(c)
      <4>1. job' = [job EXCEPT ![c].step = "done"] => job'[c].step = "done"
        BY <1>0, <1>1 DEF SyJobs
      <4> QED
        BY <1>6, <3>1, <3>3, <4>1 DEF SendManifest, Sends, Fail, Goto
    <3> QED
      BY <3>2, <3>3
  <2> QED
    BY <1>1, <1>5, <2>1, EndJob DEF SyTyped
<1>7. ASSUME NEW S \in SUBSET Index, job' = [job EXCEPT ![c].todo = S] PROVE SyTyped'
  <2>1. PICK k \in SyJobs : k = [job[c] EXCEPT !.todo = S]
    BY <1>0, <1>7 DEF SyJobs
  <2>2. job' = [job EXCEPT ![c] = k] /\ k.step = "blocks" /\ k.target \in Target /\ k.data \in authored
        /\ (k.manifest = EmptyManifest \/ k.manifest.file \in authored)
    BY <1>0, <1>1, <1>2, <1>7, <2>1 DEF SyJobs
  <2>3. syncedTo' \in [Client -> Target \cup {NoTarget}]
    BY <1>1 DEF SyTyped
  <2> QED
    BY <1>1, <1>3, <1>4, <1>5, <2>2, <2>3, StepJob
<1>8. ASSUME job' = [job EXCEPT ![c].step = "done"] PROVE SyTyped'
  <2>1. PICK k \in SyJobs : k = [job[c] EXCEPT !.step = "done"]
    BY <1>0, <1>8 DEF SyJobs, SyStep
  <2>2. job' = [job EXCEPT ![c] = k] /\ k.step = "done" /\ k.target \in Target /\ k.data \in authored
        /\ (k.manifest = EmptyManifest \/ k.manifest.file \in authored)
    BY <1>0, <1>1, <1>2, <1>8, <2>1 DEF SyJobs
  <2>3. syncedTo' \in [Client -> Target \cup {NoTarget}]
    BY <1>1 DEF SyTyped
  <2> QED
    BY <1>1, <1>3, <1>4, <1>5, <2>2, <2>3, StepJob
<1>9. CASE SendManifest(c)
    BY <1>6, <1>8, <1>9 DEF SendManifest, Sends, Goto
<1>10. CASE SendBlock(c) /\ ~Fail(c)
  <2>1. job' = [job EXCEPT ![c].todo = @ \ {Min(job[c].todo)}]
    BY <1>10 DEF SendBlock, Sends
  <2>2. PICK S \in SUBSET Index : S = job[c].todo \ {Min(job[c].todo)}
    BY <1>0 DEF SyJobs
  <2>3. job' = [job EXCEPT ![c].todo = S]
    BY <2>1, <2>2
  <2> QED
    BY <1>7, <2>3
<1> QED
    BY <1>6, <1>9, <1>10

\* A sequence with one element replaced.
LEMMA OneReplaced == ASSUME NEW S, NEW s \in Seq(S), NEW k, NEW b \in S PROVE [s EXCEPT ![k] = b] \in Seq(S)
<1>1. Len(s) \in Nat /\ s \in [1..Len(s) -> S]
    BY LenProperties
<1>2. [s EXCEPT ![k] = b] \in [1..Len(s) -> S]
    BY <1>1
<1>3. \A f, n : n \in Nat /\ f \in [1..n -> S] => f \in Seq(S)
    BY SeqDef
<1> QED
    BY <1>1, <1>2, <1>3

\* Users edit their files; a sync comes to its end.
LEMMA EditTyped ==
    ASSUME SyTyped, NEW c \in Client, Edit(c) \/ SyncDone(c)
    PROVE  SyTyped'
<1>1. CASE Edit(c)
  <2>1. PICK d \in Data : local' = [local EXCEPT ![c] = d] /\ authored' = authored \cup {d}
    BY <1>1 DEF Edit
  <2>2. UNCHANGED <<state, manifests, stored, job, syncedTo, unsettled>> /\ edits < MaxEdits /\ edits' = edits + 1
    BY <1>1 DEF Edit
  <2>3. edits' \in 0..MaxEdits
    BY <2>2, SyConstants DEF SyTyped
  <2>4. authored' \subseteq Data /\ local' \in [Client -> authored'] /\ state' \in [Client -> authored' \cup {NoData}] /\ authored \subseteq authored'
    BY <2>1, <2>2 DEF SyTyped
  <2> QED
    BY <2>2, <2>3, <2>4 DEF SyTyped
<1>2. CASE SyncDone(c)
  <2>1. /\ UNCHANGED <<local, manifests, stored, edits, authored, syncedTo, unsettled>> /\ job' = [job EXCEPT ![c] = NoJob]
        /\ state' = [state EXCEPT ![c] = job[c].data] /\ job[c].step = "done"
    BY <1>2 DEF SyncDone, Remember
  <2>2. state' \in [Client -> authored \cup {NoData}]
    BY <2>1 DEF SyTyped, Syncing
  <2> QED
    BY <2>1, <2>2, EndJob DEF SyTyped
<1> QED
    BY <1>1, <1>2

\* download_file: the blocks that are there, those that are requested, the file.
LEMMA FetchTyped ==
    ASSUME SyTyped, NEW c \in Client, Compare(c) \/ RequestBlock(c) \/ Assemble(c)
    PROVE  SyTyped'
<1>0. /\ job[c] \in SyJobs /\ job \in [Client -> SyJobs] /\ manifests \in [Target -> Manifests] /\ stored \in [Target -> [Index -> Seq(Int)]]
      /\ job[c].step # "idle" => job[c].target \in Target
      /\ job[c].manifest = EmptyManifest \/ job[c].manifest.file \in authored
      /\ authored \subseteq Data /\ local \in [Client -> authored] /\ state \in [Client -> authored \cup {NoData}]
      /\ syncedTo \in [Client -> Target \cup {NoTarget}]
    BY DEF SyTyped
<1>1. UNCHANGED <<manifests, stored, edits, authored>> /\ job[c].step \in Fetching
    BY DEF Compare, RequestBlock, Assemble, Fetching
<1>2. job[c].target \in Target /\ job[c].manifest \in Manifests /\ job[c].have \in Seq(Seq(Int)) /\ job[c].todo \in SUBSET Index
    BY <1>0, <1>1 DEF Fetching, SyJobs
<1>3. CASE Compare(c)
  <2> DEFINE wanted == job[c].manifest.chunks
             mine == ChunkData(local[c])
             have == [k \in 1..Len(wanted) |-> IF k <= Len(mine) /\ mine[k] = wanted[k] THEN mine[k] ELSE NoBlock]
             todo == {k - 1 : k \in {j \in 1..Len(wanted) : ~(j <= Len(mine) /\ mine[j] = wanted[j])}}
  <2>1. wanted \in Seq(Seq(Int)) /\ Len(wanted) \in Nat /\ 0..Len(wanted) - 1 \subseteq Index
    BY <1>2, ManifestFacts
  <2>2. /\ job' = [job EXCEPT ![c].step = "getBlocks", ![c].have = have, ![c].todo = todo]
        /\ UNCHANGED <<local, state, syncedTo, unsettled>>
    BY <1>3 DEF Compare
  <2> HIDE DEF wanted, mine
  <2>3. have \in Seq(Seq(Int))
    <3>1. \A k \in 1..Len(wanted) : wanted[k] \in Seq(Int)
      BY <2>1
    <3>2. <<>> \in Seq(Int)
      OBVIOUS
    <3>3. \A k \in 1..Len(wanted) : (IF k <= Len(mine) /\ mine[k] = wanted[k] THEN mine[k] ELSE NoBlock) \in Seq(Int)
      BY <3>1, <3>2 DEF NoBlock
    <3> QED
      BY <2>1, <3>3, IsASeq
  <2>4. todo \in SUBSET Index
    <3>1. \A k \in 1..Len(wanted) : k - 1 \in 0..Len(wanted) - 1
      BY <2>1
    <3> QED
      BY <2>1, <3>1
  <2> HIDE DEF have, todo
  <2>5. PICK k \in SyJobs : k = [job[c] EXCEPT !.step = "getBlocks", !.have = have, !.todo = todo]
    BY <1>0, <2>3, <2>4 DEF SyJobs, SyStep
  <2>6. /\ job' = [job EXCEPT ![c] = k] /\ k.step = "getBlocks" /\ k.target \in Target
        /\ (k.manifest = EmptyManifest \/ k.manifest.file \in authored)
    BY <1>0, <1>2, <2>2, <2>5 DEF SyJobs
  <2>7. k.step \notin Syncing
    BY <2>6 DEF Syncing
  <2> QED
    BY <1>1, <2>2, <2>6, <2>7, StepJob DEF SyTyped
<1>4. CASE RequestBlock(c) /\ Fail(c)
  <2>1. job' = [job EXCEPT ![c] = NoJob] /\ unsettled' = TRUE
    BY <1>4 DEF Fail
  <2>2. UNCHANGED <<local, state, syncedTo>>
    BY <1>4 DEF RequestBlock
  <2> QED
    BY <1>1, <2>1, <2>2, EndJob DEF SyTyped
<1>5. CASE RequestBlock(c) /\ ~Fail(c)
  <2>1. job[c].todo # {} /\ job[c].todo \in SUBSET Nat
    BY <1>2, <1>5, SyConstants DEF RequestBlock
  <2>2. PICK i \in Index : i = Min(job[c].todo) /\ i \in Nat
    BY <1>2, <2>1, MinIn, SyConstants
  <2>3. PICK b \in Seq(Int) : b = stored[job[c].target][i]
    BY <1>0, <1>2, <2>2
  <2>4. /\ job' = [job EXCEPT ![c].have[i + 1] = b, ![c].todo = @ \ {i}] /\ UNCHANGED <<local, state, syncedTo, unsettled>>
    BY <1>5, <2>2, <2>3 DEF RequestBlock
  <2>5. PICK h \in Seq(Seq(Int)) : h = [job[c].have EXCEPT ![i + 1] = b]
    BY <1>2, OneReplaced
  <2>6. PICK k \in SyJobs : k = [job[c] EXCEPT !.have = h, !.todo = @ \ {i}]
    BY <1>0, <1>2, <2>5 DEF SyJobs
  <2>7. job' = [job EXCEPT ![c] = k]
    BY <1>0, <2>4, <2>5, <2>6 DEF SyJobs
  <2>8. /\ k.step \in Fetching /\ k.target \in Target /\ (k.manifest = EmptyManifest \/ k.manifest.file \in authored)
    BY <1>0, <1>1, <1>2, <2>6 DEF SyJobs
  <2>9. k.step \notin Syncing /\ k.step # "idle"
    BY <2>8 DEF Syncing, Fetching
  <2> QED
    BY <1>1, <2>4, <2>7, <2>8, <2>9, StepJob DEF SyTyped
<1>6. CASE Assemble(c) /\ Reassemble(job[c].manifest, job[c].have)
  <2>1. /\ job' = [job EXCEPT ![c] = NoJob] /\ local' = [local EXCEPT ![c] = FlattenSeq(job[c].have)]
        /\ state' = [state EXCEPT ![c] = job[c].manifest.file] /\ syncedTo' = [syncedTo EXCEPT ![c] = job[c].target]
        /\ unsettled' = (unsettled \/ Shared(c, job[c].target))
    BY <1>6 DEF Assemble, Remember
  <2>2. FlattenSeq(job[c].have) \in authored /\ job[c].manifest.file \in authored
    BY <1>0, <1>2, <1>6, ReassembledWasWritten
  <2>3. local' \in [Client -> authored] /\ state' \in [Client -> authored \cup {NoData}] /\ syncedTo' \in [Client -> Target \cup {NoTarget}]
    BY <1>0, <1>2, <2>1, <2>2
  <2>4. unsettled' \in BOOLEAN
    BY <2>1
  <2>5. /\ NoJob \in SyJobs /\ NoJob.step = "idle" /\ NoJob.step \notin Syncing /\ NoJob.manifest = EmptyManifest
    BY NoJobType DEF Syncing
  <2>6. /\ job' \in [Client -> SyJobs]
        /\ \A o \in Client : /\ job'[o].step # "idle" => job'[o].target \in Target
                             /\ job'[o].step = "idle" => job'[o] = NoJob
                             /\ job'[o].step \in Syncing => job'[o].data \in authored'
                             /\ job'[o].manifest = EmptyManifest \/ job'[o].manifest.file \in authored'
    BY <1>1, <2>1, <2>5, JobTyped
  <2> QED
    BY <1>1, <2>3, <2>4, <2>6 DEF SyTyped
<1>7. CASE Assemble(c) /\ ~Reassemble(job[c].manifest, job[c].have)
  <2>1. /\ job' = [job EXCEPT ![c] = NoJob] /\ UNCHANGED <<local, state, syncedTo, unsettled>>
    BY <1>7 DEF Assemble
  <2> QED
    BY <1>1, <2>1, EndJob DEF SyTyped
<1> QED
    BY <1>3, <1>4, <1>5, <1>6, <1>7

\* Every step keeps the types.
LEMMA SyTypedStep == ASSUME SyTyped, [SyNext]_syVars PROVE SyTyped'
<1>1. CASE UNCHANGED syVars
    BY <1>1 DEF syVars, SyTyped
<1>2. ASSUME NEW c \in Client, NEW t \in Target, SyncFile(c, t) \/ DownloadFile(c, t) PROVE SyTyped'
    BY <1>2, StartTyped
<1>3. ASSUME NEW c \in Client, \/ Edit(c) \/ RequestManifest(c) \/ Diff(c) \/ SendBlock(c) \/ SendManifest(c) \/ SyncDone(c)
                               \/ Compare(c) \/ RequestBlock(c) \/ Assemble(c)
      PROVE  SyTyped'
    BY <1>3, DiffTyped, SendTyped, EditTyped, FetchTyped
<1> QED
    BY <1>1, <1>2, <1>3 DEF SyNext

\* No download leaves a file that no user wrote: for any contents, chunk size,
\* clients and remote nodes, and however blocks and manifests of several versions
\* are mixed up, lost or overwritten between the requests of one download.
THEOREM DownloadsAreWhole == SySpec => []NoMixture
<1>1. SyTyped => NoMixture
    BY DEF SyTyped, NoMixture
<1>2. SyTyped /\ [SyNext]_syVars => SyTyped'
    BY SyTypedStep
<1> QED
    BY <1>1, <1>2, SyTypedInit, PTL DEF SySpec

\* The remote node has the blocks of its manifest.
Holds(t) == \A k \in 1..Len(manifests[t].chunks) : stored[t][k - 1] = manifests[t].chunks[k]

\* Where a client stands: a sync keeps to its remote node; the blocks that are
\* not to be sent any more are there; the file last synced is the remote node's,
\* also while it is fetched, unless another client has been at work.
Stands(c) ==
    /\ job[c].step \in Syncing => syncedTo[c] = job[c].target
    /\ state[c] # NoData => syncedTo[c] # NoTarget
    /\ job[c].step = "diff" => job[c].manifest = manifests[job[c].target]
    /\ job[c].step = "blocks" =>
          \A i \in 0..NumChunks(job[c].data) - 1 : i \in job[c].todo \/ stored[job[c].target][i] = ChunkAt(job[c].data, i)
    /\ job[c].step = "done" => manifests[job[c].target] = Manifest(job[c].data)
    /\ job[c].step \notin Syncing /\ state[c] # NoData => manifests[syncedTo[c]].file = state[c]
    /\ job[c].step \in Fetching =>
          job[c].manifest = manifests[job[c].target] \/ \E o \in Client : o # c /\ syncedTo[o] # NoTarget

\* One client at most has synced, and only its sync may leave a remote node with
\* blocks that are not of its manifest.
Settled ==
    ~unsettled =>
        /\ \A c, o \in Client : c # o => syncedTo[c] = NoTarget \/ syncedTo[o] = NoTarget
        /\ \A t \in Target : (\A c \in Client : job[c].step = "blocks" => job[c].target # t) => Holds(t)
        /\ \A c \in Client : Stands(c)

\* It holds at first.
LEMMA SettledInit == SyInit => Settled
<1> SUFFICES ASSUME SyInit PROVE Settled
    OBVIOUS
<1>1. \A c \in Client : job[c] = NoJob /\ state[c] = NoData /\ syncedTo[c] = NoTarget
    BY DEF SyInit
<1>2. \A c \in Client : Stands(c)
    BY <1>1, NoJobType DEF Stands, Syncing, Fetching
<1>3. \A t \in Target : Holds(t)
  <2>1. \A t \in Target : manifests[t].chunks = <<>>
    BY ManifestFacts DEF SyInit
  <2>2. 1..Len(<<>>) = {}
    OBVIOUS
  <2> QED
    BY <2>1, <2>2 DEF Holds
<1> QED
    BY <1>1, <1>2, <1>3 DEF Settled

\* A step of client c that the remote nodes do not see.
LEMMA SettledKept ==
    ASSUME NEW c \in Client, Settled, ~unsettled, UNCHANGED <<manifests, stored>>,
           \A o \in Client : o # c => job'[o] = job[o] /\ state'[o] = state[o] /\ syncedTo'[o] = syncedTo[o],
           syncedTo'[c] = syncedTo[c] \/ \A o \in Client : o # c => syncedTo[o] = NoTarget,
           syncedTo[c] # NoTarget => syncedTo'[c] # NoTarget,
           job[c].step # "blocks", Stands(c)'
    PROVE  Settled'
<1>1. \A o, u \in Client : o # u => syncedTo'[o] = NoTarget \/ syncedTo'[u] = NoTarget
    BY DEF Settled
<1>2. ASSUME NEW t \in Target, \A o \in Client : job'[o].step = "blocks" => job'[o].target # t PROVE Holds(t)'
  <2>1. \A o \in Client : job[o].step = "blocks" => job[o].target # t
    BY <1>2
  <2>2. Holds(t)
    BY <2>1 DEF Settled
  <2> QED
    BY <2>2 DEF Holds
<1>3. ASSUME NEW o \in Client PROVE Stands(o)'
  <2>1. CASE o = c
    BY <2>1
  <2>2. CASE o # c
    <3>1. Stands(o) /\ job'[o] = job[o] /\ state'[o] = state[o] /\ syncedTo'[o] = syncedTo[o]
      BY <2>2 DEF Settled
    <3>2. (\E u \in Client : u # o /\ syncedTo[u] # NoTarget) => \E u \in Client : u # o /\ syncedTo'[u] # NoTarget
      OBVIOUS
    <3> QED
      BY <3>1, <3>2 DEF Stands
  <2> QED
    BY <2>1, <2>2
<1> QED
    BY <1>1, <1>2, <1>3 DEF Settled

\* The calls up to the sending of blocks, and the end of a sync.
LEMMA SettledSync ==
    ASSUME SyTyped, Settled, ~unsettled', NEW c \in Client, NEW t \in Target,
           SyncFile(c, t) \/ DownloadFile(c, t) \/ RequestManifest(c) \/ Diff(c) \/ SyncDone(c)
    PROVE  Settled'
<1>0. /\ job \in [Client -> SyJobs] /\ job[c] \in SyJobs /\ syncedTo \in [Client -> Target \cup {NoTarget}] /\ NoTarget \notin Target
      /\ state \in [Client -> authored \cup {NoData}] /\ local \in [Client -> authored] /\ authored \subseteq Data /\ NoData \notin Data
      /\ manifests \in [Target -> Manifests]
      /\ job[c].step # "idle" => job[c].target \in Target
      /\ job[c].step \in Syncing => job[c].data \in authored
    BY SyConstants DEF SyTyped
<1>1. ~unsettled /\ UNCHANGED <<manifests, stored>>
  <2>1. UNCHANGED <<manifests, stored>>
    BY DEF SyncFile, DownloadFile, RequestManifest, Diff, SyncDone
  <2>2. CASE SyncFile(c, t)
    BY <2>1, <2>2 DEF SyncFile
  <2>3. CASE DownloadFile(c, t) \/ RequestManifest(c)
    BY <2>1, <2>3 DEF DownloadFile, RequestManifest, Fail
  <2>4. CASE Diff(c) \/ SyncDone(c)
    BY <2>1, <2>4 DEF Diff, SyncDone
  <2> QED
    BY <2>2, <2>3, <2>4
<1>2. Stands(c) /\ \A u \in Target : (\A o \in Client : job[o].step = "blocks" => job[o].target # u) => Holds(u)
    BY <1>1 DEF Settled
<1>3. CASE SyncFile(c, t)
  <2>1. /\ syncedTo' = [syncedTo EXCEPT ![c] = t] /\ UNCHANGED state /\ job[c] = NoJob
        /\ unsettled' = (unsettled \/ Shared(c, t))
    BY <1>3 DEF SyncFile
  <2>2. /\ \A o \in Client : o # c => syncedTo[o] = NoTarget /\ syncedTo[c] \in {t, NoTarget}
        /\ syncedTo[c] \in {t, NoTarget}
    BY <2>1 DEF Shared
  <2>3. syncedTo'[c] = t /\ \A o \in Client : o # c => syncedTo'[o] = syncedTo[o]
    BY <1>0, <2>1
  <2>4. job[c].step = "idle" /\ job[c].step \notin Syncing /\ job[c].step \notin Fetching
    BY <2>1, NoJobType DEF Syncing, Fetching
  <2>5. state[c] # NoData => syncedTo[c] = t /\ manifests[t].file = state[c]
    BY <1>2, <2>2, <2>4 DEF Stands
  <2>6. CASE job' = job
    <3>1. Stands(c)'
      BY <1>0, <1>1, <2>1, <2>3, <2>4, <2>5, <2>6 DEF Stands
    <3> QED
      BY <1>0, <1>1, <2>1, <2>2, <2>3, <2>4, <2>6, <3>1, SettledKept
  <2>7. CASE job' = [job EXCEPT ![c] = [NoJob EXCEPT !.step = "manifest", !.target = t, !.data = local[c]]]
    <3>1. job'[c].step = "manifest" /\ job'[c].target = t /\ \A o \in Client : o # c => job'[o] = job[o]
      BY <1>0, <2>7, NoJobType DEF SyJobs
    <3>2. job'[c].step \in Syncing /\ job'[c].step \notin Fetching
      BY <3>1 DEF Syncing, Fetching
    <3>3. Stands(c)'
      BY <1>0, <2>3, <3>1, <3>2 DEF Stands
    <3> QED
      BY <1>0, <1>1, <2>1, <2>2, <2>3, <2>4, <3>1, <3>3, SettledKept
  <2> QED
    BY <1>3, <2>6, <2>7 DEF SyncFile
<1>4. CASE DownloadFile(c, t)
  <2>1. /\ job' = [job EXCEPT ![c] = [NoJob EXCEPT !.step = "compare", !.target = t, !.manifest = manifests[t]]]
        /\ UNCHANGED <<state, syncedTo>> /\ job[c] = NoJob
    BY <1>4 DEF DownloadFile, Fail
  <2>2. job'[c].step = "compare" /\ job'[c].target = t /\ job'[c].manifest = manifests[t] /\ \A o \in Client : o # c => job'[o] = job[o]
    BY <1>0, <2>1, NoJobType DEF SyJobs
  <2>3. job'[c].step \notin Syncing /\ job[c].step \notin Syncing /\ job[c].step # "blocks"
    BY <2>1, <2>2, NoJobType DEF Syncing
  <2>4. Stands(c)'
    BY <1>1, <1>2, <2>1, <2>2, <2>3 DEF Stands
  <2> QED
    BY <1>1, <2>1, <2>2, <2>3, <2>4, SettledKept
<1>5. CASE RequestManifest(c)
  <2>1. /\ job' = [job EXCEPT ![c].step = "diff", ![c].manifest = manifests[job[c].target]]
        /\ UNCHANGED <<state, syncedTo>> /\ job[c].step = "manifest"
    BY <1>5 DEF RequestManifest, Fail
  <2>2. job'[c].step = "diff" /\ job'[c].target = job[c].target /\ job'[c].manifest = manifests[job[c].target] /\ \A o \in Client : o # c => job'[o] = job[o]
    BY <1>0, <2>1 DEF SyJobs
  <2>3. job[c].step \in Syncing /\ job'[c].step \in Syncing /\ job'[c].step \notin Fetching
    BY <2>1, <2>2 DEF Syncing, Fetching
  <2>4. Stands(c)'
    BY <1>1, <1>2, <2>1, <2>2, <2>3 DEF Stands
  <2> QED
    BY <1>1, <2>1, <2>2, <2>4, SettledKept
<1>6. CASE Diff(c)
  <2>1. /\ job' = [job EXCEPT ![c].step = "blocks", ![c].todo = ToTransfer(job[c].manifest, job[c].data)]
        /\ UNCHANGED <<state, syncedTo>> /\ job[c].step = "diff"
    BY <1>6 DEF Diff
  <2>2. /\ job'[c].step = "blocks" /\ job'[c].target = job[c].target /\ job'[c].data = job[c].data
        /\ job'[c].todo = ToTransfer(job[c].manifest, job[c].data) /\ \A o \in Client : o # c => job'[o] = job[o]
    BY <1>0, <2>1 DEF SyJobs
  <2>3. job[c].step \in Syncing /\ job'[c].step \in Syncing /\ job'[c].step \notin Fetching
    BY <2>1, <2>2 DEF Syncing, Fetching
  <2>4. job[c].data \in Data /\ job[c].manifest \in Manifests /\ job[c].target \in Target /\ job[c].manifest = manifests[job[c].target]
        /\ syncedTo[c] = job[c].target
    BY <1>0, <1>2, <2>1, <2>3 DEF Stands, SyJobs
  <2>5. Holds(job[c].target)
    <3>1. ASSUME NEW o \in Client, job[o].step = "blocks" PROVE job[o].target # job[c].target
      <4>1. o # c /\ job[o].step \in Syncing
        BY <2>1, <3>1 DEF Syncing
      <4>2. syncedTo[o] = job[o].target /\ (syncedTo[c] = NoTarget \/ syncedTo[o] = NoTarget)
        BY <1>1, <4>1 DEF Settled, Stands
      <4> QED
        BY <1>0, <2>4, <4>2
    <3> QED
      BY <1>2, <2>4, <3>1
  <2>6. ASSUME NEW i \in 0..NumChunks(job[c].data) - 1, i \notin ToTransfer(job[c].manifest, job[c].data)
        PROVE  stored[job[c].target][i] = ChunkAt(job[c].data, i)
    <3>1. i < Len(job[c].manifest.chunks) /\ job[c].manifest.chunks[i + 1] = ChunkAt(job[c].data, i)
      BY <2>4, <2>6, TransferEnough
    <3>2. i \in Nat /\ Len(job[c].manifest.chunks) \in Nat
      <4>1. NumChunks(job[c].data) \in Nat
        BY <2>4, NumChunksCover, SyConstants
      <4> QED
        BY <2>4, <4>1, ManifestFacts
    <3>3. i + 1 \in 1..Len(job[c].manifest.chunks) /\ i + 1 - 1 = i
      BY <3>1, <3>2
    <3>4. stored[job[c].target][i + 1 - 1] = job[c].manifest.chunks[i + 1]
      BY <2>4, <2>5, <3>3 DEF Holds
    <3> QED
      BY <3>1, <3>3, <3>4
  <2>7. Stands(c)'
    BY <1>1, <1>2, <2>1, <2>2, <2>3, <2>6 DEF Stands
  <2> QED
    BY <1>1, <2>1, <2>2, <2>7, SettledKept
<1>7. CASE SyncDone(c)
  <2>1. /\ job' = [job EXCEPT ![c] = NoJob] /\ state' = [state EXCEPT ![c] = job[c].data]
        /\ UNCHANGED syncedTo /\ job[c].step = "done"
    BY <1>7 DEF SyncDone, Remember
  <2>2. /\ job'[c].step = "idle" /\ state'[c] = job[c].data /\ \A o \in Client : o # c => job'[o] = job[o] /\ state'[o] = state[o]
    BY <1>0, <2>1, NoJobType
  <2>3. job[c].step \in Syncing /\ job'[c].step \notin Syncing /\ job'[c].step \notin Fetching
    BY <2>1, <2>2 DEF Syncing, Fetching
  <2>4. syncedTo[c] = job[c].target /\ job[c].target \in Target /\ manifests[job[c].target] = Manifest(job[c].data) /\ job[c].data \in Data
    BY <1>0, <1>2, <2>1, <2>3 DEF Stands
  <2>5. manifests[syncedTo[c]].file = job[c].data
    BY <2>4, ManifestFacts
  <2>6. Stands(c)'
    BY <1>0, <1>1, <2>1, <2>2, <2>3, <2>4, <2>5 DEF Stands
  <2> QED
    BY <1>1, <2>1, <2>2, <2>6, SettledKept
<1> QED
    BY <1>3, <1>4, <1>5, <1>6, <1>7

\* A block that is sent.
LEMMA SettledBlock ==
    ASSUME SyTyped, Settled, ~unsettled', NEW c \in Client, SendBlock(c)
    PROVE  Settled'
<1>0. /\ job \in [Client -> SyJobs] /\ job[c] \in SyJobs /\ syncedTo \in [Client -> Target \cup {NoTarget}] /\ NoTarget \notin Target
      /\ stored \in [Target -> [Index -> Seq(Int)]]
      /\ job[c].step # "idle" => job[c].target \in Target
    BY SyConstants DEF SyTyped
<1>1. /\ ~unsettled /\ UNCHANGED <<manifests, state, syncedTo>> /\ job[c].step = "blocks" /\ job[c].todo # {}
      /\ stored' = [stored EXCEPT ![job[c].target][Min(job[c].todo)] = ChunkAt(job[c].data, Min(job[c].todo))]
      /\ job' = [job EXCEPT ![c].todo = @ \ {Min(job[c].todo)}]
    BY DEF SendBlock, Sends, Fail
<1>2. PICK t \in Target : t = job[c].target
    BY <1>0, <1>1
<1>3. PICK i \in Index : i = Min(job[c].todo)
  <2>1. job[c].todo \in SUBSET Nat /\ job[c].todo \subseteq Index
    BY <1>0, SyConstants DEF SyJobs
  <2> QED
    BY <1>1, <2>1, MinIn
<1>4. /\ stored'[t][i] = ChunkAt(job[c].data, i) /\ \A k \in Index : k # i => stored'[t][k] = stored[t][k]
      /\ \A u \in Target : u # t => stored'[u] = stored[u]
    BY <1>0, <1>1, <1>2, <1>3
<1>5. /\ job'[c].step = "blocks" /\ job'[c].target = t /\ job'[c].data = job[c].data /\ job'[c].todo = job[c].todo \ {i}
      /\ \A o \in Client : o # c => job'[o] = job[o]
    BY <1>0, <1>1, <1>2, <1>3 DEF SyJobs
<1>6. /\ \A o, u \in Client : o # u => syncedTo[o] = NoTarget \/ syncedTo[u] = NoTarget
      /\ \A u \in Target : (\A o \in Client : job[o].step = "blocks" => job[o].target # u) => Holds(u)
      /\ \A o \in Client : Stands(o)
    BY <1>1 DEF Settled
<1>7. job[c].step \in Syncing /\ job'[c].step \in Syncing /\ job'[c].step \notin Fetching /\ syncedTo[c] = t
    BY <1>1, <1>2, <1>5, <1>6 DEF Syncing, Fetching, Stands
<1>8. Stands(c)'
  <2>1. job[c].data \in Data
    BY <1>7 DEF SyTyped
  <2>2. ASSUME NEW k \in 0..NumChunks(job[c].data) - 1 PROVE k \in job[c].todo \ {i} \/ stored'[t][k] = ChunkAt(job[c].data, k)
    <3>1. k \in job[c].todo \/ stored[t][k] = ChunkAt(job[c].data, k)
      BY <1>1, <1>2, <1>6, <2>2 DEF Stands
    <3>2. k \in Index
      BY <2>1, SyConstants
    <3> QED
      BY <1>4, <3>1, <3>2
  <2> QED
    BY <1>0, <1>1, <1>2, <1>5, <1>7, <2>2 DEF Stands
<1>9. ASSUME NEW o \in Client, o # c PROVE Stands(o)'
  <2>1. syncedTo[o] = NoTarget /\ Stands(o) /\ job'[o] = job[o]
    BY <1>0, <1>5, <1>6, <1>7, <1>9
  <2>2. job[o].step \notin Syncing
    BY <1>0, <2>1 DEF Stands, SyTyped, Syncing
  <2>3. job[o].step \notin {"diff", "blocks", "done"}
    BY <2>2 DEF Syncing
  <2> QED
    BY <1>1, <2>1, <2>2, <2>3 DEF Stands
<1>10. ASSUME NEW u \in Target, \A o \in Client : job'[o].step = "blocks" => job'[o].target # u PROVE Holds(u)'
  <2>1. u # t /\ Holds(u)
    BY <1>1, <1>5, <1>6, <1>10
  <2> QED
    BY <1>1, <1>4, <2>1 DEF Holds
<1> QED
    BY <1>1, <1>6, <1>8, <1>9, <1>10 DEF Settled

\* The manifest, after all of them.
LEMMA SettledManifest ==
    ASSUME SyTyped, Settled, ~unsettled', NEW c \in Client, SendManifest(c)
    PROVE  Settled'
<1>0. /\ job \in [Client -> SyJobs] /\ job[c] \in SyJobs /\ syncedTo \in [Client -> Target \cup {NoTarget}] /\ NoTarget \notin Target
      /\ manifests \in [Target -> Manifests]
      /\ job[c].step # "idle" => job[c].target \in Target
    BY SyConstants DEF SyTyped
<1>1. /\ ~unsettled /\ UNCHANGED <<stored, state, syncedTo>> /\ job[c].step = "blocks" /\ job[c].todo = {}
      /\ manifests' = [manifests EXCEPT ![job[c].target] = Manifest(job[c].data)]
      /\ job' = [job EXCEPT ![c].step = "done"]
    BY DEF SendManifest, Sends, Fail, Goto
<1>2. PICK t \in Target : t = job[c].target
    BY <1>0, <1>1
<1>3. manifests'[t] = Manifest(job[c].data) /\ \A u \in Target : u # t => manifests'[u] = manifests[u]
    BY <1>0, <1>1, <1>2
<1>4. /\ job'[c].step = "done" /\ job'[c].target = t /\ job'[c].data = job[c].data
      /\ \A o \in Client : o # c => job'[o] = job[o]
    BY <1>0, <1>1, <1>2 DEF SyJobs
<1>5. /\ \A o, u \in Client : o # u => syncedTo[o] = NoTarget \/ syncedTo[u] = NoTarget
      /\ \A u \in Target : (\A o \in Client : job[o].step = "blocks" => job[o].target # u) => Holds(u)
      /\ \A o \in Client : Stands(o)
    BY <1>1 DEF Settled
<1>6. job[c].step \in Syncing /\ job'[c].step \in Syncing /\ job'[c].step \notin Fetching /\ syncedTo[c] = t
    BY <1>1, <1>2, <1>4, <1>5 DEF Syncing, Fetching, Stands
<1>7. Stands(c)'
    BY <1>0, <1>1, <1>3, <1>4, <1>6 DEF Stands
<1>8. ASSUME NEW o \in Client, o # c PROVE Stands(o)'
  <2>1. syncedTo[o] = NoTarget /\ Stands(o) /\ job'[o] = job[o]
    BY <1>0, <1>4, <1>5, <1>6, <1>8
  <2>2. job[o].step \notin Syncing
    BY <1>0, <2>1 DEF Stands, SyTyped, Syncing
  <2>3. job[o].step \notin {"diff", "blocks", "done"}
    BY <2>2 DEF Syncing
  <2>4. c \in Client /\ c # o /\ syncedTo'[c] # NoTarget
    BY <1>0, <1>1, <1>6, <1>8
  <2>5. state'[o] = NoData
    BY <1>1, <2>1 DEF Stands
  <2> QED
    BY <2>1, <2>2, <2>3, <2>4, <2>5 DEF Stands
<1>9. Holds(t)'
  <2>1. job[c].data \in Data /\ job[c].data \in Seq(Nat)
    BY <1>6, SyConstants DEF SyTyped
  <2>2. /\ manifests'[t].chunks = ChunkData(job[c].data) /\ Len(ChunkData(job[c].data)) = NumChunks(job[c].data)
        /\ NumChunks(job[c].data) \in Nat
        /\ \A i \in 0..NumChunks(job[c].data) - 1 : ChunkData(job[c].data)[i + 1] = ChunkAt(job[c].data, i)
    BY <1>3, <2>1, ManifestFacts, ChunksType
  <2>3. ASSUME NEW k \in 1..NumChunks(job[c].data) PROVE stored[t][k - 1] = ChunkData(job[c].data)[k]
    <3>1. k - 1 \in 0..NumChunks(job[c].data) - 1 /\ (k - 1) + 1 = k
      BY <2>2
    <3>2. stored[t][k - 1] = ChunkAt(job[c].data, k - 1)
      BY <1>1, <1>2, <1>5, <3>1 DEF Stands
    <3> QED
      BY <2>2, <3>1, <3>2
  <2> QED
    BY <1>1, <2>2, <2>3 DEF Holds
<1>10. ASSUME NEW u \in Target, \A o \in Client : job'[o].step = "blocks" => job'[o].target # u PROVE Holds(u)'
  <2>1. CASE u = t
    BY <1>9, <2>1
  <2>2. CASE u # t
    <3>1. Holds(u)
      BY <1>2, <1>4, <1>5, <1>10, <2>2
    <3> QED
      BY <1>1, <1>3, <2>2, <3>1 DEF Holds
  <2> QED
    BY <2>1, <2>2
<1> QED
    BY <1>1, <1>5, <1>7, <1>8, <1>10 DEF Settled

\* A download.
LEMMA SettledFetch ==
    ASSUME SyTyped, Settled, ~unsettled', NEW c \in Client, Compare(c) \/ RequestBlock(c) \/ Assemble(c)
    PROVE  Settled'
<1>0. /\ job \in [Client -> SyJobs] /\ job[c] \in SyJobs /\ syncedTo \in [Client -> Target \cup {NoTarget}] /\ NoTarget \notin Target
      /\ state \in [Client -> authored \cup {NoData}]
      /\ job[c].step # "idle" => job[c].target \in Target
    BY SyConstants DEF SyTyped
<1>1. UNCHANGED <<manifests, stored>> /\ job[c].step \in Fetching
    BY DEF Compare, RequestBlock, Assemble, Fetching
<1>2. ~unsettled
  <2>1. CASE Compare(c)
    BY <2>1 DEF Compare
  <2>2. CASE RequestBlock(c)
    BY <2>2 DEF RequestBlock, Fail
  <2>3. CASE Assemble(c)
    BY <2>3 DEF Assemble
  <2> QED
    BY <2>1, <2>2, <2>3
<1>3. Stands(c) /\ job[c].step \notin Syncing /\ job[c].step # "blocks" /\ job[c].target \in Target /\ job[c].step # "idle"
    BY <1>0, <1>1, <1>2 DEF Settled, Fetching, Syncing
<1>4. CASE /\ UNCHANGED <<state, syncedTo>> /\ job'[c].step \in {"getBlocks", "idle"}
           /\ job'[c].step = "getBlocks" => job'[c].target = job[c].target /\ job'[c].manifest = job[c].manifest
           /\ \A o \in Client : o # c => job'[o] = job[o]
  <2>1. job'[c].step \notin Syncing /\ (job'[c].step \in Fetching => job'[c].step = "getBlocks") /\ job'[c].step \notin {"diff", "blocks", "done"}
    BY <1>4 DEF Fetching, Syncing
  <2>2. Stands(c)'
    BY <1>1, <1>3, <1>4, <2>1 DEF Stands
  <2> QED
    BY <1>1, <1>2, <1>3, <1>4, <2>2, SettledKept
<1>5. CASE Compare(c) \/ RequestBlock(c)
  <2>1. UNCHANGED <<state, syncedTo>> /\ ~Fail(c)
    BY <1>5 DEF Compare, RequestBlock, Fail
  <2>2. /\ job'[c].step = "getBlocks" /\ job'[c].target = job[c].target /\ job'[c].manifest = job[c].manifest
        /\ \A o \in Client : o # c => job'[o] = job[o]
    <3>1. CASE Compare(c)
      BY <1>0, <3>1 DEF Compare, SyJobs
    <3>2. CASE RequestBlock(c)
      BY <1>0, <2>1, <3>2 DEF RequestBlock, SyJobs
    <3> QED
      BY <1>5, <3>1, <3>2
  <2> QED
    BY <1>4, <2>1, <2>2
<1>6. CASE Assemble(c) /\ ~Reassemble(job[c].manifest, job[c].have)
  <2>1. UNCHANGED <<state, syncedTo>> /\ job' = [job EXCEPT ![c] = NoJob]
    BY <1>6 DEF Assemble
  <2>2. job'[c].step = "idle" /\ \A o \in Client : o # c => job'[o] = job[o]
    BY <1>0, <2>1, NoJobType
  <2> QED
    BY <1>4, <2>1, <2>2
<1>7. CASE Assemble(c) /\ Reassemble(job[c].manifest, job[c].have)
  <2>1. /\ job' = [job EXCEPT ![c] = NoJob] /\ state' = [state EXCEPT ![c] = job[c].manifest.file]
        /\ syncedTo' = [syncedTo EXCEPT ![c] = job[c].target] /\ unsettled' = (unsettled \/ Shared(c, job[c].target))
    BY <1>7 DEF Assemble, Remember
  <2>2. /\ job'[c].step = "idle" /\ state'[c] = job[c].manifest.file /\ syncedTo'[c] = job[c].target
        /\ \A o \in Client : o # c => job'[o] = job[o] /\ state'[o] = state[o] /\ syncedTo'[o] = syncedTo[o]
    BY <1>0, <2>1, NoJobType
  <2>3. \A o \in Client : o # c => syncedTo[o] = NoTarget
    BY <2>1 DEF Shared
  <2>4. job[c].manifest = manifests[job[c].target]
    BY <1>1, <1>3, <2>3 DEF Stands
  <2>5. job'[c].step \notin Syncing /\ job'[c].step \notin Fetching
    BY <2>2 DEF Syncing, Fetching
  <2>6. Stands(c)'
    BY <1>0, <1>1, <1>3, <2>2, <2>4, <2>5 DEF Stands
  <2> QED
    BY <1>0, <1>1, <1>2, <1>3, <2>2, <2>3, <2>6, SettledKept
<1> QED
    BY <1>5, <1>6, <1>7

\* Every step keeps it.
LEMMA SettledStep == ASSUME SyTyped, Settled, [SyNext]_syVars PROVE Settled'
<1>0. CASE unsettled'
    BY <1>0 DEF Settled
<1>1. CASE ~unsettled' /\ UNCHANGED syVars
    BY <1>1 DEF syVars, Settled, Stands, Holds
<1>2. ASSUME ~unsettled', NEW c \in Client, Edit(c) PROVE Settled'
  <2>1. UNCHANGED <<state, manifests, stored, job, syncedTo, unsettled>>
    BY <1>2 DEF Edit
  <2> QED
    BY <2>1 DEF Settled, Stands, Holds
<1>3. ASSUME ~unsettled', NEW c \in Client, NEW t \in Target, SyncFile(c, t) \/ DownloadFile(c, t) PROVE Settled'
    BY <1>3, SettledSync
<1>4. ASSUME ~unsettled', NEW c \in Client, RequestManifest(c) \/ Diff(c) \/ SyncDone(c) PROVE Settled'
  <2>1. PICK t \in Target : t = job[c].target
    BY <1>4 DEF SyTyped, RequestManifest, Diff, SyncDone
  <2> QED
    BY <1>4, SettledSync
<1>5. ASSUME ~unsettled', NEW c \in Client, SendBlock(c) \/ SendManifest(c) PROVE Settled'
    BY <1>5, SettledBlock, SettledManifest
<1>6. ASSUME ~unsettled', NEW c \in Client, Compare(c) \/ RequestBlock(c) \/ Assemble(c) PROVE Settled'
    BY <1>6, SettledFetch
<1> QED
    BY <1>0, <1>1, <1>2, <1>3, <1>4, <1>5, <1>6 DEF SyNext

\* A manifest and its blocks make up the file.
LEMMA SettledStored == SyTyped /\ Settled => SyncedIsStored
<1> SUFFICES ASSUME SyTyped, Settled, ~unsettled, NEW c \in Client, job[c] = NoJob, state[c] # NoData
             PROVE  manifests[syncedTo[c]].file = state[c] /\ Readable(syncedTo[c])
    BY DEF SyncedIsStored
<1>0. /\ \A o, u \in Client : o # u => syncedTo[o] = NoTarget \/ syncedTo[u] = NoTarget
      /\ \A u \in Target : (\A o \in Client : job[o].step = "blocks" => job[o].target # u) => Holds(u)
      /\ \A o \in Client : Stands(o)
    BY DEF Settled
<1>1. job[c].step = "idle" /\ job[c].step \notin Syncing
    BY NoJobType DEF Syncing
<1>2. PICK t \in Target : t = syncedTo[c]
    BY <1>0 DEF Stands, SyTyped
<1>3. PICK d \in Data : d = state[c] /\ d \in Seq(Nat)
    BY SyConstants DEF SyTyped
<1>4. manifests[t].file = d
    BY <1>0, <1>1, <1>2, <1>3 DEF Stands
<1>5. manifests[t] = Manifest(d) /\ manifests[t].chunks = ChunkData(d)
    BY <1>4, ManifestFacts DEF SyTyped
<1>6. Holds(t)
  <2>1. ASSUME NEW o \in Client, job[o].step = "blocks" PROVE job[o].target # t
    <3>1. job[o].step \in Syncing /\ o # c
      BY <1>1, <2>1 DEF Syncing
    <3> QED
      BY <1>0, <1>2, <3>1, SyConstants DEF Stands
  <2> QED
    BY <1>0, <2>1
<1>7. [k \in 1..Len(manifests[t].chunks) |-> stored[t][k - 1]] = ChunkData(d)
  <2>1. ChunkData(d) \in Seq(Seq(Nat)) /\ Len(ChunkData(d)) \in Nat
    BY <1>3, ChunksType
  <2>2. ChunkData(d) = [k \in 1..Len(ChunkData(d)) |-> ChunkData(d)[k]]
    BY <2>1
  <2>3. \A k \in 1..Len(ChunkData(d)) : stored[t][k - 1] = ChunkData(d)[k]
    BY <1>5, <1>6 DEF Holds
  <2>4. [k \in 1..Len(ChunkData(d)) |-> stored[t][k - 1]] = [k \in 1..Len(ChunkData(d)) |-> ChunkData(d)[k]]
    BY <2>3
  <2> QED
    BY <1>5, <2>2, <2>4
<1>8. Reassemble(manifests[t], ChunkData(d))
    BY <1>3, <1>4, <1>5, ChunksMakeFile DEF Reassemble
<1>9. Readable(t)
    BY <1>7, <1>8 DEF Readable
<1> QED
    BY <1>2, <1>3, <1>4, <1>9

\* The blocks that diff_files finds are enough: for every chunk size and content,
\* when sync_file has returned the remote node holds exactly this version and it
\* can be fetched back, with one client, one remote node and no lost message.
THEOREM SyncsAreStored == SySpec => []SyncedIsStored
<1>1. SyInit => SyTyped /\ Settled
    BY SyTypedInit, SettledInit
<1>2. SyTyped /\ Settled /\ [SyNext]_syVars => (SyTyped /\ Settled)'
    BY SyTypedStep, SettledStep
<1> QED
    BY <1>1, <1>2, SettledStored, PTL DEF SySpec

----------------------------------------------------------------------------
(* Backup. *)

KeptChunk == {None, Cipher} \cup {ChunkAt(d, i) : d \in BkData, i \in ChunkIndex}
Remote == [manifest : BkData \cup {None}, chunks : [ChunkIndex -> KeptChunk]]
MetaStores == [File -> BkData \cup {None}]
VerStores == [File -> Seq(Version)]
BkStep == {"idle", "hung", "send", "load", "loaded", "meta", "chunks", "report", "truncate", "fill", "again", "refill"}
Writing == {"truncate", "fill", "again", "refill"}
Cmds == [op : BkOp, step : BkStep, file : File \cup {None}, data : BkData \cup {None}, got : Seq(Nat \cup KeptChunk),
         db : {None} \cup MetaStores \cup VerStores, refs : SUBSET Seq(Nat), unused : Int]

\* Newest first, and none from the future.
Ordered(list, at) ==
    /\ \A k \in 1..Len(list) : list[k].secs <= at
    /\ \A k \in 1..Len(list) - 1 : list[k].secs >= list[k + 1].secs
OrderedStore(db, at) == db \in VerStores /\ \A f \in File : Ordered(db[f], at)

\* What a command holds at each of its steps, past being what was sent.
PlaceOK(c, past, at) ==
    /\ c.op \in {"backup", "increment"} => c.file \in File /\ c.data \in BkData
    /\ c.op = "restore" => c.file \in File
    /\ c.step = "send" => c.op \in {"backup", "increment"}
    /\ c.step \in {"meta", "chunks"} => c.op = "restore"
    /\ c.step = "chunks" => c.data \in BkData /\ <<c.file, c.data>> \in past
    /\ c.step \in {"load", "loaded"} => c.op # "backup"
    /\ c.op = "backup" /\ c.step \in Writing => c.db \in MetaStores
    /\ c.op # "backup" /\ c.step \in Writing \cup {"loaded"} => OrderedStore(c.db, at)

BkTyped ==
    /\ disk \in [File -> BkData]
    /\ metaDb \in MetaStores \cup {Torn}
    /\ verDb = Torn \/ OrderedStore(verDb, secs)
    /\ kept \in [File -> Remote] /\ \A f \in File : kept[f].manifest # None => <<f, kept[f].manifest>> \in sent
    /\ cmd \in [Proc -> Cmds] /\ \A p \in Proc : PlaceOK(cmd[p], sent, secs)
    /\ secs \in 0..MaxSecs /\ count \in 0..MaxCommands /\ calm \in BOOLEAN
    /\ backups \in Seq(File \X BkData)
    /\ restored \subseteq sent

\* The constants: contents are bytes, and every chunk of one has an index.
LEMMA BkConstants ==
    /\ MaxCommands \in Nat /\ MaxSecs \in Nat /\ Keep \in Nat /\ IsFiniteSet(File) /\ BkData \subseteq Seq(Nat) /\ None \notin BkData
    /\ ChunkIndex \subseteq Nat /\ \A d \in BkData : 0..NumChunks(d) - 1 \subseteq ChunkIndex
<1>1. MaxCommands \in Nat /\ MaxSecs \in Nat /\ Keep \in Nat /\ IsFiniteSet(File) /\ BkData \subseteq Seq(Nat)
    BY BkAssumption
<1>2. None \notin BkData
  <2>1. ASSUME <<-2>> \in Seq(Nat) PROVE FALSE
    <3>1. Len(<<-2>>) = 1 /\ <<-2>>[1] = -2
      OBVIOUS
    <3>2. <<-2>>[1] \in Nat
      BY <2>1, <3>1
    <3> QED
      BY <3>1, <3>2
  <2> QED
    BY <1>1, <2>1 DEF None
<1>3. PICK d \in BkData : \A e \in BkData : Len(e) <= Len(d)
    BY BkAssumption
<1>4. ChunkIndex \subseteq Nat /\ \A e \in BkData : 0..NumChunks(e) - 1 \subseteq ChunkIndex
    BY <1>1, <1>3, IndexesCover DEF ChunkIndex
<1> QED
    BY <1>1, <1>2, <1>4

\* A process that runs no command.
LEMMA IdleCmdType ==
    /\ IdleCmd \in Cmds /\ IdleCmd.step = "idle" /\ IdleCmd.op = "none" /\ IdleCmd.got = <<>>
    /\ \A past, at : PlaceOK(IdleCmd, past, at)
<1>1. <<>> \in Seq(Nat \cup KeptChunk) /\ {} \in SUBSET Seq(Nat) /\ 0 \in Int
    OBVIOUS
<1>2. IdleCmd \in Cmds
    BY <1>1 DEF IdleCmd, Cmds, BkOp, BkStep
<1>3. IdleCmd.step = "idle" /\ IdleCmd.op = "none" /\ IdleCmd.got = <<>>
    BY DEF IdleCmd
<1> QED
    BY <1>2, <1>3 DEF PlaceOK, Writing

\* Time only makes old versions older.
LEMMA StillOrdered == \A db : \A at, since \in Nat : at <= since /\ OrderedStore(db, at) => OrderedStore(db, since)
<1> SUFFICES ASSUME NEW db, NEW at \in Nat, NEW since \in Nat, at <= since, OrderedStore(db, at) PROVE OrderedStore(db, since)
    OBVIOUS
<1>1. ASSUME NEW f \in File PROVE Ordered(db[f], since)
  <2>1. Ordered(db[f], at) /\ db[f] \in Seq(Version)
    BY DEF OrderedStore, VerStores
  <2>2. ASSUME NEW k \in 1..Len(db[f]) PROVE db[f][k].secs <= since
    <3>1. db[f][k] \in Version
      BY <2>1
    <3>2. db[f][k].secs \in Nat /\ db[f][k].secs <= at
      BY <2>1, <3>1, BkConstants DEF Version, Ordered
    <3> QED
      BY <3>2
  <2> QED
    BY <2>1, <2>2 DEF Ordered
<1> QED
    BY <1>1 DEF OrderedStore

\* A command is still well placed when time passes and more is sent.
LEMMA StillPlaced ==
    ASSUME NEW c, NEW past, NEW more, past \subseteq more, NEW at \in Nat, NEW since \in Nat, at <= since, PlaceOK(c, past, at)
    PROVE  PlaceOK(c, more, since)
BY StillOrdered DEF PlaceOK

\* A command that moves: what is to be shown is about that command alone.
LEMMA CmdMoves ==
    ASSUME BkTyped, NEW p \in Proc, NEW c \in Cmds, cmd' = [cmd EXCEPT ![p] = c], sent \subseteq sent', secs' = secs, PlaceOK(c, sent', secs)
    PROVE  /\ cmd' \in [Proc -> Cmds] /\ cmd'[p] = c /\ \A q \in Proc : q # p => cmd'[q] = cmd[q]
           /\ \A q \in Proc : PlaceOK(cmd'[q], sent', secs')
<1>1. cmd \in [Proc -> Cmds] /\ secs \in Nat
    BY BkConstants DEF BkTyped
<1>2. cmd' \in [Proc -> Cmds] /\ cmd'[p] = c /\ \A q \in Proc : q # p => cmd'[q] = cmd[q]
    BY <1>1
<1>3. ASSUME NEW q \in Proc, q # p PROVE PlaceOK(cmd'[q], sent', secs')
  <2>1. PlaceOK(cmd[q], sent, secs)
    BY DEF BkTyped
  <2>2. PlaceOK(cmd[q], sent', secs)
    BY <1>1, <2>1, StillPlaced
  <2> QED
    BY <1>2, <1>3, <2>2
<1> QED
    BY <1>2, <1>3

\* A command that comes to an end, and nothing else.
LEMMA EndCmd ==
    ASSUME BkTyped, NEW p \in Proc, End(p), UNCHANGED <<disk, metaDb, verDb, kept, secs, count, bkPast>>, calm' \in BOOLEAN
    PROVE  BkTyped'
<1>1. sent' = sent /\ secs' = secs /\ UNCHANGED <<restored, backups>>
    BY DEF bkPast
<1>2. cmd' \in [Proc -> Cmds] /\ \A q \in Proc : PlaceOK(cmd'[q], sent', secs')
    BY <1>1, IdleCmdType, CmdMoves DEF End
<1> QED
    BY <1>1, <1>2 DEF BkTyped

\* A command that moves on, and nothing else.
LEMMA MoveCmd ==
    ASSUME BkTyped, NEW p \in Proc, NEW c \in Cmds, cmd' = [cmd EXCEPT ![p] = c], PlaceOK(c, sent, secs),
           UNCHANGED <<disk, metaDb, verDb, kept, secs, bkPast>>, count' \in 0..MaxCommands, calm' \in BOOLEAN
    PROVE  BkTyped'
<1>1. sent' = sent /\ secs' = secs /\ UNCHANGED <<restored, backups>>
    BY DEF bkPast
<1>2. cmd' \in [Proc -> Cmds] /\ \A q \in Proc : PlaceOK(cmd'[q], sent', secs')
    BY <1>1, CmdMoves
<1> QED
    BY <1>1, <1>2 DEF BkTyped

\* It holds at first.
LEMMA BkTypedInit == BkInit => BkTyped
<1> SUFFICES ASSUME BkInit PROVE BkTyped
    OBVIOUS
<1>1. metaDb \in MetaStores
    BY DEF BkInit, NoEntries, MetaStores
<1>2. OrderedStore(verDb, secs)
  <2>1. <<>> \in Seq(Version) /\ 1..Len(<<>>) = {} /\ 1..Len(<<>>) - 1 = {}
    OBVIOUS
  <2>2. verDb \in VerStores /\ \A f \in File : verDb[f] = <<>>
    BY <2>1 DEF BkInit, NoVersions, VerStores
  <2> QED
    BY <2>1, <2>2 DEF OrderedStore, Ordered
<1>3. kept \in [File -> Remote] /\ \A f \in File : kept[f].manifest = None
    BY DEF BkInit, Remote, KeptChunk
<1>4. cmd \in [Proc -> Cmds] /\ \A p \in Proc : PlaceOK(cmd[p], sent, secs)
    BY IdleCmdType DEF BkInit
<1>5. secs = 0 /\ count = 0 /\ calm = TRUE /\ backups = <<>> /\ restored = {} /\ disk \in [File -> BkData]
    BY DEF BkInit
<1>6. 0 \in 0..MaxSecs /\ 0 \in 0..MaxCommands /\ <<>> \in Seq(File \X BkData)
    BY BkConstants
<1> QED
    BY <1>1, <1>2, <1>3, <1>4, <1>5, <1>6 DEF BkTyped

\* Sets of blocks are finite.
LEMMA SequenceFinite == ASSUME NEW S, NEW s \in Seq(S) PROVE IsFiniteSet(ToSet(s)) /\ ToSet(s) \subseteq S
<1>1. Len(s) \in Nat /\ DOMAIN s = 1..Len(s) /\ \A i \in 1..Len(s) : s[i] \in S
    BY LenProperties
<1>2. IsFiniteSet(1..Len(s))
    BY <1>1, FS_Interval
<1>3. s \in [1..Len(s) -> ToSet(s)] /\ \A y \in ToSet(s) : \E i \in 1..Len(s) : s[i] = y
  <2>1. s \in [1..Len(s) -> S]
    BY LenProperties
  <2> QED
    BY <1>1, <2>1 DEF ToSet
<1>4. s \in Surjection(1..Len(s), ToSet(s))
    BY <1>3 DEF Surjection
<1>5. IsFiniteSet(ToSet(s))
    BY <1>2, <1>4, FS_Surjection
<1> QED
    BY <1>1, <1>5 DEF ToSet

\* The image of a finite set under a function.
LEMMA ImageFinite == ASSUME NEW S, IsFiniteSet(S), NEW f, f = [x \in S |-> f[x]] PROVE IsFiniteSet({f[x] : x \in S})
<1> DEFINE T == {f[x] : x \in S}
<1>1. f \in [S -> T] /\ \A y \in T : \E x \in S : f[x] = y
    OBVIOUS
<1>2. f \in Surjection(S, T)
    BY <1>1 DEF Surjection
<1> QED
    BY <1>2, FS_Surjection

\* The blocks of a file, of the files registered and of the versions are finitely many.
LEMMA BlocksFinite ==
    /\ \A d \in BkData : IsFiniteSet(ToSet(ChunkData(d))) /\ ToSet(ChunkData(d)) \subseteq Seq(Nat)
    /\ \A db \in MetaStores : IsFiniteSet(AllBlocks(db)) /\ AllBlocks(db) \subseteq Seq(Nat)
    /\ \A db \in VerStores : IsFiniteSet(Referenced(db))
<1>1. ASSUME NEW d \in BkData PROVE IsFiniteSet(ToSet(ChunkData(d))) /\ ToSet(ChunkData(d)) \subseteq Seq(Nat)
  <2>1. ChunkData(d) \in Seq(Seq(Nat))
    BY BkConstants, ChunksType
  <2> QED
    BY <2>1, SequenceFinite
<1>2. ASSUME NEW db \in MetaStores PROVE IsFiniteSet(AllBlocks(db)) /\ AllBlocks(db) \subseteq Seq(Nat)
  <2> DEFINE G == {g \in File : db[g] # None}
             h == [f \in G |-> ToSet(ChunkData(db[f]))]
  <2>1. IsFiniteSet(G)
    BY BkConstants, FS_Subset
  <2>2. \A f \in G : db[f] \in BkData
    BY DEF MetaStores
  <2>3. IsFiniteSet({h[f] : f \in G})
    <3>1. h = [f \in G |-> h[f]]
      OBVIOUS
    <3> HIDE DEF h, G
    <3> QED
      BY <2>1, <3>1, ImageFinite
  <2>4. {h[f] : f \in G} = {ToSet(ChunkData(db[f])) : f \in G}
    OBVIOUS
  <2>5. \A T \in {ToSet(ChunkData(db[f])) : f \in G} : IsFiniteSet(T) /\ T \subseteq Seq(Nat)
    BY <1>1, <2>2
  <2>6. IsFiniteSet(UNION {ToSet(ChunkData(db[f])) : f \in G})
    BY <2>3, <2>4, <2>5, FS_UNION
  <2>7. (UNION {ToSet(ChunkData(db[f])) : f \in G}) \subseteq Seq(Nat)
    BY <2>5
  <2> QED
    BY <2>6, <2>7 DEF AllBlocks
<1>3. ASSUME NEW db \in VerStores PROVE IsFiniteSet(Referenced(db))
  <2>1. ASSUME NEW f \in File PROVE IsFiniteSet(UNION {ToSet(ChunkData(v.data)) : v \in ToSet(db[f])})
    <3> DEFINE V == ToSet(db[f])
               h == [v \in V |-> ToSet(ChunkData(v.data))]
    <3>1. IsFiniteSet(V) /\ V \subseteq Version
      BY SequenceFinite DEF VerStores
    <3>2. IsFiniteSet({h[v] : v \in V})
      <4>1. h = [v \in V |-> h[v]]
        OBVIOUS
      <4> HIDE DEF h, V
      <4> QED
        BY <3>1, <4>1, ImageFinite
    <3>3. {h[v] : v \in V} = {ToSet(ChunkData(v.data)) : v \in V}
      OBVIOUS
    <3>4. \A T \in {ToSet(ChunkData(v.data)) : v \in V} : IsFiniteSet(T)
      BY <1>1, <3>1 DEF Version
    <3> QED
      BY <3>2, <3>3, <3>4, FS_UNION
  <2> DEFINE R(f) == UNION {ToSet(ChunkData(v.data)) : v \in ToSet(db[f])}
             h == [f \in File |-> R(f)]
  <2> HIDE DEF R
  <2>2. IsFiniteSet({h[f] : f \in File})
    <3>1. h = [f \in File |-> h[f]]
      OBVIOUS
    <3> HIDE DEF h
    <3> QED
      BY <3>1, BkConstants, ImageFinite
  <2>3. {h[f] : f \in File} = {R(f) : f \in File}
    OBVIOUS
  <2>4. \A T \in {R(f) : f \in File} : IsFiniteSet(T)
    BY <2>1 DEF R
  <2>5. IsFiniteSet(UNION {R(f) : f \in File})
    BY <2>2, <2>3, <2>4, FS_UNION
  <2> QED
    BY <2>5 DEF R, Referenced
<1> QED
    BY <1>1, <1>2, <1>3

\* The larger one of zero and a number.
LEMMA ZeroOrMore == ASSUME NEW x \in Int PROVE Max({0, x}) = IF 0 >= x THEN 0 ELSE x
<1>1. 0 \in Int
    OBVIOUS
<1> QED
    BY <1>1, TwoNumbers

\* What gc and stats report: numbers, and stats never more than gc.
LEMMA ReportBounds ==
    ASSUME NEW vs \in VerStores, NEW ms \in MetaStores
    PROVE  /\ Collect(vs, ms) \in SUBSET Seq(Nat) /\ Cardinality(Collect(vs, ms)) \in Int /\ StorageStats(vs, ms) \in Int
           /\ Cardinality(Collect(vs, ms)) <= Cardinality(AllBlocks(ms) \ Referenced(vs))
           /\ StorageStats(vs, ms) <= Cardinality(AllBlocks(ms) \ Referenced(vs))
<1>1. IsFiniteSet(AllBlocks(ms)) /\ IsFiniteSet(Referenced(vs)) /\ AllBlocks(ms) \subseteq Seq(Nat)
    BY BlocksFinite
<1> DEFINE A == AllBlocks(ms)
           R == Referenced(vs)
<1> HIDE DEF A, R
<1>2. IsFiniteSet(A) /\ IsFiniteSet(R)
    BY <1>1 DEF A, R
<1>3. IsFiniteSet(A \ R) /\ Cardinality(A \ R) = Cardinality(A) - Cardinality(A \cap R)
    BY <1>2, FS_Difference
<1>4. IsFiniteSet(R \cap A) /\ IsFiniteSet(A \cap R) /\ Cardinality(A \cap R) <= Cardinality(R)
    BY <1>2, FS_Intersection
<1>5. Cardinality(A) \in Nat /\ Cardinality(R) \in Nat /\ Cardinality(A \cap R) \in Nat /\ Cardinality(A \ R) \in Nat
    BY <1>2, <1>3, <1>4, FS_CardinalityType
<1>6. \A a, r, i, m \in Nat : m = a - i /\ i <= r => Max({0, a - r}) \in Int /\ Max({0, a - r}) <= m
  <2> SUFFICES ASSUME NEW a \in Nat, NEW r \in Nat, NEW i \in Nat, NEW m \in Nat, m = a - i, i <= r
               PROVE Max({0, a - r}) \in Int /\ Max({0, a - r}) <= m
    OBVIOUS
  <2>1. PICK x \in Int : x = a - r
    OBVIOUS
  <2>2. Max({0, x}) = IF 0 >= x THEN 0 ELSE x
    BY ZeroOrMore
  <2> QED
    BY <2>1, <2>2
<1>7. Max({0, Cardinality(A) - Cardinality(R)}) \in Int /\ Max({0, Cardinality(A) - Cardinality(R)}) <= Cardinality(A \ R)
    BY <1>3, <1>4, <1>5, <1>6
<1>8. Collect(vs, ms) = A \ R
    BY DEF Collect, A, R
<1> QED
    BY <1>1, <1>5, <1>7, <1>8 DEF StorageStats, A, R

\* A new command.
LEMMA NewCommandTyped ==
    ASSUME BkTyped, NEW p \in Proc, NEW op \in BkOp, NEW first \in {"send", "meta", "load"}, NEW f \in File \cup {None},
           first = "send" => f \in File /\ op \in {"backup", "increment"}, first = "meta" <=> op = "restore",
           first = "load" => op \notin {"backup", "increment", "restore"}, first = "meta" => f \in File, Start(p, op, first, f)
    PROVE  BkTyped'
<1>0. disk \in [File -> BkData] /\ count \in 0..MaxCommands /\ calm \in BOOLEAN
    BY DEF BkTyped
<1>1. PICK d \in BkData \cup {None} : d = (IF first = "send" THEN disk[f] ELSE None) /\ (first = "send" => d \in BkData)
    BY <1>0
<1>2. PICK c : c = [IdleCmd EXCEPT !.op = op, !.step = first, !.file = f, !.data = d]
    OBVIOUS
<1>3. c \in Cmds /\ c.op = op /\ c.step = first /\ c.file = f /\ c.data = d
  <2>1. IdleCmd \in Cmds /\ first \in BkStep
    BY IdleCmdType DEF BkStep
  <2> QED
    BY <1>2, <2>1 DEF Cmds
<1>4. PlaceOK(c, sent, secs)
    BY <1>1, <1>3 DEF PlaceOK, Writing
<1>5. cmd' = [cmd EXCEPT ![p] = c] /\ UNCHANGED <<disk, metaDb, verDb, kept, secs, bkPast>>
    BY <1>1, <1>2 DEF Start
<1>6. count' \in 0..MaxCommands
  <2>1. count < MaxCommands /\ count' = count + 1
    BY DEF Start
  <2> QED
    BY <1>0, <2>1, BkConstants
<1>7. calm' \in BOOLEAN
    BY DEF Start
<1> QED
    BY <1>3, <1>4, <1>5, <1>6, <1>7, MoveCmd

\* Every command that is started keeps the types.
LEMMA CommandsTyped == ASSUME BkTyped, NEW p \in Proc, Commands(p) PROVE BkTyped'
<1>1. ASSUME NEW f \in File, Start(p, "backup", "send", f) PROVE BkTyped'
    BY <1>1, NewCommandTyped DEF BkOp
<1>2. ASSUME NEW f \in File, Start(p, "increment", "send", f) PROVE BkTyped'
    BY <1>2, NewCommandTyped DEF BkOp
<1>3. ASSUME NEW f \in File, Start(p, "restore", "meta", f) PROVE BkTyped'
    BY <1>3, NewCommandTyped DEF BkOp
<1>4. ASSUME NEW f \in File, Start(p, "version", "load", f) PROVE BkTyped'
    BY <1>4, NewCommandTyped DEF BkOp
<1>5. ASSUME NEW f \in {None}, NEW op \in {"prune", "gc", "stats"}, Start(p, op, "load", f) PROVE BkTyped'
    BY <1>5, NewCommandTyped DEF BkOp
<1> QED
    BY <1>1, <1>2, <1>3, <1>4, <1>5 DEF Commands

\* A command that only changes one of its fields stays a command.
LEMMA CmdFields ==
    ASSUME NEW c \in Cmds
    PROVE  /\ \A s \in BkStep : [c EXCEPT !.step = s] \in Cmds
           /\ \A s \in BkStep, db \in {None} \cup MetaStores \cup VerStores : [c EXCEPT !.step = s, !.db = db] \in Cmds
           /\ \A s \in BkStep, r \in SUBSET Seq(Nat), u \in Int : [c EXCEPT !.refs = r, !.step = s, !.unused = u] \in Cmds
           /\ \A g \in Seq(Nat \cup KeptChunk) : [c EXCEPT !.got = g] \in Cmds
           /\ \A s \in BkStep, d \in BkData : [c EXCEPT !.data = d, !.step = s] \in Cmds
BY DEF Cmds

\* A chunk arrives at the remote node.
LEMMA SendChunkTyped ==
    ASSUME BkTyped, NEW p \in Proc, NEW b \in KeptChunk, cmd[p].op \in {"backup", "increment"}, SendChunk(p, b)
    PROVE  BkTyped'
<1>0. cmd \in [Proc -> Cmds] /\ PlaceOK(cmd[p], sent, secs) /\ kept \in [File -> Remote]
    BY DEF BkTyped
<1>1. PICK c \in Cmds : c = cmd[p]
    BY <1>0
<1>2. c.file \in File /\ c.data \in BkData /\ c.got \in Seq(Nat \cup KeptChunk) /\ c.step = "send"
    BY <1>0, <1>1 DEF PlaceOK, Cmds, SendChunk
<1>3. PICK i \in ChunkIndex : i = Len(c.got)
  <2>1. Len(c.got) \in Nat /\ Len(c.got) < NumChunks(c.data) /\ NumChunks(c.data) \in Nat
    BY <1>1, <1>2, BkConstants, NumChunksCover DEF SendChunk
  <2>2. Len(c.got) \in 0..NumChunks(c.data) - 1
    BY <2>1
  <2> QED
    BY <1>2, <2>2, BkConstants
<1>4. PICK k : k = [c EXCEPT !.got = Append(@, i)]
    OBVIOUS
<1>5. k \in Cmds /\ PlaceOK(k, sent, secs)
  <2>1. Append(c.got, i) \in Seq(Nat \cup KeptChunk)
    BY <1>2, <1>3, BkConstants
  <2>2. k \in Cmds
    BY <1>4, <2>1, CmdFields
  <2>3. k.op = c.op /\ k.step = c.step /\ k.file = c.file /\ k.data = c.data /\ k.db = c.db
    BY <1>4 DEF Cmds
  <2> QED
    BY <1>0, <1>1, <2>2, <2>3 DEF PlaceOK
<1>6. cmd' = [cmd EXCEPT ![p] = k] /\ sent' = sent /\ secs' = secs
    BY <1>0, <1>1, <1>3, <1>4 DEF SendChunk, bkPast
<1>7. cmd' \in [Proc -> Cmds] /\ \A q \in Proc : PlaceOK(cmd'[q], sent', secs')
    BY <1>5, <1>6, CmdMoves
<1>8. kept' \in [File -> Remote] /\ \A f \in File : kept'[f].manifest = kept[f].manifest
  <2>1. kept' = [kept EXCEPT ![c.file].chunks[i] = b]
    BY <1>1, <1>3 DEF SendChunk
  <2> QED
    BY <1>0, <1>2, <2>1 DEF Remote
<1> QED
    BY <1>6, <1>7, <1>8 DEF BkTyped, SendChunk, bkPast

\* So do the chunks of backups and increments,
LEMMA ChunksSentTyped == ASSUME BkTyped, NEW p \in Proc, BackupChunk(p) \/ IncrementBlock(p) PROVE BkTyped'
<1>1. CASE BackupChunk(p)
    BY <1>1, SendChunkTyped DEF BackupChunk, KeptChunk
<1>2. CASE IncrementBlock(p)
  <2>0. cmd[p].op = "increment" /\ SendChunk(p, ChunkAt(cmd[p].data, Len(cmd[p].got)))
    BY <1>2 DEF IncrementBlock
  <2>1. cmd[p].data \in BkData /\ cmd[p].got \in Seq(Nat \cup KeptChunk)
    BY <2>0 DEF BkTyped, PlaceOK, Cmds
  <2>2. Len(cmd[p].got) \in Nat /\ Len(cmd[p].got) < NumChunks(cmd[p].data) /\ NumChunks(cmd[p].data) \in Nat
    BY <2>0, <2>1, BkConstants, NumChunksCover DEF SendChunk
  <2>3. Len(cmd[p].got) \in ChunkIndex
    BY <2>1, <2>2, BkConstants
  <2>4. ChunkAt(cmd[p].data, Len(cmd[p].got)) \in KeptChunk
    BY <2>1, <2>3 DEF KeptChunk
  <2> QED
    BY <2>0, <2>4, SendChunkTyped
<1> QED
    BY <1>1, <1>2

\* A manifest arrives at the remote node.
LEMMA ManifestTyped ==
    ASSUME BkTyped, NEW p \in Proc, NEW next \in {"truncate", "load"}, NEW db \in {None} \cup MetaStores,
           next = "truncate" => cmd[p].op = "backup" /\ db \in MetaStores, next = "load" => cmd[p].op = "increment",
           PutManifest(p, next, db)
    PROVE  BkTyped'
<1>0. cmd \in [Proc -> Cmds] /\ PlaceOK(cmd[p], sent, secs) /\ kept \in [File -> Remote]
      /\ restored \subseteq sent /\ \A f \in File : kept[f].manifest # None => <<f, kept[f].manifest>> \in sent
    BY DEF BkTyped
<1>1. PICK c \in Cmds : c = cmd[p]
    BY <1>0
<1>2. c.file \in File /\ c.data \in BkData /\ c.step = "send"
    BY <1>0, <1>1 DEF PlaceOK, PutManifest
<1>3. PICK k : k = [c EXCEPT !.step = next, !.db = db]
    OBVIOUS
<1>4. k \in Cmds /\ k.op = c.op /\ k.step = next /\ k.file = c.file /\ k.data = c.data /\ k.db = db
  <2>1. next \in BkStep /\ db \in {None} \cup MetaStores \cup VerStores
    BY DEF BkStep
  <2>2. k \in Cmds
    BY <1>3, <2>1, CmdFields
  <2> QED
    BY <1>3, <2>2 DEF Cmds
<1>5. sent' = sent \cup {<<c.file, c.data>>} /\ secs' = secs /\ cmd' = [cmd EXCEPT ![p] = k]
      /\ kept' = [kept EXCEPT ![c.file].manifest = c.data]
    BY <1>0, <1>1, <1>3 DEF PutManifest
<1>6. PlaceOK(k, sent', secs)
    BY <1>0, <1>1, <1>2, <1>4 DEF PlaceOK, Writing
<1>7. cmd' \in [Proc -> Cmds] /\ \A q \in Proc : PlaceOK(cmd'[q], sent', secs')
  <2>1. sent \subseteq sent'
    BY <1>5
  <2> QED
    BY <1>4, <1>5, <1>6, <2>1, CmdMoves
<1>8. kept' \in [File -> Remote] /\ \A f \in File : kept'[f].manifest # None => <<f, kept'[f].manifest>> \in sent'
    BY <1>0, <1>2, <1>5 DEF Remote
<1>9. restored' = restored /\ UNCHANGED <<disk, metaDb, verDb, secs, count, backups, calm>>
    BY DEF PutManifest
<1> QED
    BY <1>0, <1>5, <1>7, <1>8, <1>9 DEF BkTyped

\* and their manifests.
LEMMA ManifestsTyped == ASSUME BkTyped, NEW p \in Proc, BackupMeta(p) \/ IncrementManifest(p) PROVE BkTyped'
<1>1. CASE BackupMeta(p)
  <2>1. cmd[p].op = "backup" /\ PutManifest(p, "truncate", [NoEntries EXCEPT ![cmd[p].file] = cmd[p].data])
    BY <1>1 DEF BackupMeta
  <2>2. cmd[p].file \in File /\ cmd[p].data \in BkData
    BY <2>1 DEF BkTyped, PlaceOK
  <2>3. [NoEntries EXCEPT ![cmd[p].file] = cmd[p].data] \in MetaStores
    BY <2>2 DEF NoEntries, MetaStores
  <2> QED
    BY <2>1, <2>3, ManifestTyped
<1>2. CASE IncrementManifest(p)
    BY <1>2, ManifestTyped DEF IncrementManifest
<1> QED
    BY <1>1, <1>2

\* A command that fails, dies or has nothing more to do.
LEMMA EndsTyped ==
    ASSUME BkTyped, NEW p \in Proc,
           SendFails(p) \/ ShowVersions(p) \/ Report(p) \/ RestoreTimeout(p) \/ Die(p)
    PROVE  BkTyped'
<1>1. calm \in BOOLEAN
    BY DEF BkTyped
<1>2. End(p) /\ UNCHANGED <<disk, metaDb, verDb, kept, secs, count, bkPast>> /\ calm' \in BOOLEAN
    BY <1>1 DEF SendFails, ShowVersions, Report, RestoreTimeout, Die, Err
<1> QED
    BY <1>2, EndCmd

\* A step that only moves the command to another place, or gives it a store.
LEMMA StepTyped ==
    ASSUME BkTyped, NEW p \in Proc, NEW s \in BkStep, Become(p, s),
           PlaceOK([cmd[p] EXCEPT !.step = s], sent, secs),
           UNCHANGED <<disk, metaDb, verDb, kept, secs, bkPast, count, calm>>
    PROVE  BkTyped'
<1>0. cmd \in [Proc -> Cmds] /\ count \in 0..MaxCommands /\ calm \in BOOLEAN
    BY DEF BkTyped
<1>1. PICK k \in Cmds : k = [cmd[p] EXCEPT !.step = s]
    BY <1>0, CmdFields
<1>2. cmd' = [cmd EXCEPT ![p] = k]
    BY <1>0, <1>1 DEF Become
<1> QED
    BY <1>0, <1>1, <1>2, MoveCmd

\* A step that gives the command a version store.
LEMMA StoreTyped ==
    ASSUME BkTyped, NEW p \in Proc, NEW s \in BkStep, NEW db \in VerStores, s \in {"loaded", "truncate"},
           cmd[p].op # "backup", OrderedStore(db, secs),
           cmd' = [cmd EXCEPT ![p].db = db, ![p].step = s],
           UNCHANGED <<disk, metaDb, verDb, kept, secs, bkPast, count, calm>>
    PROVE  BkTyped'
<1>0. cmd \in [Proc -> Cmds] /\ count \in 0..MaxCommands /\ calm \in BOOLEAN /\ PlaceOK(cmd[p], sent, secs)
    BY DEF BkTyped
<1>1. PICK c \in Cmds : c = cmd[p]
    BY <1>0
<1>2. PICK k \in Cmds : k = [c EXCEPT !.step = s, !.db = db]
    BY CmdFields
<1>3. k.op = c.op /\ k.step = s /\ k.file = c.file /\ k.data = c.data /\ k.db = db
    BY <1>2 DEF Cmds
<1>4. cmd' = [cmd EXCEPT ![p] = k]
    BY <1>0, <1>1, <1>2 DEF Cmds
<1>5. PlaceOK(k, sent, secs)
    BY <1>0, <1>1, <1>3 DEF PlaceOK
<1> QED
    BY <1>0, <1>4, <1>5, MoveCmd

\* What is loaded is the store, unless it is torn.
LEMMA LoadVersionsTyped == ASSUME BkTyped, NEW p \in Proc, LoadVersions(p) PROVE BkTyped'
<1>0. PlaceOK(cmd[p], sent, secs) /\ cmd[p].step = "load"
    BY DEF BkTyped, LoadVersions
<1>1. CASE verDb = Torn
    BY <1>1, EndCmd DEF LoadVersions, Err
<1>2. CASE verDb # Torn
  <2>1. OrderedStore(verDb, secs)
    BY <1>2 DEF BkTyped
  <2>2. PICK db \in VerStores : db = verDb
    BY <2>1 DEF OrderedStore
  <2>3. cmd[p].op # "backup"
    BY <1>0 DEF PlaceOK
  <2>4. cmd' = [cmd EXCEPT ![p].db = db, ![p].step = "loaded"] /\ UNCHANGED <<disk, metaDb, verDb, kept, secs, bkPast, count, calm>>
    BY <1>2, <2>2 DEF LoadVersions
  <2> QED
    BY <2>1, <2>2, <2>3, <2>4, StoreTyped DEF BkStep
<1> QED
    BY <1>1, <1>2

\* A snapshot goes in front, and is the newest.
LEMMA SnapshotOrdered ==
    ASSUME NEW db, NEW at \in 0..MaxSecs, OrderedStore(db, at), NEW f \in File, NEW d \in BkData,
           NEW new, new = [db EXCEPT ![f] = <<[secs |-> at, seq |-> 0, data |-> d]>> \o @]
    PROVE  OrderedStore(new, at)
<1>0. at \in Nat /\ db \in [File -> Seq(Version)]
    BY BkConstants DEF OrderedStore, VerStores
<1>1. PICK v \in Version : v = [secs |-> at, seq |-> 0, data |-> d]
    BY DEF Version
<1>2. PICK l \in Seq(Version) : l = db[f]
    BY <1>0
<1>3. new = [db EXCEPT ![f] = <<v>> \o l]
    BY <1>1, <1>2
<1>4. PICK n \in Seq(Version) : n = <<v>> \o l
  <2>1. <<v>> \in Seq(Version)
    BY <1>1
  <2> QED
    BY <2>1, ConcatProperties
<1>5. Len(n) = Len(l) + 1 /\ n[1] = v /\ \A k \in 1..Len(l) : n[k + 1] = l[k]
    BY <1>1, <1>2, <1>4, ConcatProperties
<1>6. Ordered(l, at)
    BY <1>2 DEF OrderedStore
<1>7. \A w \in Version : w.secs \in Nat
    BY BkConstants DEF Version
<1>8. Ordered(n, at)
  <2>1. Len(l) \in Nat /\ \A k \in 1..Len(l) : l[k].secs \in Nat /\ l[k].secs <= at
    BY <1>2, <1>6, <1>7 DEF Ordered
  <2>2. ASSUME NEW k \in 1..Len(n) PROVE n[k].secs <= at
    <3>1. CASE k = 1
      BY <1>0, <1>1, <1>5, <3>1
    <3>2. CASE k # 1
      <4>1. PICK j \in 1..Len(l) : k = j + 1
        <5>1. k - 1 \in 1..Len(l) /\ k = (k - 1) + 1
          BY <1>5, <2>1, <3>2
        <5> QED
          BY <5>1
      <4> QED
        BY <1>5, <2>1, <4>1
    <3> QED
      BY <3>1, <3>2
  <2>3. ASSUME NEW k \in 1..Len(n) - 1 PROVE n[k].secs >= n[k + 1].secs
    <3>0. k \in 1..Len(l)
      BY <1>5, <2>1
    <3>1. CASE k = 1
      <4>1. n[1].secs = at /\ n[2] = l[1]
        BY <1>1, <1>5, <3>0, <3>1
      <4> QED
        BY <1>0, <2>1, <3>0, <3>1, <4>1
    <3>2. CASE k # 1
      <4>1. PICK j \in 1..Len(l) - 1 : k = j + 1
        <5>1. k - 1 \in 1..Len(l) - 1 /\ k = (k - 1) + 1
          BY <2>1, <3>0, <3>2
        <5> QED
          BY <5>1
      <4>2. j \in 1..Len(l) /\ j + 1 \in 1..Len(l)
        BY <2>1, <4>1
      <4>3. n[k] = l[j] /\ n[k + 1] = l[j + 1]
        BY <1>5, <3>0, <4>1, <4>2
      <4> QED
        BY <1>6, <4>1, <4>3 DEF Ordered
    <3> QED
      BY <3>1, <3>2
  <2> QED
    BY <2>2, <2>3 DEF Ordered
<1>9. new \in VerStores /\ new[f] = n /\ \A g \in File : g # f => new[g] = db[g]
    BY <1>0, <1>3, <1>4 DEF VerStores
<1> QED
    BY <1>8, <1>9 DEF OrderedStore

\* An increment puts its snapshot in front.
LEMMA CreateSnapshotTyped == ASSUME BkTyped, NEW p \in Proc, CreateSnapshot(p) PROVE BkTyped'
<1>0. cmd[p].op = "increment" /\ cmd[p].step = "loaded" /\ PlaceOK(cmd[p], sent, secs) /\ secs \in 0..MaxSecs
    BY DEF BkTyped, CreateSnapshot
<1>1. cmd[p].file \in File /\ cmd[p].data \in BkData /\ OrderedStore(cmd[p].db, secs)
    BY <1>0 DEF PlaceOK
<1>2. PICK db : db = Snapshot(cmd[p].db, cmd[p].file, cmd[p].data)
    OBVIOUS
<1>3. OrderedStore(db, secs)
    BY <1>0, <1>1, <1>2, SnapshotOrdered DEF Snapshot
<1>4. db \in VerStores
    BY <1>3 DEF OrderedStore
<1>5. cmd' = [cmd EXCEPT ![p].db = db, ![p].step = "truncate"] /\ UNCHANGED <<disk, metaDb, verDb, kept, secs, bkPast, count, calm>>
    BY <1>2 DEF CreateSnapshot
<1> QED
    BY <1>0, <1>3, <1>4, <1>5, StoreTyped DEF BkStep

\* A prune hangs or writes back.
LEMMA PruneTyped == ASSUME BkTyped, NEW p \in Proc, Prune(p) PROVE BkTyped'
<1>0. cmd[p] \in Cmds /\ cmd[p].op = "prune" /\ cmd[p].step = "loaded" /\ PlaceOK(cmd[p], sent, secs)
    BY DEF BkTyped, Prune
<1>1. PICK s \in {"hung", "truncate"} : Become(p, s)
    BY DEF Prune
<1>2. PlaceOK([cmd[p] EXCEPT !.step = s], sent, secs)
  <2>1. PICK k : k = [cmd[p] EXCEPT !.step = s]
    OBVIOUS
  <2>2. k.op = "prune" /\ k.step = s /\ k.db = cmd[p].db
    BY <1>0, <2>1 DEF Cmds
  <2>3. PlaceOK(k, sent, secs)
    BY <1>0, <2>2 DEF PlaceOK, Writing
  <2> QED
    BY <2>1, <2>3
<1> QED
    BY <1>1, <1>2, StepTyped DEF BkStep, Prune

\* gc and stats count blocks.
LEMMA LoadMetadataTyped == ASSUME BkTyped, NEW p \in Proc, LoadMetadata(p) PROVE BkTyped'
<1>0. /\ cmd \in [Proc -> Cmds] /\ cmd[p].op \in {"gc", "stats"} /\ cmd[p].step = "loaded" /\ PlaceOK(cmd[p], sent, secs)
      /\ count \in 0..MaxCommands /\ calm \in BOOLEAN
    BY DEF BkTyped, LoadMetadata
<1>1. CASE metaDb = Torn
    BY <1>1, EndCmd DEF LoadMetadata, Err
<1>2. CASE metaDb # Torn
  <2>1. metaDb \in MetaStores /\ cmd[p].db \in VerStores
    BY <1>0, <1>2 DEF BkTyped, PlaceOK, OrderedStore
  <2>2. PICK r \in SUBSET Seq(Nat) : r = IF cmd[p].op = "gc" THEN Collect(cmd[p].db, metaDb) ELSE {}
    BY <2>1, ReportBounds
  <2>3. PICK u \in Int : u = IF cmd[p].op = "gc" THEN Cardinality(r) ELSE StorageStats(cmd[p].db, metaDb)
    BY <2>1, <2>2, ReportBounds
  <2>4. PICK c \in Cmds : c = cmd[p]
    BY <1>0
  <2>5. PICK k \in Cmds : k = [c EXCEPT !.refs = r, !.step = "report", !.unused = u]
    BY CmdFields DEF BkStep
  <2>6. k.op = c.op /\ k.step = "report"
    BY <2>5 DEF Cmds
  <2>7. cmd' = [cmd EXCEPT ![p] = k]
    BY <1>0, <1>2, <2>2, <2>3, <2>4, <2>5 DEF LoadMetadata, Cmds
  <2>8. PlaceOK(k, sent, secs)
    BY <1>0, <2>4, <2>6 DEF PlaceOK, Writing
  <2> QED
    BY <1>0, <1>2, <2>7, <2>8, MoveCmd DEF LoadMetadata
<1> QED
    BY <1>1, <1>2

\* The stores are written.
LEMMA TruncateTyped == ASSUME BkTyped, NEW p \in Proc, Truncate(p) PROVE BkTyped'
<1>0. /\ cmd \in [Proc -> Cmds] /\ cmd[p].step \in {"truncate", "again"} /\ PlaceOK(cmd[p], sent, secs)
      /\ secs \in Nat
    BY BkConstants DEF BkTyped, Truncate
<1>1. PICK s \in {"fill", "refill"} : Become(p, s)
    BY DEF Truncate
<1>2. PICK k \in Cmds : k = [cmd[p] EXCEPT !.step = s]
    BY <1>0, CmdFields DEF BkStep
<1>3. cmd' = [cmd EXCEPT ![p] = k] /\ sent' = sent /\ secs' = secs /\ UNCHANGED <<disk, kept, count, calm, restored, backups>>
    BY <1>0, <1>1, <1>2 DEF Become, Truncate, bkPast
<1>4. PlaceOK(k, sent, secs)
  <2>1. k.op = cmd[p].op /\ k.step = s /\ k.file = cmd[p].file /\ k.data = cmd[p].data /\ k.db = cmd[p].db
    BY <1>0, <1>2 DEF Cmds
  <2> QED
    BY <1>0, <2>1 DEF PlaceOK, Writing
<1>5. cmd' \in [Proc -> Cmds] /\ \A q \in Proc : PlaceOK(cmd'[q], sent', secs')
    BY <1>3, <1>4, CmdMoves
<1>6. metaDb' \in MetaStores \cup {Torn}
  <2>1. NoEntries \in MetaStores
    BY DEF NoEntries, MetaStores
  <2> QED
    BY <2>1 DEF BkTyped, Truncate
<1>7. verDb' = Torn \/ OrderedStore(verDb', secs')
  <2>1. <<>> \in Seq(Version) /\ 1..Len(<<>>) = {} /\ 1..Len(<<>>) - 1 = {}
    OBVIOUS
  <2>2. NoVersions \in VerStores /\ \A f \in File : NoVersions[f] = <<>>
    BY <2>1 DEF NoVersions, VerStores
  <2>3. OrderedStore(NoVersions, secs)
    BY <2>1, <2>2 DEF OrderedStore, Ordered
  <2>4. verDb' \in {NoVersions, Torn} \/ verDb' = verDb
    BY DEF Truncate
  <2> QED
    BY <1>3, <2>3, <2>4 DEF BkTyped
<1> QED
    BY <1>3, <1>5, <1>6, <1>7 DEF BkTyped

\* A backup registers its file.
LEMMA FillMetadataTyped == ASSUME BkTyped, NEW p \in Proc, FillMetadata(p) PROVE BkTyped'
<1>0. cmd[p].op = "backup" /\ cmd[p].step = "fill" /\ PlaceOK(cmd[p], sent, secs) /\ backups \in Seq(File \X BkData)
    BY DEF BkTyped, FillMetadata
<1>1. cmd[p].db \in MetaStores /\ cmd[p].file \in File /\ cmd[p].data \in BkData
    BY <1>0 DEF PlaceOK, Writing
<1>2. metaDb' \in MetaStores /\ backups' \in Seq(File \X BkData)
    BY <1>0, <1>1 DEF FillMetadata
<1>3. UNCHANGED <<disk, verDb, kept, secs, count, sent, restored, acked, calm>> /\ End(p)
    BY DEF FillMetadata
<1>4. cmd' \in [Proc -> Cmds] /\ \A q \in Proc : PlaceOK(cmd'[q], sent', secs')
    BY <1>3, IdleCmdType, CmdMoves DEF End
<1> QED
    BY <1>2, <1>3, <1>4 DEF BkTyped

\* An increment that goes on to save again, and a command that ends.
LEMMA AgainOrEnd ==
    ASSUME BkTyped, NEW p \in Proc, (cmd[p].op = "increment" /\ cmd[p].step = "fill" /\ Become(p, "again")) \/ End(p), UNCHANGED <<secs, sent>>
    PROVE  cmd' \in [Proc -> Cmds] /\ \A q \in Proc : PlaceOK(cmd'[q], sent', secs')
<1>0. cmd \in [Proc -> Cmds] /\ PlaceOK(cmd[p], sent, secs)
    BY DEF BkTyped
<1>1. CASE End(p)
    BY <1>1, IdleCmdType, CmdMoves DEF End
<1>2. CASE cmd[p].op = "increment" /\ cmd[p].step = "fill" /\ Become(p, "again")
  <2>1. PICK k \in Cmds : k = [cmd[p] EXCEPT !.step = "again"]
    BY <1>0, CmdFields DEF BkStep
  <2>2. k.op = cmd[p].op /\ k.step = "again" /\ k.file = cmd[p].file /\ k.data = cmd[p].data /\ k.db = cmd[p].db
    BY <1>0, <2>1 DEF Cmds
  <2>3. PlaceOK(k, sent, secs)
    BY <1>0, <1>2, <2>2 DEF PlaceOK, Writing
  <2>4. cmd' = [cmd EXCEPT ![p] = k]
    BY <1>0, <1>2, <2>1 DEF Become
  <2> QED
    BY <2>3, <2>4, CmdMoves
<1> QED
    BY <1>1, <1>2

\* An increment or a prune fills the version store.
LEMMA FillVersionsTyped == ASSUME BkTyped, NEW p \in Proc, FillVersions(p) PROVE BkTyped'
<1>0. PlaceOK(cmd[p], sent, secs) /\ cmd[p].step \in {"fill", "refill"} /\ cmd[p].op \in {"increment", "prune"}
    BY DEF BkTyped, FillVersions
<1>1. OrderedStore(cmd[p].db, secs)
    BY <1>0 DEF PlaceOK, Writing
<1>2. UNCHANGED <<disk, metaDb, kept, secs, count, sent, restored, backups, calm>> /\ verDb' = cmd[p].db
    BY DEF FillVersions
<1>3. (cmd[p].op = "increment" /\ cmd[p].step = "fill" /\ Become(p, "again")) \/ End(p)
    BY DEF FillVersions
<1>4. cmd' \in [Proc -> Cmds] /\ \A q \in Proc : PlaceOK(cmd'[q], sent', secs')
    BY <1>2, <1>3, AgainOrEnd
<1> QED
    BY <1>1, <1>2, <1>4 DEF BkTyped

\* A write fails.
LEMMA WriteFailsTyped == ASSUME BkTyped, NEW p \in Proc, WriteFails(p) PROVE BkTyped'
<1>0. PlaceOK(cmd[p], sent, secs) /\ backups \in Seq(File \X BkData)
    BY DEF BkTyped
<1>1. UNCHANGED <<disk, metaDb, verDb, kept, secs, count, sent, restored, acked>> /\ calm' = FALSE
    BY DEF WriteFails
<1>2. (cmd[p].op = "increment" /\ cmd[p].step = "fill" /\ Become(p, "again")) \/ End(p)
    BY DEF WriteFails
<1>3. cmd' \in [Proc -> Cmds] /\ \A q \in Proc : PlaceOK(cmd'[q], sent', secs')
    BY <1>1, <1>2, AgainOrEnd
<1>4. backups' \in Seq(File \X BkData)
  <2>1. CASE cmd[p].op = "backup"
    <3>1. cmd[p].file \in File /\ cmd[p].data \in BkData
      BY <1>0, <2>1 DEF PlaceOK
    <3>2. backups' = Append(backups, <<cmd[p].file, cmd[p].data>>)
      BY <2>1 DEF WriteFails
    <3> QED
      BY <1>0, <3>1, <3>2
  <2>2. CASE cmd[p].op # "backup"
    BY <1>0, <2>2 DEF WriteFails
  <2> QED
    BY <2>1, <2>2
<1> QED
    BY <1>1, <1>3, <1>4 DEF BkTyped

----------------------------------------------------------------------------
(* Restoring. *)

\* The manifest a restore is given was sent.
LEMMA RestoreMetaTyped == ASSUME BkTyped, NEW p \in Proc, RestoreMeta(p) PROVE BkTyped'
<1>0. /\ cmd \in [Proc -> Cmds] /\ kept \in [File -> Remote] /\ PlaceOK(cmd[p], sent, secs) /\ cmd[p].step = "meta"
      /\ count \in 0..MaxCommands /\ calm \in BOOLEAN
    BY DEF BkTyped, RestoreMeta
<1>1. cmd[p].op = "restore" /\ cmd[p].file \in File
    BY <1>0 DEF PlaceOK
<1>2. PICK d \in BkData : d = kept[cmd[p].file].manifest
    BY <1>0, <1>1 DEF RestoreMeta, Remote
<1>3. <<cmd[p].file, d>> \in sent
    BY <1>1, <1>2 DEF BkTyped, RestoreMeta
<1>4. PICK c \in Cmds : c = cmd[p]
    BY <1>0
<1>5. PICK k \in Cmds : k = [c EXCEPT !.data = d, !.step = "chunks"]
    BY CmdFields DEF BkStep
<1>6. k.op = c.op /\ k.step = "chunks" /\ k.file = c.file /\ k.data = d
    BY <1>5 DEF Cmds
<1>7. cmd' = [cmd EXCEPT ![p] = k]
    BY <1>0, <1>2, <1>4, <1>5 DEF RestoreMeta, Cmds
<1>8. PlaceOK(k, sent, secs)
    BY <1>1, <1>3, <1>4, <1>6 DEF PlaceOK, Writing
<1> QED
    BY <1>0, <1>7, <1>8, MoveCmd DEF RestoreMeta

\* A restore is given any chunk.
LEMMA RestoreChunkTyped == ASSUME BkTyped, NEW p \in Proc, RestoreChunk(p) PROVE BkTyped'
<1>0. /\ cmd \in [Proc -> Cmds] /\ kept \in [File -> Remote] /\ PlaceOK(cmd[p], sent, secs) /\ cmd[p].step = "chunks"
      /\ count \in 0..MaxCommands /\ calm \in BOOLEAN
    BY DEF BkTyped, RestoreChunk
<1>1. cmd[p].op = "restore" /\ cmd[p].file \in File
    BY <1>0 DEF PlaceOK
<1>2. PICK i \in ChunkIndex : cmd' = [cmd EXCEPT ![p].got = Append(@, kept[cmd[p].file].chunks[i])]
    BY DEF RestoreChunk
<1>3. PICK b \in KeptChunk : b = kept[cmd[p].file].chunks[i]
    BY <1>0, <1>1 DEF Remote
<1>4. PICK c \in Cmds : c = cmd[p]
    BY <1>0
<1>5. PICK g \in Seq(Nat \cup KeptChunk) : g = Append(c.got, b)
  <2>1. c.got \in Seq(Nat \cup KeptChunk) /\ b \in Nat \cup KeptChunk
    BY DEF Cmds
  <2> QED
    BY <2>1, AppendProperties
<1>6. PICK k \in Cmds : k = [c EXCEPT !.got = g]
    BY CmdFields
<1>7. k.op = c.op /\ k.step = c.step /\ k.file = c.file /\ k.data = c.data /\ k.db = c.db
    BY <1>6 DEF Cmds
<1>8. cmd' = [cmd EXCEPT ![p] = k]
    BY <1>0, <1>2, <1>3, <1>4, <1>5, <1>6
<1>9. PlaceOK(k, sent, secs)
    BY <1>0, <1>4, <1>7 DEF PlaceOK
<1> QED
    BY <1>0, <1>8, <1>9, MoveCmd DEF RestoreChunk

\* What was reassembled is the file of the manifest, which was sent.
LEMMA RestoreWriteTyped == ASSUME BkTyped, NEW p \in Proc, RestoreWrite(p) PROVE BkTyped'
<1>0. /\ cmd[p] \in Cmds /\ PlaceOK(cmd[p], sent, secs) /\ cmd[p].step = "chunks" /\ disk \in [File -> BkData]
      /\ restored \subseteq sent
    BY DEF BkTyped, RestoreWrite
<1>1. cmd[p].op = "restore" /\ cmd[p].file \in File /\ cmd[p].data \in BkData /\ <<cmd[p].file, cmd[p].data>> \in sent
    BY <1>0 DEF PlaceOK
<1>2. CASE Reassemble(Manifest(cmd[p].data), cmd[p].got)
  <2>1. FlattenSeq(cmd[p].got) = cmd[p].data
    BY <1>2 DEF Reassemble, Manifest
  <2>2. /\ disk' = [disk EXCEPT ![cmd[p].file] = FlattenSeq(cmd[p].got)] /\ restored' = restored \cup {<<cmd[p].file, FlattenSeq(cmd[p].got)>>}
        /\ End(p) /\ UNCHANGED <<metaDb, verDb, kept, secs, count, sent, acked, backups, calm>>
    BY <1>2 DEF RestoreWrite
  <2>3. disk' \in [File -> BkData] /\ restored' \subseteq sent'
    BY <1>0, <1>1, <2>1, <2>2
  <2>4. cmd' \in [Proc -> Cmds] /\ \A q \in Proc : PlaceOK(cmd'[q], sent', secs')
    BY <2>2, IdleCmdType, CmdMoves DEF End
  <2> QED
    BY <2>2, <2>3, <2>4 DEF BkTyped
<1>3. CASE ~Reassemble(Manifest(cmd[p].data), cmd[p].got)
    BY <1>3, EndCmd DEF RestoreWrite, Err, bkPast
<1> QED
    BY <1>2, <1>3

\* A user edits a file.
LEMMA EditFileTyped == ASSUME BkTyped, NEW f \in File, EditFile(f) PROVE BkTyped'
<1>1. disk' \in [File -> BkData]
    BY DEF BkTyped, EditFile
<1>2. count' \in 0..MaxCommands
  <2>1. count \in 0..MaxCommands /\ count < MaxCommands /\ count' = count + 1
    BY DEF BkTyped, EditFile
  <2> QED
    BY <2>1, BkConstants
<1> QED
    BY <1>1, <1>2 DEF BkTyped, EditFile, bkPast

\* The clock moves on.
LEMMA SecondTyped == ASSUME BkTyped, Second PROVE BkTyped'
<1>0. secs \in 0..MaxSecs /\ secs < MaxSecs /\ secs' = secs + 1
    BY DEF BkTyped, Second
<1>1. secs \in Nat /\ secs' \in Nat /\ secs <= secs' /\ secs' \in 0..MaxSecs
    BY <1>0, BkConstants
<1>2. UNCHANGED <<disk, metaDb, verDb, kept, cmd, count, calm, sent, restored, backups>>
    BY DEF Second, bkPast
<1>3. verDb' = Torn \/ OrderedStore(verDb', secs')
  <2>1. verDb = Torn \/ OrderedStore(verDb, secs)
    BY DEF BkTyped
  <2>2. PICK t \in Nat : t = secs'
    BY <1>1
  <2>3. verDb = Torn \/ OrderedStore(verDb, t)
    BY <1>1, <2>1, <2>2, StillOrdered
  <2> QED
    BY <1>2, <2>2, <2>3
<1>4. ASSUME NEW q \in Proc PROVE PlaceOK(cmd'[q], sent', secs')
  <2>1. PlaceOK(cmd[q], sent, secs)
    BY DEF BkTyped
  <2>2. PICK t \in Nat : t = secs'
    BY <1>1
  <2>3. PlaceOK(cmd[q], sent, t)
    BY <1>1, <2>1, <2>2, StillPlaced
  <2> QED
    BY <1>2, <2>2, <2>3
<1> QED
    BY <1>1, <1>2, <1>3, <1>4 DEF BkTyped

\* Every step keeps it.
LEMMA BkTypedStep == ASSUME BkTyped, [BkNext]_bkVars PROVE BkTyped'
<1>1. CASE UNCHANGED bkVars
    BY <1>1 DEF BkTyped, bkVars
<1>2. ASSUME NEW p \in Proc, Works(p) PROVE BkTyped'
    BY <1>2, ChunksSentTyped, ManifestsTyped, LoadVersionsTyped, EndsTyped, CreateSnapshotTyped, PruneTyped, LoadMetadataTyped,
       TruncateTyped, FillMetadataTyped, FillVersionsTyped, RestoreMetaTyped, RestoreChunkTyped, RestoreWriteTyped DEF Works
<1>3. ASSUME NEW p \in Proc, Commands(p) \/ SendFails(p) \/ WriteFails(p) \/ Die(p) PROVE BkTyped'
    BY <1>3, CommandsTyped, EndsTyped, WriteFailsTyped
<1>4. ASSUME NEW f \in File, EditFile(f) PROVE BkTyped'
    BY <1>4, EditFileTyped
<1>5. CASE Second
    BY <1>5, SecondTyped
<1> QED
    BY <1>1, <1>2, <1>3, <1>4, <1>5 DEF BkNext

\* It implies the type invariant of the runs, and two of the properties.
LEMMA BkTypedTypes == ASSUME BkTyped PROVE BkTypeOK /\ RestoredWasSent /\ NewestFirst
<1>1. DOMAIN disk = File /\ \A p \in Proc : cmd[p].op \in BkOp
    BY DEF BkTyped, Cmds
<1>2. ASSUME verDb # Torn, NEW f \in File
      PROVE (\A k \in 1..Len(verDb[f]) : verDb[f][k] \in Version) /\ \A k \in 1..Len(verDb[f]) - 1 : verDb[f][k].secs >= verDb[f][k + 1].secs
  <2>1. verDb[f] \in Seq(Version) /\ Ordered(verDb[f], secs)
    BY <1>2 DEF BkTyped, OrderedStore, VerStores
  <2> QED
    BY <2>1 DEF Ordered
<1>3. BkTypeOK
    BY <1>1, <1>2 DEF BkTypeOK, BkTyped, MetaStores, Remote, KeptChunk
<1>4. NewestFirst
    BY <1>2 DEF NewestFirst
<1>5. RestoredWasSent
    BY DEF BkTyped, RestoredWasSent
<1> QED
    BY <1>3, <1>4, <1>5

\* A restore that reports success wrote a content of that file that was sent as
\* a whole: the hash of the manifest rejects every mixture and every encrypted
\* chunk, whatever chunks the remote node answers with.
THEOREM RestoresAreWhole == BkSpec => []RestoredWasSent
<1>1. BkInit => BkTyped
    BY BkTypedInit
<1>2. BkTyped /\ [BkNext]_bkVars => BkTyped'
    BY BkTypedStep
<1>3. BkTyped => RestoredWasSent
    BY BkTypedTypes
<1> QED
    BY <1>1, <1>2, <1>3, PTL DEF BkSpec

----------------------------------------------------------------------------
(* The stores of one command at a time. *)

Midway == {"fill", "again", "refill"}
LastKept(ms, done) == done # <<>> => ms[Last(done)[1]] = Last(done)[2]

\* What the command that runs alone finds and holds: vs and ms are the stores,
\* ack and done the versions and backups that were reported.
CalmAt(c, vs, ms, ack, done) ==
    /\ (c.op \in {"increment", "prune"} /\ c.step \in Midway) \/ vs = ack
    /\ (c.op = "backup" /\ c.step \in Midway) \/ LastKept(ms, done)
    /\ c.step \in Writing => c.op \in {"backup", "increment", "prune"}
    /\ c.step = "loaded" => c.db = vs
    /\ c.op = "increment" /\ c.step \in Writing => c.db = [ack EXCEPT ![c.file] = <<Head(c.db[c.file])>> \o @]
    /\ c.op = "prune" /\ c.step \in Writing => c.db = ack
    /\ c.op = "backup" /\ c.step \in Writing => c.db[c.file] = c.data
    /\ c.step = "report" => /\ c.refs \cap Referenced(vs) = {}
                            /\ c.unused <= Cardinality(AllBlocks(ms) \ Referenced(vs))

OneAtATime ==
    calm => /\ \A p, q \in Proc : Busy(p) /\ Busy(q) => p = q
            /\ \A p \in Proc : Busy(p) => CalmAt(cmd[p], verDb, metaDb, acked, backups)
            /\ (\A p \in Proc : ~Busy(p)) => verDb = acked /\ LastKept(metaDb, backups)

\* It holds at first.
LEMMA AloneInit == BkInit => OneAtATime
BY DEF BkInit, OneAtATime, Busy, IdleCmd, LastKept

\* Busy for a command that is not that of a process.
AtWork(c) == c.step \notin {"idle", "hung"}

\* The one that runs moves on, or comes to an end: the others are not looked at.
LEMMA AloneMoves ==
    ASSUME BkTyped, OneAtATime, NEW p \in Proc, Busy(p), NEW c, cmd' = [cmd EXCEPT ![p] = c], calm' => calm,
           calm' /\ AtWork(c) => CalmAt(c, verDb', metaDb', acked', backups'),
           calm' /\ ~AtWork(c) => verDb' = acked' /\ LastKept(metaDb', backups')
    PROVE  OneAtATime'
<1> SUFFICES ASSUME calm' PROVE OneAtATime'
    BY DEF OneAtATime
<1>0. cmd \in [Proc -> Cmds] /\ calm
    BY DEF BkTyped
<1>1. \A q \in Proc : q # p => ~Busy(q)
    BY <1>0 DEF OneAtATime
<1>2. cmd'[p] = c /\ \A q \in Proc : q # p => cmd'[q] = cmd[q]
    BY <1>0
<1>3. \A q \in Proc : Busy(q)' => q = p /\ AtWork(c)
  <2> TAKE q \in Proc
  <2>1. CASE q = p
    BY <1>2, <2>1 DEF Busy, AtWork
  <2>2. CASE q # p
    BY <1>1, <1>2, <2>2 DEF Busy
  <2> QED
    BY <2>1, <2>2
<1>4. AtWork(c) => Busy(p)'
    BY <1>2 DEF Busy, AtWork
<1>5. \A q \in Proc : Busy(q)' => CalmAt(cmd'[q], verDb', metaDb', acked', backups')
    BY <1>2, <1>3
<1>6. (\A q \in Proc : ~Busy(q)') => verDb' = acked' /\ LastKept(metaDb', backups')
    BY <1>4
<1>7. \A q, r \in Proc : Busy(q)' /\ Busy(r)' => q = r
    BY <1>3
<1> QED
    BY <1>5, <1>6, <1>7 DEF OneAtATime, Busy, CalmAt, LastKept

\* An end that is not in the middle of a write.
LEMMA AloneEnds ==
    ASSUME BkTyped, OneAtATime, NEW p \in Proc, Busy(p), End(p), calm' => calm /\ cmd[p].step \notin Midway,
           UNCHANGED <<verDb, metaDb, acked, backups>>
    PROVE  OneAtATime'
<1>1. PICK c : c = IdleCmd
    OBVIOUS
<1>2. ~AtWork(c)
    BY <1>1, IdleCmdType DEF AtWork
<1>3. calm' => CalmAt(cmd[p], verDb, metaDb, acked, backups)
    BY DEF OneAtATime
<1>4. calm' => verDb' = acked' /\ LastKept(metaDb', backups')
    BY <1>3 DEF CalmAt, LastKept
<1>5. cmd' = [cmd EXCEPT ![p] = c]
    BY <1>1 DEF End
<1> QED
    BY <1>2, <1>4, <1>5, AloneMoves

\* The steps of the command leave the stores alone until it writes.
LEMMA AloneReads ==
    ASSUME BkTyped, OneAtATime, NEW p \in Proc, Busy(p), NEW c, cmd' = [cmd EXCEPT ![p] = c], calm' => calm, AtWork(c),
           UNCHANGED <<verDb, metaDb, acked, backups>>,
           CalmAt(cmd[p], verDb, metaDb, acked, backups) => CalmAt(c, verDb, metaDb, acked, backups)
    PROVE  OneAtATime'
<1>1. calm' => CalmAt(c, verDb', metaDb', acked', backups')
    BY DEF OneAtATime, CalmAt, LastKept
<1> QED
    BY <1>1, AloneMoves

\* Commands that end without writing.
LEMMA AloneEnding ==
    ASSUME BkTyped, OneAtATime, NEW p \in Proc, SendFails(p) \/ ShowVersions(p) \/ Report(p) \/ RestoreTimeout(p)
    PROVE  OneAtATime'
<1>1. Busy(p) /\ End(p) /\ UNCHANGED <<verDb, metaDb, acked, backups>> /\ (calm' => calm /\ cmd[p].step \notin Midway)
    BY DEF SendFails, ShowVersions, Report, RestoreTimeout, Err, Busy, bkPast, Midway
<1> QED
    BY <1>1, AloneEnds

\* What happens when something failed or died, or two commands overlap, is not looked at.
LEMMA NotCalm == ASSUME ~calm' PROVE OneAtATime'
BY DEF OneAtATime

\* A command that starts alone finds what was reported.
LEMMA AloneStarts ==
    ASSUME BkTyped, OneAtATime, NEW p \in Proc, NEW op, NEW first \in {"send", "meta", "load"}, NEW f, Start(p, op, first, f)
    PROVE  OneAtATime'
<1> SUFFICES ASSUME calm' PROVE OneAtATime'
    BY DEF OneAtATime
<1>0. cmd \in [Proc -> Cmds] /\ calm /\ \A q \in Proc : ~Busy(q)
    BY DEF BkTyped, Start
<1>1. PICK c : cmd' = [cmd EXCEPT ![p] = c] /\ c.step = first
  <2>1. PICK c : c = [IdleCmd EXCEPT !.op = op, !.step = first, !.file = f, !.data = IF first = "send" THEN disk[f] ELSE None]
    OBVIOUS
  <2>2. c.step = first
    BY <2>1 DEF IdleCmd
  <2>3. cmd' = [cmd EXCEPT ![p] = c]
    BY <2>1 DEF Start
  <2> QED
    BY <2>2, <2>3
<1>2. UNCHANGED <<verDb, metaDb, acked, backups>>
    BY DEF Start, bkPast
<1>3. verDb = acked /\ LastKept(metaDb, backups)
    BY <1>0 DEF OneAtATime
<1>4. CalmAt(c, verDb, metaDb, acked, backups)
    BY <1>1, <1>3 DEF CalmAt, Writing
<1>5. cmd'[p] = c /\ \A q \in Proc : q # p => cmd'[q] = cmd[q]
    BY <1>0, <1>1
<1>6. \A q \in Proc : Busy(q)' => q = p
    BY <1>0, <1>5 DEF Busy
<1>7. \A q \in Proc : Busy(q)' => CalmAt(cmd'[q], verDb', metaDb', acked', backups')
    BY <1>2, <1>4, <1>5, <1>6 DEF CalmAt, LastKept
<1>8. verDb' = acked' /\ LastKept(metaDb', backups')
    BY <1>2, <1>3 DEF LastKept
<1> QED
    BY <1>6, <1>7, <1>8 DEF OneAtATime, Busy, CalmAt, LastKept

\* Every command starts so.
LEMMA AloneCommands == ASSUME BkTyped, OneAtATime, NEW p \in Proc, Commands(p) PROVE OneAtATime'
BY AloneStarts DEF Commands

\* Chunks that are sent or received.
LEMMA AloneSends ==
    ASSUME BkTyped, OneAtATime, NEW p \in Proc, BackupChunk(p) \/ IncrementBlock(p) \/ RestoreChunk(p) PROVE OneAtATime'
<1>0. cmd \in [Proc -> Cmds]
    BY DEF BkTyped
<1>1. PICK g : cmd' = [cmd EXCEPT ![p].got = g]
    BY <1>0 DEF BackupChunk, IncrementBlock, SendChunk, RestoreChunk
<1>2. PICK c : c = [cmd[p] EXCEPT !.got = g]
    OBVIOUS
<1>3. cmd[p].step \in {"send", "chunks"} /\ UNCHANGED <<verDb, metaDb, acked, backups, calm>>
    BY DEF BackupChunk, IncrementBlock, SendChunk, RestoreChunk, bkPast
<1>4. c.op = cmd[p].op /\ c.step = cmd[p].step
    BY <1>0, <1>2 DEF Cmds
<1>5. CalmAt(cmd[p], verDb, metaDb, acked, backups) => CalmAt(c, verDb, metaDb, acked, backups)
    BY <1>3, <1>4 DEF CalmAt, Writing, Midway
<1>6. cmd' = [cmd EXCEPT ![p] = c] /\ Busy(p) /\ AtWork(c)
    BY <1>0, <1>1, <1>2, <1>3, <1>4 DEF Busy, AtWork
<1> QED
    BY <1>3, <1>5, <1>6, AloneReads

\* Manifests that are sent or received.
LEMMA AloneManifests ==
    ASSUME BkTyped, OneAtATime, NEW p \in Proc, BackupMeta(p) \/ IncrementManifest(p) \/ RestoreMeta(p) PROVE OneAtATime'
<1>0. cmd \in [Proc -> Cmds] /\ PlaceOK(cmd[p], sent, secs)
    BY DEF BkTyped
<1>1. CASE RestoreMeta(p)
  <2>1. PICK c : c = [cmd[p] EXCEPT !.data = kept[cmd[p].file].manifest, !.step = "chunks"]
    OBVIOUS
  <2>2. c.op = cmd[p].op /\ c.step = "chunks"
    BY <1>0, <2>1 DEF Cmds
  <2>3. cmd[p].step = "meta" /\ UNCHANGED <<verDb, metaDb, acked, backups, calm>> /\ cmd' = [cmd EXCEPT ![p] = c]
    BY <1>0, <1>1, <2>1 DEF RestoreMeta, bkPast
  <2>4. CalmAt(cmd[p], verDb, metaDb, acked, backups) => CalmAt(c, verDb, metaDb, acked, backups)
    BY <2>2, <2>3 DEF CalmAt, Writing, Midway
  <2> QED
    BY <2>2, <2>3, <2>4, AloneReads DEF Busy, AtWork
<1>2. CASE IncrementManifest(p)
  <2>1. PICK c : c = [cmd[p] EXCEPT !.step = "load", !.db = None]
    OBVIOUS
  <2>2. c.op = cmd[p].op /\ c.step = "load"
    BY <1>0, <2>1 DEF Cmds
  <2>3. cmd[p].step = "send" /\ UNCHANGED <<verDb, metaDb, acked, backups, calm>> /\ cmd' = [cmd EXCEPT ![p] = c]
    BY <1>0, <1>2, <2>1 DEF IncrementManifest, PutManifest
  <2>4. CalmAt(cmd[p], verDb, metaDb, acked, backups) => CalmAt(c, verDb, metaDb, acked, backups)
    BY <2>2, <2>3 DEF CalmAt, Writing, Midway
  <2> QED
    BY <2>2, <2>3, <2>4, AloneReads DEF Busy, AtWork
<1>3. CASE BackupMeta(p)
  <2>0. cmd[p].op = "backup" /\ cmd[p].file \in File
    BY <1>0, <1>3 DEF BackupMeta, PlaceOK
  <2>1. PICK db : db = [NoEntries EXCEPT ![cmd[p].file] = cmd[p].data]
    OBVIOUS
  <2>2. db[cmd[p].file] = cmd[p].data
    BY <2>0, <2>1 DEF NoEntries
  <2>3. PICK c : c = [cmd[p] EXCEPT !.step = "truncate", !.db = db]
    OBVIOUS
  <2>4. c.op = "backup" /\ c.step = "truncate" /\ c.file = cmd[p].file /\ c.data = cmd[p].data /\ c.db = db
    BY <1>0, <2>0, <2>3 DEF Cmds
  <2>5. cmd[p].step = "send" /\ UNCHANGED <<verDb, metaDb, acked, backups, calm>> /\ cmd' = [cmd EXCEPT ![p] = c]
    BY <1>0, <1>3, <2>1, <2>3 DEF BackupMeta, PutManifest
  <2>6. CalmAt(cmd[p], verDb, metaDb, acked, backups) => CalmAt(c, verDb, metaDb, acked, backups)
    BY <2>2, <2>4, <2>5 DEF CalmAt, Writing, Midway
  <2> QED
    BY <2>4, <2>5, <2>6, AloneReads DEF Busy, AtWork
<1> QED
    BY <1>1, <1>2, <1>3

\* The versions are loaded as they were reported.
LEMMA AloneLoads == ASSUME BkTyped, OneAtATime, NEW p \in Proc, LoadVersions(p) PROVE OneAtATime'
<1>0. cmd \in [Proc -> Cmds] /\ cmd[p].step = "load"
    BY DEF BkTyped, LoadVersions
<1>1. CASE verDb = Torn
    BY <1>1, NotCalm DEF LoadVersions, Err
<1>2. CASE verDb # Torn
  <2>1. PICK c : c = [cmd[p] EXCEPT !.step = "loaded", !.db = verDb]
    OBVIOUS
  <2>2. c.op = cmd[p].op /\ c.step = "loaded" /\ c.db = verDb
    BY <1>0, <2>1 DEF Cmds
  <2>3. UNCHANGED <<verDb, metaDb, acked, backups, calm>> /\ cmd' = [cmd EXCEPT ![p] = c]
    BY <1>0, <1>2, <2>1 DEF LoadVersions, bkPast, Cmds
  <2>4. CalmAt(cmd[p], verDb, metaDb, acked, backups) => CalmAt(c, verDb, metaDb, acked, backups)
    BY <1>0, <2>2 DEF CalmAt, Writing, Midway
  <2> QED
    BY <1>0, <2>2, <2>3, <2>4, AloneReads DEF Busy, AtWork
<1> QED
    BY <1>1, <1>2

\* The first of the versions is the snapshot.
LEMMA SnapshotHead ==
    ASSUME NEW db \in VerStores, NEW f \in File, NEW v \in Version, NEW new, new = [db EXCEPT ![f] = <<v>> \o @]
    PROVE  new = [db EXCEPT ![f] = <<Head(new[f])>> \o @]
<1>1. db[f] \in Seq(Version) /\ new[f] = <<v>> \o db[f]
    BY DEF VerStores
<1>2. PICK n : n = <<v>> \o db[f]
    OBVIOUS
<1>3. n \in Seq(Version) /\ Len(n) = 1 + Len(db[f]) /\ n[1] = v
  <2>1. <<v>> \in Seq(Version) /\ Len(<<v>>) = 1 /\ <<v>>[1] = v
    OBVIOUS
  <2> QED
    BY <1>1, <1>2, <2>1, ConcatProperties
<1>4. Head(n) = v
    BY <1>3
<1> QED
    BY <1>1, <1>2, <1>4

\* An increment is about to write what was reported and its own version.
LEMMA AloneSnapshots == ASSUME BkTyped, OneAtATime, NEW p \in Proc, CreateSnapshot(p) PROVE OneAtATime'
<1>0. /\ cmd \in [Proc -> Cmds] /\ PlaceOK(cmd[p], sent, secs) /\ cmd[p].op = "increment" /\ cmd[p].step = "loaded"
      /\ secs \in 0..MaxSecs
    BY DEF BkTyped, CreateSnapshot
<1>1. cmd[p].file \in File /\ cmd[p].data \in BkData /\ cmd[p].db \in VerStores
    BY <1>0 DEF PlaceOK, OrderedStore
<1>2. PICK db : db = Snapshot(cmd[p].db, cmd[p].file, cmd[p].data)
    OBVIOUS
<1>3. db = [cmd[p].db EXCEPT ![cmd[p].file] = <<Head(db[cmd[p].file])>> \o @]
  <2>1. PICK v \in Version : v = [secs |-> secs, seq |-> 0, data |-> cmd[p].data]
    BY <1>0, <1>1 DEF Version
  <2>2. db = [cmd[p].db EXCEPT ![cmd[p].file] = <<v>> \o @]
    BY <1>2, <2>1 DEF Snapshot
  <2>3. PICK old \in VerStores, f \in File : old = cmd[p].db /\ f = cmd[p].file
    BY <1>1
  <2>4. db = [old EXCEPT ![f] = <<v>> \o @]
    BY <2>2, <2>3
  <2>5. db = [old EXCEPT ![f] = <<Head(db[f])>> \o @]
    BY <2>4, SnapshotHead
  <2> QED
    BY <2>3, <2>5
<1>4. PICK c : c = [cmd[p] EXCEPT !.step = "truncate", !.db = db]
    OBVIOUS
<1>5. c.op = "increment" /\ c.step = "truncate" /\ c.file = cmd[p].file /\ c.db = db
    BY <1>0, <1>4 DEF Cmds
<1>6. UNCHANGED <<verDb, metaDb, acked, backups, calm>> /\ cmd' = [cmd EXCEPT ![p] = c]
    BY <1>0, <1>2, <1>4 DEF CreateSnapshot, bkPast, Cmds
<1>7. CalmAt(cmd[p], verDb, metaDb, acked, backups) => CalmAt(c, verDb, metaDb, acked, backups)
  <2> SUFFICES ASSUME CalmAt(cmd[p], verDb, metaDb, acked, backups) PROVE CalmAt(c, verDb, metaDb, acked, backups)
    OBVIOUS
  <2>1. verDb = acked /\ cmd[p].db = verDb /\ LastKept(metaDb, backups)
    BY <1>0 DEF CalmAt, Midway
  <2>2. c.db = [acked EXCEPT ![c.file] = <<Head(c.db[c.file])>> \o @]
    BY <1>3, <1>5, <2>1
  <2> QED
    BY <1>5, <2>1, <2>2 DEF CalmAt, Writing, Midway
<1> QED
    BY <1>0, <1>5, <1>6, <1>7, AloneReads DEF Busy, AtWork

\* A prune hangs, or is about to write what was reported.
LEMMA AlonePrunes == ASSUME BkTyped, OneAtATime, NEW p \in Proc, Prune(p) PROVE OneAtATime'
<1>0. cmd \in [Proc -> Cmds] /\ cmd[p].op = "prune" /\ cmd[p].step = "loaded" /\ UNCHANGED <<verDb, metaDb, acked, backups, calm>>
    BY DEF BkTyped, Prune, bkPast
<1>1. PICK s \in {"hung", "truncate"} : Become(p, s)
    BY DEF Prune
<1>2. PICK c : c = [cmd[p] EXCEPT !.step = s]
    OBVIOUS
<1>3. c.op = "prune" /\ c.step = s /\ c.db = cmd[p].db /\ Busy(p)
    BY <1>0, <1>2 DEF Cmds, Busy
<1>4. cmd' = [cmd EXCEPT ![p] = c]
    BY <1>0, <1>1, <1>2 DEF Become
<1>5. calm' => CalmAt(cmd[p], verDb, metaDb, acked, backups)
    BY <1>0, <1>3 DEF OneAtATime
<1>6. calm' => verDb = acked /\ cmd[p].db = acked /\ LastKept(metaDb, backups)
    BY <1>0, <1>5 DEF CalmAt, Midway
<1>7. calm' => verDb' = acked' /\ LastKept(metaDb', backups')
    BY <1>0, <1>6 DEF LastKept
<1>8. calm' => CalmAt(c, verDb', metaDb', acked', backups')
    BY <1>0, <1>3, <1>6, <1>7 DEF CalmAt, Writing, Midway
<1> QED
    BY <1>0, <1>3, <1>4, <1>7, <1>8, AloneMoves

\* gc and stats count what no version has.
LEMMA AloneCollects == ASSUME BkTyped, OneAtATime, NEW p \in Proc, LoadMetadata(p) PROVE OneAtATime'
<1>0. cmd \in [Proc -> Cmds] /\ PlaceOK(cmd[p], sent, secs) /\ cmd[p].op \in {"gc", "stats"} /\ cmd[p].step = "loaded"
    BY DEF BkTyped, LoadMetadata
<1>1. CASE metaDb = Torn
    BY <1>1, NotCalm DEF LoadMetadata, Err
<1>2. CASE metaDb # Torn
  <2>1. metaDb \in MetaStores /\ cmd[p].db \in VerStores
    BY <1>0, <1>2 DEF BkTyped, PlaceOK, OrderedStore
  <2>2. PICK r : r = IF cmd[p].op = "gc" THEN Collect(cmd[p].db, metaDb) ELSE {}
    OBVIOUS
  <2>3. PICK u : u = IF cmd[p].op = "gc" THEN Cardinality(r) ELSE StorageStats(cmd[p].db, metaDb)
    OBVIOUS
  <2>4. PICK c : c = [cmd[p] EXCEPT !.refs = r, !.step = "report", !.unused = u]
    OBVIOUS
  <2>5. c.op = cmd[p].op /\ c.step = "report" /\ c.refs = r /\ c.unused = u
    BY <1>0, <2>4 DEF Cmds
  <2>6. UNCHANGED <<verDb, metaDb, acked, backups, calm>> /\ cmd' = [cmd EXCEPT ![p] = c]
    BY <1>0, <1>2, <2>2, <2>3, <2>4 DEF LoadMetadata, bkPast, Cmds
  <2>7. r \cap Referenced(cmd[p].db) = {} /\ u <= Cardinality(AllBlocks(metaDb) \ Referenced(cmd[p].db))
    BY <1>0, <2>1, <2>2, <2>3, ReportBounds DEF Collect
  <2>8. CalmAt(cmd[p], verDb, metaDb, acked, backups) => CalmAt(c, verDb, metaDb, acked, backups)
    BY <1>0, <2>5, <2>7 DEF CalmAt, Writing, Midway
  <2> QED
    BY <1>0, <2>5, <2>6, <2>8, AloneReads DEF Busy, AtWork
<1> QED
    BY <1>1, <1>2

\* The store a command truncates is its own to fill.
LEMMA AloneTruncates == ASSUME BkTyped, OneAtATime, NEW p \in Proc, Truncate(p) PROVE OneAtATime'
<1>0. cmd \in [Proc -> Cmds] /\ cmd[p].step \in {"truncate", "again"} /\ UNCHANGED <<acked, backups, calm>> /\ Busy(p)
    BY DEF BkTyped, Truncate, bkPast, Busy
<1>1. PICK s \in {"fill", "refill"} : Become(p, s)
    BY DEF Truncate
<1>2. PICK c : c = [cmd[p] EXCEPT !.step = s]
    OBVIOUS
<1>3. c.op = cmd[p].op /\ c.step = s /\ c.file = cmd[p].file /\ c.data = cmd[p].data /\ c.db = cmd[p].db
    BY <1>0, <1>2 DEF Cmds
<1>4. cmd' = [cmd EXCEPT ![p] = c]
    BY <1>0, <1>1, <1>2 DEF Become
<1>5. calm' => CalmAt(cmd[p], verDb, metaDb, acked, backups)
    BY <1>0 DEF OneAtATime
<1>6. ASSUME calm' PROVE CalmAt(c, verDb', metaDb', acked', backups')
  <2>0. cmd[p].op \in {"backup", "increment", "prune"} /\ s \in Midway /\ s \in Writing
    BY <1>0, <1>5, <1>6 DEF CalmAt, Writing, Midway
  <2>1. CASE cmd[p].op = "backup"
    <3>1. verDb' = verDb
      BY <2>1 DEF Truncate
    <3> QED
      BY <1>0, <1>3, <1>5, <1>6, <2>0, <2>1, <3>1 DEF CalmAt, Writing, Midway
  <2>2. CASE cmd[p].op # "backup"
    <3>1. metaDb' = metaDb
      BY <2>2 DEF Truncate
    <3>2. LastKept(metaDb', backups')
      BY <1>0, <1>5, <1>6, <2>2, <3>1 DEF CalmAt, LastKept
    <3> QED
      BY <1>0, <1>3, <1>5, <1>6, <2>0, <2>2, <3>2 DEF CalmAt, Writing, Midway
  <2> QED
    BY <2>1, <2>2
<1>7. AtWork(c)
    BY <1>3 DEF AtWork
<1> QED
    BY <1>0, <1>4, <1>6, <1>7, AloneMoves

\* A backup is registered when it is reported.
LEMMA AloneBacksUp == ASSUME BkTyped, OneAtATime, NEW p \in Proc, FillMetadata(p) PROVE OneAtATime'
<1>0. /\ cmd[p].op = "backup" /\ cmd[p].step = "fill" /\ UNCHANGED <<verDb, acked, calm>> /\ End(p) /\ metaDb' = cmd[p].db
      /\ backups' = Append(backups, <<cmd[p].file, cmd[p].data>>) /\ backups \in Seq(File \X BkData) /\ PlaceOK(cmd[p], sent, secs)
    BY DEF BkTyped, FillMetadata
<1>1. Busy(p)
    BY <1>0 DEF Busy
<1>2. calm' => CalmAt(cmd[p], verDb, metaDb, acked, backups)
    BY <1>0, <1>1 DEF OneAtATime
<1>3. calm' => verDb' = acked' /\ metaDb'[cmd[p].file] = cmd[p].data
    BY <1>0, <1>2 DEF CalmAt, Writing
<1>4. Last(backups') = <<cmd[p].file, cmd[p].data>>
  <2>1. PICK e \in File \X BkData : e = <<cmd[p].file, cmd[p].data>>
    BY <1>0 DEF PlaceOK
  <2>2. Len(Append(backups, e)) = Len(backups) + 1 /\ Append(backups, e)[Len(backups) + 1] = e
    BY <1>0, <2>1, AppendProperties
  <2> QED
    BY <1>0, <2>1, <2>2 DEF Last
<1>5. calm' => LastKept(metaDb', backups')
    BY <1>3, <1>4 DEF LastKept
<1>6. PICK c : c = IdleCmd
    OBVIOUS
<1>7. ~AtWork(c) /\ cmd' = [cmd EXCEPT ![p] = c]
    BY <1>0, <1>6, IdleCmdType DEF AtWork, End
<1> QED
    BY <1>0, <1>1, <1>3, <1>5, <1>7, AloneMoves

\* The versions are complete when an increment is reported.
LEMMA AloneFills == ASSUME BkTyped, OneAtATime, NEW p \in Proc, FillVersions(p) PROVE OneAtATime'
<1>0. /\ cmd \in [Proc -> Cmds] /\ cmd[p].step \in {"fill", "refill"} /\ cmd[p].op \in {"increment", "prune"} /\ verDb' = cmd[p].db
      /\ UNCHANGED <<metaDb, backups, calm>> /\ Busy(p)
    BY DEF BkTyped, FillVersions, Busy
<1>1. calm' => CalmAt(cmd[p], verDb, metaDb, acked, backups)
    BY <1>0 DEF OneAtATime
<1>2. calm' => LastKept(metaDb, backups)
    BY <1>0, <1>1 DEF CalmAt
<1>3. calm' => LastKept(metaDb', backups')
    BY <1>0, <1>2 DEF LastKept
<1>4. CASE cmd[p].op = "increment" /\ cmd[p].step = "fill"
  <2>1. Become(p, "again") /\ acked' = acked
    BY <1>4 DEF FillVersions
  <2>2. PICK c : c = [cmd[p] EXCEPT !.step = "again"]
    OBVIOUS
  <2>3. c.op = "increment" /\ c.step = "again" /\ c.file = cmd[p].file /\ c.db = cmd[p].db
    BY <1>0, <1>4, <2>2 DEF Cmds
  <2>4. cmd' = [cmd EXCEPT ![p] = c]
    BY <1>0, <2>1, <2>2 DEF Become
  <2>5. calm' => cmd[p].db = [acked EXCEPT ![cmd[p].file] = <<Head(cmd[p].db[cmd[p].file])>> \o @]
    BY <1>1, <1>4 DEF CalmAt, Writing
  <2>6. calm' => CalmAt(c, verDb', metaDb', acked', backups')
    BY <1>3, <2>1, <2>3, <2>5 DEF CalmAt, Writing, Midway
  <2>7. AtWork(c)
    BY <2>3 DEF AtWork
  <2> QED
    BY <1>0, <2>4, <2>6, <2>7, AloneMoves
<1>5. CASE ~(cmd[p].op = "increment" /\ cmd[p].step = "fill")
  <2>1. End(p) /\ acked' = (IF cmd[p].op = "increment"
                            THEN [acked EXCEPT ![cmd[p].file] = <<Head(cmd[p].db[cmd[p].file])>> \o @] ELSE acked)
    BY <1>5 DEF FillVersions
  <2>2. calm' => verDb' = acked'
    BY <1>0, <1>1, <2>1 DEF CalmAt, Writing
  <2>3. PICK c : c = IdleCmd
    OBVIOUS
  <2>4. ~AtWork(c) /\ cmd' = [cmd EXCEPT ![p] = c]
    BY <2>1, <2>3, IdleCmdType DEF AtWork, End
  <2> QED
    BY <1>0, <1>3, <2>2, <2>4, AloneMoves
<1> QED
    BY <1>4, <1>5

\* A restore leaves the stores alone.
LEMMA AloneRestores == ASSUME BkTyped, OneAtATime, NEW p \in Proc, RestoreWrite(p) PROVE OneAtATime'
<1>1. Busy(p) /\ End(p) /\ UNCHANGED <<verDb, metaDb, acked, backups>> /\ (calm' => calm /\ cmd[p].step \notin Midway)
    BY DEF RestoreWrite, Err, Busy, Midway
<1> QED
    BY <1>1, AloneEnds

\* Nothing happens to the stores.
LEMMA AloneStays == ASSUME OneAtATime, UNCHANGED <<verDb, metaDb, acked, backups, cmd, calm>> PROVE OneAtATime'
BY DEF OneAtATime, Busy, CalmAt, LastKept

\* Every step keeps it.
LEMMA AloneStep == ASSUME BkTyped, OneAtATime, [BkNext]_bkVars PROVE OneAtATime'
<1>1. CASE UNCHANGED bkVars
    BY <1>1, AloneStays DEF bkVars
<1>2. ASSUME NEW p \in Proc, Works(p) PROVE OneAtATime'
    BY <1>2, AloneSends, AloneManifests, AloneLoads, AloneEnding, AloneSnapshots, AlonePrunes, AloneCollects, AloneTruncates,
       AloneBacksUp, AloneFills, AloneRestores DEF Works
<1>3. ASSUME NEW p \in Proc, WriteFails(p) \/ Die(p) PROVE OneAtATime'
    BY <1>3, NotCalm DEF WriteFails, Die
<1>4. ASSUME NEW p \in Proc, Commands(p) \/ SendFails(p) PROVE OneAtATime'
    BY <1>4, AloneCommands, AloneEnding
<1>5. ASSUME NEW f \in File, EditFile(f) PROVE OneAtATime'
    BY <1>5, AloneStays DEF EditFile, bkPast
<1>6. CASE Second
    BY <1>6, AloneStays DEF Second, bkPast
<1> QED
    BY <1>1, <1>2, <1>3, <1>4, <1>5, <1>6 DEF BkNext

\* The stores keep what commands reported: the versions are in order whatever
\* commands overlap or die (save writes the whole list a process loaded); and with
\* one command at a time, none of which fails, version_store.json holds exactly the
\* versions reported, metadata_store.json the last backup, and gc and stats report
\* only blocks that no version has.
THEOREM CommandsAreKept == BkSpec => []StoresKept
<1>1. BkInit => BkTyped /\ OneAtATime
    BY BkTypedInit, AloneInit
<1>2. BkTyped /\ OneAtATime /\ [BkNext]_bkVars => BkTyped' /\ OneAtATime'
    BY BkTypedStep, AloneStep
<1>3. BkTyped /\ OneAtATime => StoresKept
  <2> SUFFICES ASSUME BkTyped, OneAtATime PROVE StoresKept
    OBVIOUS
  <2>1. NewestFirst
    BY BkTypedTypes
  <2>2. HistoryKept
    BY DEF HistoryKept, OneAtATime, LastKept
  <2>3. GcSpares
    <3> SUFFICES ASSUME NEW p \in Proc, calm, cmd[p].step = "report"
                 PROVE  /\ cmd[p].refs \cap Referenced(verDb) = {}
                        /\ cmd[p].unused <= Cardinality(AllBlocks(metaDb) \ Referenced(verDb))
      BY DEF GcSpares
    <3>1. Busy(p)
      BY DEF Busy
    <3>2. CalmAt(cmd[p], verDb, metaDb, acked, backups)
      BY <3>1 DEF OneAtATime
    <3> QED
      BY <3>2 DEF CalmAt
  <2> QED
    BY <2>1, <2>2, <2>3 DEF StoresKept
<1> QED
    BY <1>1, <1>2, <1>3, PTL DEF BkSpec

----------------------------------------------------------------------------
(* The storage layer. *)

\* The variables of every part have their types, in every run of one part and with
\* the others at rest.
THEOREM StorageTyped == StorageSpec => []StorageTypeOK
<1> DEFINE Inv == DlTyped /\ LoadsCounted /\ SyTyped /\ BkTyped /\ MeInv
<1>1. StorageInit => Inv
    BY DlTypedInit, SyTypedInit, BkTypedInit, MeInvInit DEF StorageInit
<1>2. Inv /\ [StorageNext]_storageVars => Inv'
  <2> SUFFICES ASSUME Inv, [StorageNext]_storageVars PROVE Inv'
    OBVIOUS
  <2>1. [DlNext]_dlVars /\ [SyNext]_syVars /\ [BkNext]_bkVars /\ [MeNext]_meVars
    BY DEF StorageNext, storageVars
  <2>2. DlTyped' /\ LoadsCounted'
    BY <2>1, DlTypedStep
  <2>3. SyTyped' /\ BkTyped' /\ MeInv'
    BY <2>1, SyTypedStep, BkTypedStep, MeInvStep
  <2> QED
    BY <2>2, <2>3
<1>3. Inv => StorageTypeOK
    BY DlTypedTypes, SyTypedTypes, BkTypedTypes, MeInvTyped DEF StorageTypeOK
<1> QED
    BY <1>1, <1>2, <1>3, PTL DEF StorageSpec

\* Side by side every part behaves as it does alone, whatever part takes a step.
THEOREM StorageParts == StorageSpec => DlSpec /\ SySpec /\ BkSpec /\ MeSpec
<1>1. StorageInit => DlInit /\ SyInit /\ BkInit /\ MeInit
    BY DEF StorageInit
<1>2. ASSUME [StorageNext]_storageVars
      PROVE  [DlNext]_dlVars /\ [SyNext]_syVars /\ [BkNext]_bkVars /\ [MeNext]_meVars
    BY <1>2 DEF StorageNext, storageVars
<1> QED
    BY <1>1, <1>2, PTL DEF StorageSpec, DlSpec, SySpec, BkSpec, MeSpec

\* So the parts keep side by side what each of them promises alone: downloads are
\* exact and whole, what is synced is stored, what is restored was sent, commands
\* that do not overlap keep the versions and blocks, and a clean store is saved.
THEOREM StorageHolds ==
    StorageSpec => [](LoadExact /\ BlocksSound /\ NoMixture /\ SyncedIsStored
                        /\ RestoredWasSent /\ StoresKept /\ CleanIsSaved)
<1> QED
    BY StorageParts, LoadsAreExact, BuffersAreSound, DownloadsAreWhole, SyncsAreStored, RestoresAreWhole,
       CommandsAreKept, CleanStoresAreSaved, PTL
=============================================================================
