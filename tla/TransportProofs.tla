--------------------------- MODULE TransportProofs ---------------------------
(***************************************************************************)
(* What holds of the transport for every number of paths, fragments, peers,  *)
(* calls, counters and threads: the reorder buffer implements OrderedStream, *)
(* the handshake is sound, no counter is accepted twice and no closed        *)
(* session opened again, hole punching's two sets tell the truth, and the    *)
(* state file keeps what was saved.                                          *)
(***************************************************************************)
EXTENDS MCTransport, RateLimiterProofs, FiniteSetTheorems, SequenceTheorems

----------------------------------------------------------------------------
(* Numbers and sequences. *)

\* Every set of natural numbers that is not empty has a smallest element.
LEMMA NatMinExists ==
    ASSUME NEW S \in SUBSET Nat, S # {}
    PROVE  \E x \in S : \A y \in S : x <= y
<1> DEFINE R == OpToRel(<, Nat)
<1>1. IsWellFoundedOn(R, Nat)
    BY NatLessThanWellFounded
<1>2. \A y, x \in Nat : y < x => <<y, x>> \in R
    BY DEF OpToRel
<1> HIDE DEF R
<1>3. PICK x \in S : \A y \in S : ~(<<y, x>> \in R)
    BY <1>1, WFMin
<1>4. \A y \in S : ~(y < x)
    BY <1>2, <1>3, Zenon
<1>5. \A y \in S : x <= y
    BY <1>4, SMT
<1> QED
    BY <1>5

\* Min yields it.
LEMMA NatMin ==
    ASSUME NEW S \in SUBSET Nat, S # {}
    PROVE  Min(S) \in S /\ \A y \in S : Min(S) <= y
BY NatMinExists DEF Min

\* A sequence without repetitions has none after a new element is appended.
LEMMA AppendFresh ==
    ASSUME NEW S, NEW T, NEW s \in Seq(S), \A k \in 1..Len(s) : s[k] \in T,
           NEW x \in S, x \notin T,
           \A j, k \in 1..Len(s) : s[j] = s[k] => j = k
    PROVE  /\ \A k \in 1..Len(Append(s, x)) : Append(s, x)[k] \in T \cup {x}
           /\ \A j, k \in 1..Len(Append(s, x)) : Append(s, x)[j] = Append(s, x)[k] => j = k
OBVIOUS

\* Appending to a queue, and taking its first element.
LEMMA QueueAppend ==
    ASSUME NEW S, NEW s \in Seq(S), NEW x \in S, NEW m \in Nat, Len(s) < m
    PROVE  /\ Append(s, x) \in Seq(S) /\ Len(Append(s, x)) <= m
           /\ \A i \in 1..Len(Append(s, x)) : Append(s, x)[i] = x \/ \E j \in 1..Len(s) : Append(s, x)[i] = s[j]
OBVIOUS

\* ... and the other end.
LEMMA QueueTail ==
    ASSUME NEW S, NEW s \in Seq(S), s # <<>>, NEW m \in Nat, Len(s) <= m
    PROVE  /\ Tail(s) \in Seq(S) /\ Len(Tail(s)) <= m /\ Head(s) \in S /\ Head(s) = s[1] /\ 1 \in 1..Len(s)
           /\ \A i \in 1..Len(Tail(s)) : i + 1 \in 1..Len(s) /\ Tail(s)[i] = s[i + 1]
OBVIOUS

----------------------------------------------------------------------------
(* MultiPath: the reorder buffer. *)

\* The bounds are natural numbers.
LEMMA MpConstants ==
    /\ MaxPath \in Nat /\ MaxSeq \in Nat /\ MaxFragments \in Nat /\ BufferSize \in Nat
    /\ Gap \in Nat /\ DegradedAfter \in Nat /\ DeadAfter \in Nat /\ MaxLoss \in Nat
BY MpAssumption

\* The path send_via_paths picks is one of those that are alive, whatever their
\* weights.
LEMMA PathForActive ==
    ASSUME DOMAIN paths \subseteq 1..MaxPath, ActivePaths # {},
           NEW order \in SetToSeqs(ActivePaths), NEW s \in Seqs
    PROVE  PathFor(order, s) \in ActivePaths
<1> DEFINE n == Cardinality(ActivePaths)
           R == {k \in 1..Len(order) : WeightUpTo(order, k) >= 10 * s}
<1>1. IsFiniteSet(ActivePaths)
    BY MpConstants, FS_Interval, FS_Subset DEF ActivePaths
<1>2. n \in Nat /\ n # 0
    BY <1>1, FS_CardinalityType, FS_EmptySet
<1>3. order \in [1..n -> ActivePaths]
    BY DEF SetToSeqs
<1>4. Len(order) = n
    BY <1>2, <1>3
<1> HIDE DEF n
<1>5. R \cup {n} \subseteq 1..n /\ R \cup {n} # {} /\ R \cup {n} \subseteq Nat
    BY <1>2, <1>4
<1> HIDE DEF R
<1>6. Min(R \cup {n}) \in 1..n
    BY <1>5, NatMin
<1>7. PathFor(order, s) = order[Min(R \cup {n})]
    BY <1>4 DEF PathFor, R
<1> QED
    BY <1>3, <1>6, <1>7

\* The next number to expect after a fragment is handed over: later than the
\* fragment, and nothing before it is missing.
LEMMA FirstGapBounds ==
    ASSUME MpTypeOK, NEW e \in 0..MaxSeq
    PROVE  /\ FirstGap(e) \in e..MaxSeq
           /\ FirstGap(e) \notin buffer
           /\ \A s \in e..FirstGap(e) - 1 : s \in buffer
<1> DEFINE G == {s \in e..MaxSeq : s \notin buffer}
<1>1. G \subseteq Nat /\ MaxSeq \in G
    BY MpConstants DEF MpTypeOK, Seqs
<1>2. Min(G) \in G /\ \A y \in G : Min(G) <= y
  <2> HIDE DEF G
  <2> QED
    BY <1>1, NatMin
<1>3. FirstGap(e) = Min(G)
    BY DEF FirstGap
<1>4. FirstGap(e) \in e..MaxSeq /\ FirstGap(e) \notin buffer
    BY <1>2, <1>3
<1>5. ASSUME NEW s \in e..FirstGap(e) - 1 PROVE s \in buffer
  <2>1. s \in e..MaxSeq /\ s < FirstGap(e)
    BY <1>4, MpConstants
  <2>2. s \notin G
    BY <1>2, <1>3, <2>1
  <2> QED
    BY <2>1, <2>2
<1> QED
    BY <1>4, <1>5

\* The buffer is a finite set, and taking fragments out keeps it within its size.
LEMMA BufferFinite ==
    ASSUME MpTypeOK
    PROVE  /\ IsFiniteSet(buffer)
           /\ \A T \in SUBSET buffer : Cardinality(T) <= BufferSize
<1>1. IsFiniteSet(Seqs)
    BY MpConstants, FS_Interval DEF Seqs
<1>2. IsFiniteSet(buffer)
    BY <1>1, FS_Subset DEF MpTypeOK
<1>3. ASSUME NEW T \in SUBSET buffer PROVE Cardinality(T) <= BufferSize
  <2>1. Cardinality(T) <= Cardinality(buffer) /\ Cardinality(buffer) \in Nat
    BY <1>2, FS_Subset, FS_CardinalityType
  <2>2. Cardinality(T) \in Nat
    BY <1>2, FS_Subset, FS_CardinalityType
  <2> QED
    BY <2>1, <2>2, MpConstants DEF MpTypeOK
<1> QED
    BY <1>2, <1>3

\* The numbers from a to b, counted from 1.
LEMMA Span ==
    ASSUME NEW a \in Nat, NEW m \in Nat, NEW b \in a + 1..m
    PROVE  /\ b - a \in 1..m - a /\ b - a \in Nat /\ b = a + (b - a) /\ b \in 0..m
           /\ \A k \in 1..b - a : a + k - 1 \in 0..m - 1
OBVIOUS

\* A step of insert: the stream delivers, or it does not move; types are kept.
LEMMA InsertStep ==
    ASSUME MpTypeOK, NEW seq \in Seqs, Insert(seq)
    PROVE  /\ buffer' \subseteq Seqs /\ Cardinality(buffer') <= BufferSize
           /\ expected' \in 0..MaxSeq /\ delivered' \in Seq(Seqs) /\ upset' \in BOOLEAN
           /\ Stream!Deliver \/ UNCHANGED <<delivered, expected>>
<1>0. /\ MaxSeq \in Nat /\ BufferSize \in Nat /\ seq \in 0..MaxSeq - 1 /\ expected \in 0..MaxSeq
      /\ buffer \subseteq Seqs /\ Cardinality(buffer) <= BufferSize
      /\ delivered \in Seq(Seqs) /\ upset \in BOOLEAN
    BY MpConstants DEF MpTypeOK, Seqs
<1>1. CASE seq < expected /\ UNCHANGED <<bufferVars, upset>>
    BY <1>0, <1>1 DEF bufferVars
<1>2. CASE seq = expected /\ HandOver
  <2> DEFINE n == expected' - expected
             new == [k \in 1..n |-> expected + k - 1]
  <2>1. expected + 1 \in 0..MaxSeq /\ expected \in Nat /\ MaxSeq \in Nat
    BY <1>0, <1>2
  <2>2. expected' \in expected + 1..MaxSeq
    BY <1>2, <2>1, FirstGapBounds DEF HandOver
  <2>3. n \in 1..MaxSeq - expected /\ n \in Nat /\ expected' = expected + n
    BY <2>1, <2>2, Span
  <2>4. \A k \in 1..n : expected + k - 1 \in Seqs
    BY <2>1, <2>2, Span DEF Seqs
  <2>5. new \in Seq(Seqs)
    BY <2>3, <2>4, IsASeq
  <2>6. delivered' = delivered \o new
    BY <1>2 DEF HandOver
  <2>7. delivered' \in Seq(Seqs)
    BY <1>0, <2>5, <2>6, ConcatProperties
  <2>8. buffer' \in SUBSET buffer /\ upset' = upset
    BY <1>2 DEF HandOver
  <2>9. Cardinality(buffer') <= BufferSize
    BY <2>8, BufferFinite
  <2>10. Stream!Deliver
    BY <2>3, <2>6 DEF Stream!Deliver
  <2>11. expected' \in 0..MaxSeq
    BY <2>1, <2>2, Span
  <2> QED
    BY <1>0, <2>7, <2>8, <2>9, <2>10, <2>11
<1>3. CASE /\ seq > expected
           /\ buffer' = IF Cardinality(buffer) < BufferSize THEN buffer \cup {seq} ELSE buffer
           /\ upset' = (upset \/ seq \notin buffer')
           /\ UNCHANGED <<expected, delivered>>
  <2>1. buffer' \subseteq Seqs /\ upset' \in BOOLEAN
    BY <1>0, <1>3
  <2>2. Cardinality(buffer') <= BufferSize
    <3>1. IsFiniteSet(buffer)
      BY BufferFinite
    <3>2. Cardinality(buffer) \in Nat
      BY <3>1, FS_CardinalityType
    <3>3. Cardinality(buffer \cup {seq}) = IF seq \in buffer THEN Cardinality(buffer) ELSE Cardinality(buffer) + 1
      BY <3>1, FS_AddElement
    <3> QED
      BY <1>0, <1>3, <3>2, <3>3
  <2> QED
    BY <1>0, <1>3, <2>1, <2>2
<1> QED
    BY <1>1, <1>2, <1>3 DEF Insert

\* Taking the first fragment that is buffered as the next one is a Skip.
LEMMA SkipStep ==
    ASSUME MpTypeOK, SkipLost
    PROVE  Stream!Skip /\ expected' \in 0..MaxSeq
<1>1. buffer # {} /\ buffer \subseteq Nat /\ buffer \subseteq 0..MaxSeq - 1 /\ expected \in Nat /\ MaxSeq \in Nat
    BY MpConstants DEF MpTypeOK, Seqs, SkipLost, HasTimeout
<1>2. Min(buffer) \in buffer
    BY <1>1, NatMin
<1>3. Min(buffer) > expected + Gap /\ Gap \in Nat
    BY MpConstants, Zenon DEF SkipLost, HasTimeout
<1> DEFINE m == Min(buffer)
<1> HIDE DEF m
<1>4. m \in Nat /\ m \in 0..MaxSeq - 1 /\ m > expected + Gap
    BY <1>1, <1>2, <1>3 DEF m
<1>5. m \in expected + 1..MaxSeq /\ m \in 0..MaxSeq
    BY <1>1, <1>3, <1>4
<1>6. expected' = m /\ delivered' = delivered
    BY DEF SkipLost, m
<1> QED
    BY <1>5, <1>6 DEF Stream!Skip

\* The new fragments go on a path that is registered.
LEMMA SendStep ==
    ASSUME MpTypeOK, SendViaPaths
    PROVE  nextSeq' \in 0..MaxSeq /\ flight' \subseteq Fragment
<1>0. MaxSeq \in Nat /\ MaxFragments \in Nat /\ nextSeq \in 0..MaxSeq /\ flight \subseteq Fragment
      /\ DOMAIN paths \subseteq 1..MaxPath
    BY MpConstants DEF MpTypeOK
<1>1. PICK n \in 1..MaxFragments, order \in SetToSeqs(ActivePaths) :
          /\ nextSeq + n <= MaxSeq
          /\ flight' = flight \cup {[seq |-> s, path |-> PathFor(order, s)] : s \in FragmentData(n)}
          /\ nextSeq' = nextSeq + n
    BY Zenon DEF SendViaPaths
<1>2. nextSeq' \in 0..MaxSeq
    BY <1>0, <1>1
<1>3. ASSUME NEW s \in FragmentData(n)
      PROVE  [seq |-> s, path |-> PathFor(order, s)] \in Fragment
  <2>1. s \in Seqs
    BY <1>0, <1>1 DEF FragmentData, Seqs
  <2>2. PathFor(order, s) \in ActivePaths
    BY <1>0, <2>1, PathForActive DEF SendViaPaths
  <2>3. PathFor(order, s) \in 1..MaxPath
    BY <1>0, <2>2 DEF ActivePaths
  <2> QED
    BY <2>1, <2>3 DEF Fragment
<1> QED
    BY <1>0, <1>1, <1>2, <1>3

\* One more loss leaves a path's record well formed.
LEMMA LossTyped ==
    ASSUME NEW path \in PathInfo, path.lost < MaxLoss
    PROVE  OneMoreLost(path) \in PathInfo
<1> DEFINE n == path.lost + 1
           st == CASE n > DeadAfter -> "Dead"
                   [] n > DegradedAfter /\ n <= DeadAfter -> "Degraded"
                   [] OTHER -> path.state
<1>1. n \in 0..MaxLoss /\ st \in PathState
    BY MpConstants DEF PathInfo, PathState
<1>2. OneMoreLost(path) = [path EXCEPT !.lost = n, !.state = st]
    BY DEF OneMoreLost, PathInfo
<1> HIDE DEF n, st
<1> QED
    BY <1>1, <1>2 DEF PathInfo

\* The operations on the table of paths keep it well formed.
LEMMA PathStep ==
    ASSUME MpTypeOK,
           AddPath \/ \E p \in DOMAIN paths : RemovePath(p) \/ UpdatePathLatency(p) \/ RecordAck(p) \/ RecordLoss(p)
    PROVE  /\ DOMAIN paths' \subseteq 1..MaxPath /\ \A p \in DOMAIN paths' : paths'[p] \in PathInfo
           /\ nextPathId' \in 1..MaxPath + 1
           /\ UNCHANGED <<nextSeq, flight, bufferVars, upset>>
<1>0. /\ DOMAIN paths \subseteq 1..MaxPath /\ \A p \in DOMAIN paths : paths[p] \in PathInfo
      /\ nextPathId \in 1..MaxPath + 1 /\ MaxPath \in Nat
    BY MpConstants DEF MpTypeOK
<1>1. CASE AddPath
  <2>1. [state |-> "Active", lost |-> 0, weight |-> 10] \in PathInfo
    BY MpConstants DEF PathInfo, PathState, Weights
  <2> QED
    BY <1>0, <1>1, <2>1 DEF AddPath
<1>2. CASE \E p \in DOMAIN paths : RemovePath(p)
    BY <1>0, <1>2 DEF RemovePath
<1>3. CASE \E p \in DOMAIN paths : UpdatePathLatency(p)
  <2>1. PICK p \in DOMAIN paths, w \in {1, 10} : paths' = [paths EXCEPT ![p].weight = w]
    BY <1>3 DEF UpdatePathLatency
  <2>2. [paths[p] EXCEPT !.weight = w] \in PathInfo
    BY <1>0 DEF PathInfo, Weights
  <2> QED
    BY <1>0, <1>3, <2>1, <2>2 DEF UpdatePathLatency
<1>4. CASE \E p \in DOMAIN paths : RecordAck(p)
  <2>1. PICK p \in DOMAIN paths : RecordAck(p)
    BY <1>4
  <2>2. [paths[p] EXCEPT !.state = "Active"] \in PathInfo
    BY <1>0 DEF PathInfo, PathState
  <2> QED
    BY <1>0, <2>1, <2>2 DEF RecordAck
<1>5. CASE \E p \in DOMAIN paths : RecordLoss(p)
  <2>1. PICK p \in DOMAIN paths : RecordLoss(p)
    BY <1>5
  <2>2. OneMoreLost(paths[p]) \in PathInfo
    BY <1>0, <2>1, LossTyped DEF RecordLoss
  <2> QED
    BY <1>0, <2>1, <2>2 DEF RecordLoss
<1> QED
    BY <1>1, <1>2, <1>3, <1>4, <1>5

\* A fragment that arrives, and its copy.
LEMMA ArriveStep ==
    ASSUME MpTypeOK, NEW f \in flight, Arrive(f) \/ ArriveTwice(f)
    PROVE  MpTypeOK' /\ (Stream!Deliver \/ UNCHANGED <<delivered, expected>>)
<1>1. f.seq \in Seqs /\ Insert(f.seq) /\ flight' \subseteq flight /\ UNCHANGED <<paths, nextPathId, nextSeq>>
    BY DEF MpTypeOK, Fragment, Arrive, ArriveTwice, pathVars
<1>2. /\ buffer' \subseteq Seqs /\ Cardinality(buffer') <= BufferSize
      /\ expected' \in 0..MaxSeq /\ delivered' \in Seq(Seqs) /\ upset' \in BOOLEAN
      /\ Stream!Deliver \/ UNCHANGED <<delivered, expected>>
    BY <1>1, InsertStep
<1> QED
    BY <1>1, <1>2 DEF MpTypeOK

\* Every step of the manager keeps the types and is a step of the stream, or
\* leaves it alone.
LEMMA MpStep ==
    ASSUME MpTypeOK, [MpNext]_mpVars
    PROVE  MpTypeOK' /\ [Stream!Next]_<<delivered, expected>>
<1>1. CASE AddPath \/ \E p \in DOMAIN paths : RemovePath(p) \/ UpdatePathLatency(p) \/ RecordAck(p) \/ RecordLoss(p)
    BY <1>1, PathStep DEF MpTypeOK, bufferVars
<1>2. CASE SendViaPaths
    BY <1>2, SendStep DEF MpTypeOK, SendViaPaths, pathVars, bufferVars
<1>3. CASE \E f \in flight : Arrive(f) \/ ArriveTwice(f)
    BY <1>3, ArriveStep DEF Stream!Next
<1>4. CASE \E f \in flight : Lose(f)
    BY <1>4 DEF MpTypeOK, Lose, pathVars, bufferVars
<1>5. CASE SkipLost
    BY <1>5, SkipStep DEF MpTypeOK, SkipLost, pathVars, Stream!Next
<1>6. CASE Clear
  <2>1. Cardinality({}) <= BufferSize
    BY FS_EmptySet, MpConstants
  <2> QED
    BY <1>6, <2>1, MpConstants DEF MpTypeOK, Clear, pathVars, Stream!Next, Stream!Reset
<1>7. CASE UNCHANGED mpVars
    BY <1>7 DEF MpTypeOK, mpVars, pathVars, bufferVars
<1> QED
    BY <1>1, <1>2, <1>3, <1>4, <1>5, <1>6, <1>7 DEF MpNext

\* The initial state.
LEMMA MpInitOK ==
    MpInit => MpTypeOK /\ Stream!Init
<1> SUFFICES ASSUME MpInit PROVE MpTypeOK /\ Stream!Init
    OBVIOUS
<1>1. Cardinality({}) <= BufferSize
    BY FS_EmptySet, MpConstants
<1>2. DOMAIN paths = {}
    BY DEF MpInit
<1>3. nextPathId \in 1..MaxPath + 1 /\ nextSeq \in 0..MaxSeq /\ expected \in 0..MaxSeq
    BY MpConstants DEF MpInit
<1>4. buffer = {} /\ flight = {} /\ upset = FALSE /\ delivered \in Seq(Seqs)
    BY DEF MpInit
<1>5. Stream!Init
    BY DEF MpInit, Stream!Init
<1> QED
    BY <1>1, <1>2, <1>3, <1>4, <1>5 DEF MpTypeOK

\* The buffer stays within max_size and every fragment, path and counter within
\* its type, whatever arrives (add_path to clear).
THEOREM MpTyped == MpSpec => []MpTypeOK
<1>1. MpTypeOK /\ [MpNext]_mpVars => MpTypeOK'
    BY MpStep
<1> QED
    BY <1>1, MpInitOK, PTL DEF MpSpec

\* The reorder buffer implements OrderedStream: what insert returns is in the
\* order of the numbers, without gaps but those skip_lost makes, none of it twice.
THEOREM StreamRefined == MpSpec => StreamInOrder
<1>1. MpTypeOK /\ [MpNext]_mpVars => [Stream!Next]_<<delivered, expected>>
    BY MpStep
<1> QED
    BY <1>1, MpInitOK, MpTyped, PTL DEF MpSpec, StreamInOrder, Stream!Spec

----------------------------------------------------------------------------
(* Handshake. *)

Side == [phase : Phase, used : SUBSET (0..MaxHsTime)]

\* What the two sides know of each other through the messages of one attempt: a
\* HelloACK comes from a responder that has had a Hello, Data from an initiator
\* that was answered; and an initiator remembers the HelloACKs it took.
HsInv ==
    /\ HsTypeOK /\ initiator \in Side /\ responder \in Side
    /\ acksTaken \in Seq(0..MaxHsTime)
    /\ again \in BOOLEAN
    /\ ~again =>
          /\ \A m \in wire : m.type = "HelloAck" => responder.phase # "Init"
          /\ \A m \in wire : m.type = "Data" => initiator.phase \in {"HelloAckReceived", "Established"}
          /\ initiator.phase \in {"HelloAckReceived", "Established"} => responder.phase # "Init"
          /\ responder.phase = "Established" => initiator.phase \in {"HelloAckReceived", "Established"}
    /\ \A k \in 1..Len(acksTaken) : acksTaken[k] \in initiator.used
    /\ NoAckTwice

\* A message HsSend makes is one.
LEMMA HsSendTyped ==
    ASSUME HsInv, NEW type \in {"Hello", "HelloAck", "Data"}, HsSend(type)
    PROVE  /\ wire' \subseteq HsMsg /\ [type |-> type, timestamp |-> hsTime] \in HsMsg
           /\ \A m \in wire' : m \in wire \/ m.type = type
BY DEF HsInv, HsTypeOK, HsSend, HsMsg

\* It holds at first.
LEMMA HsInitInv == HsInit => HsInv
<1> SUFFICES ASSUME HsInit PROVE HsInv
    OBVIOUS
<1>1. acksTaken = <<>> /\ wire = {} /\ again = FALSE /\ hsTime = 0 /\ starts = 0
    BY DEF HsInit
<1>2. Fresh.phase = "Init" /\ Fresh.used = {} /\ Fresh \in Side /\ initiator = Fresh /\ responder = Fresh
    BY DEF HsInit, Fresh, Side, Phase
<1>3. HsTypeOK
    BY <1>1, <1>2, HsAssumption DEF HsTypeOK, Phase
<1>4. acksTaken \in Seq(0..MaxHsTime) /\ Len(acksTaken) = 0
    BY <1>1
<1>5. NoAckTwice /\ \A k \in 1..Len(acksTaken) : acksTaken[k] \in initiator.used
    BY <1>4 DEF NoAckTwice
<1> QED
    BY <1>1, <1>2, <1>3, <1>4, <1>5 DEF HsInv

\* Every step of the two sides preserves it.
LEMMA HsStep ==
    ASSUME HsInv, [HsNext]_hsVars
    PROVE  HsInv'
<1>1. CASE StartHandshake
  <2>1. /\ initiator' \in Side /\ initiator'.phase = "HelloSent" /\ initiator'.used = initiator.used
        /\ responder' = responder /\ acksTaken' = acksTaken /\ hsTime' = hsTime
        /\ again' = (again \/ initiator.phase # "Init") /\ starts' \in 0..MaxStarts
    BY <1>1, HsAssumption DEF HsInv, StartHandshake, Side, HsTypeOK, Phase
  <2>2. wire' \subseteq HsMsg /\ \A m \in wire' : m \in wire \/ m.type = "Hello"
    BY <1>1, HsSendTyped DEF StartHandshake
  <2>3. HsTypeOK' /\ again' \in BOOLEAN
    BY <2>1, <2>2 DEF HsInv, HsTypeOK, Phase
  <2>4. ASSUME ~again'
        PROVE  /\ \A m \in wire' : m.type = "HelloAck" => responder'.phase # "Init"
               /\ \A m \in wire' : m.type # "Data"
               /\ responder'.phase # "Established"
    BY <2>1, <2>2, <2>4 DEF HsInv
  <2>5. NoAckTwice' /\ (\A k \in 1..Len(acksTaken) : acksTaken[k] \in initiator.used)'
    BY <2>1 DEF HsInv, NoAckTwice
  <2> QED
    BY <2>1, <2>3, <2>4, <2>5 DEF HsInv
<1>2. ASSUME NEW m \in wire, HandleHello(m) PROVE HsInv'
    BY <1>2, HsSendTyped DEF HsInv, HandleHello, Side, HsTypeOK, Phase, NoAckTwice
<1>3. ASSUME NEW m \in wire, HandleHelloAck(m) PROVE HsInv'
  <2>1. /\ initiator' \in Side /\ initiator'.phase = "HelloAckReceived"
        /\ initiator'.used = initiator.used \cup {m.timestamp} /\ m.timestamp \in 0..MaxHsTime
        /\ m.timestamp \notin initiator.used
        /\ acksTaken' = Append(acksTaken, m.timestamp)
        /\ responder' = responder /\ hsTime' = hsTime /\ again' = again /\ starts' = starts
    BY <1>3 DEF HsInv, HandleHelloAck, Valid, Side, HsTypeOK, Phase, HsMsg
  <2>2. wire' \subseteq HsMsg /\ \A l \in wire' : l \in wire \/ l.type = "Data"
    BY <1>3, HsSendTyped DEF HandleHelloAck
  <2>3. HsTypeOK'
    BY <2>1, <2>2 DEF HsInv, HsTypeOK, Phase
  <2>4. ASSUME ~again'
        PROVE  /\ \A l \in wire' : l.type = "HelloAck" => responder'.phase # "Init"
               /\ responder'.phase # "Init"
    BY <1>3, <2>1, <2>2, <2>4 DEF HsInv, HandleHelloAck
  <2>5. acksTaken \in Seq(0..MaxHsTime) /\ \A k \in 1..Len(acksTaken) : acksTaken[k] \in initiator.used
    BY DEF HsInv
  <2>6. acksTaken' \in Seq(0..MaxHsTime)
    BY <2>1, <2>5
  <2>7. NoAckTwice' /\ (\A k \in 1..Len(acksTaken) : acksTaken[k] \in initiator.used)'
    <3>1. NoAckTwice
      BY DEF HsInv
    <3> QED
      BY <2>1, <2>5, <3>1, AppendFresh DEF NoAckTwice
  <2> QED
    BY <2>1, <2>3, <2>4, <2>6, <2>7 DEF HsInv
<1>4. ASSUME NEW m \in wire, HandleData(m) PROVE HsInv'
    BY <1>4 DEF HsInv, HandleData, Side, HsTypeOK, Phase, NoAckTwice, HsMsg
<1>5. CASE Complete
    BY <1>5 DEF HsInv, Complete, Side, HsTypeOK, Phase, NoAckTwice
<1>6. CASE NewInitiator
    BY <1>6, HsAssumption DEF HsInv, NewInitiator, Side, HsTypeOK, Phase, NoAckTwice, Fresh
<1>7. CASE NewResponder
    BY <1>7, HsAssumption DEF HsInv, NewResponder, Side, HsTypeOK, Phase, NoAckTwice, Fresh
<1>8. CASE HsTick
    BY <1>8, HsAssumption DEF HsInv, HsTick, Side, HsTypeOK, Phase, NoAckTwice
<1>9. CASE UNCHANGED hsVars
    BY <1>9 DEF HsInv, hsVars, HsTypeOK, NoAckTwice
<1> QED
    BY <1>1, <1>2, <1>3, <1>4, <1>5, <1>6, <1>7, <1>8, <1>9 DEF HsNext

\* In one attempt the two sides agree, and an initiator takes no HelloACK twice,
\* however messages are lost, repeated and reordered.
THEOREM HandshakeIsSound == HsSpec => []HandshakeSound
<1>1. HsInv /\ [HsNext]_hsVars => HsInv'
    BY HsStep
<1>2. HsInv => HandshakeSound
    BY DEF HsInv, HandshakeSound, HandshakeAgreement, HsTypeOK, Phase
<1> QED
    BY <1>1, <1>2, HsInitInv, PTL DEF HsSpec

----------------------------------------------------------------------------
(* Session. *)

\* The bounds are natural numbers.
LEMMA SeConstants ==
    /\ SessionTimeout \in Nat /\ MaxAge \in Nat /\ MaxCounter \in Nat /\ MaxSerial \in Nat
    /\ 0 \in 0..MaxAge /\ 0 \in 0..MaxCounter
<1>1. SessionTimeout \in Nat /\ MaxAge \in Nat /\ MaxCounter \in Nat /\ MaxSerial \in Nat
    BY SeAssumption
<1> QED
    BY <1>1

\* Counters wrap after the largest one.
LEMMA Wraps ==
    ASSUME NEW m \in Nat, NEW n \in 0..m
    PROVE  (n + 1) % (m + 1) = IF n = m THEN 0 ELSE n + 1
OBVIOUS

\* Sessions are numbered in the order they are made, and until a counter wraps,
\* the next counter a copy accepts is above all it has accepted.
SeInv ==
    /\ SeTypeOK
    /\ sessions \in [Peer -> SessionRec \cup {NoSession}]
    /\ copies \in [Holder -> SessionRec \cup {NoSession}]
    /\ seen \in [Holder -> SUBSET (0..MaxCounter)]
    /\ \A p \in Peer : sessions[p] # NoSession => sessions[p].nr <= serial
    /\ ~wrapped => \A h \in Holder : copies[h] # NoSession => \A n \in seen[h] : n < copies[h].recv
    /\ ~replayed

\* It holds at first.
LEMMA SeInitInv == SeInit => SeInv
<1> SUFFICES ASSUME SeInit PROVE SeInv
    OBVIOUS
<1>1. sessions = [p \in Peer |-> NoSession] /\ copies = [h \in Holder |-> NoSession]
    BY DEF SeInit
<1>2. seen = [h \in Holder |-> {}] /\ replayed = FALSE /\ wrapped = FALSE /\ serial = 0
    BY DEF SeInit
<1>3. SeTypeOK
  <2>1. \A p \in Peer : sessions[p] = NoSession
    BY <1>1
  <2>2. \A h \in Holder : copies[h] = NoSession
    BY <1>1
  <2>3. 0 \in 0..MaxSerial
    BY SeConstants
  <2> QED
    BY <1>2, <2>1, <2>2, <2>3 DEF SeTypeOK
<1> QED
    BY <1>1, <1>2, <1>3 DEF SeInv

\* r is what a step makes of the session s, or of a copy of it.
SameSession(s, r) ==
    /\ r \in SessionRec /\ r.nr = s.nr /\ r.recv = s.recv
    /\ s.state = "Closed" => r.state = "Closed"

\* The ways to change one.
LEMMA SessionUpdates ==
    ASSUME NEW s \in SessionRec
    PROVE  /\ SameSession(s, s)
           /\ SameSession(s, [s EXCEPT !.age = 0]) /\ SameSession(s, [s EXCEPT !.keys = TRUE, !.age = 0])
           /\ SameSession(s, [s EXCEPT !.state = "Closed", !.keys = FALSE])
           /\ \A to \in SessionState : SameSession(s, Transition(s, to))
           /\ \A n \in 0..MaxCounter : SameSession(s, [s EXCEPT !.send = n, !.age = 0])
           /\ SameSession(s, Older(s))
<1>1. SameSession(s, s) /\ SameSession(s, [s EXCEPT !.age = 0]) /\ SameSession(s, [s EXCEPT !.keys = TRUE, !.age = 0])
    BY SeConstants DEF SessionRec, SameSession
<1>2. SameSession(s, [s EXCEPT !.state = "Closed", !.keys = FALSE])
    BY DEF SessionRec, SessionState, SameSession
<1>3. ASSUME NEW to \in SessionState PROVE SameSession(s, Transition(s, to))
  <2>1. s.state = "Closed" => Allowed(s.state) = {}
    BY DEF Allowed
  <2>2. s.state = "Closed" => Transition(s, to) = s
    BY <2>1 DEF Transition
  <2>3. [s EXCEPT !.state = to, !.age = 0] \in SessionRec
    BY SeConstants DEF SessionRec
  <2>4. [s EXCEPT !.state = to, !.age = 0].nr = s.nr /\ [s EXCEPT !.state = to, !.age = 0].recv = s.recv
    BY DEF SessionRec
  <2> QED
    BY <2>2, <2>3, <2>4 DEF Transition, SameSession
<1>4. ASSUME NEW n \in 0..MaxCounter PROVE SameSession(s, [s EXCEPT !.send = n, !.age = 0])
    BY SeConstants DEF SessionRec, SameSession
<1>5. SameSession(s, Older(s))
  <2>1. CASE s = NoSession \/ s.age = MaxAge
    BY <1>1, <2>1 DEF Older
  <2>2. CASE ~(s = NoSession \/ s.age = MaxAge)
    <3>1. s.age + 1 \in 0..MaxAge
      BY <2>2, SeConstants DEF SessionRec
    <3>2. Older(s) = [s EXCEPT !.age = s.age + 1]
      BY <2>2 DEF Older
    <3> QED
      BY <3>1, <3>2 DEF SessionRec, SameSession
  <2> QED
    BY <2>1, <2>2
<1> QED
    BY <1>1, <1>2, <1>3, <1>4, <1>5

\* update_state, set_keys, touch and remove change one session, or take it away.
LEMMA ManagerChange ==
    ASSUME sessions \in [Peer -> SessionRec \cup {NoSession}], NEW p \in Peer,
           SetKeys(p) \/ Touch(p) \/ RemoveSession(p) \/ \E to \in SessionState : UpdateState(p, to)
    PROVE  /\ UNCHANGED <<copies, serial, seen, replayed, wrapped>>
           /\ sessions[p] # NoSession
           /\ \E r : /\ sessions' = [sessions EXCEPT ![p] = r]
                     /\ r = NoSession \/ SameSession(sessions[p], r)
<1>1. UNCHANGED <<copies, serial, seen, replayed, wrapped>> /\ sessions[p] # NoSession
    BY DEF SetKeys, Touch, RemoveSession, UpdateState
<1>2. sessions[p] \in SessionRec
    BY <1>1
<1>3. CASE SetKeys(p)
  <2>1. sessions' = [sessions EXCEPT ![p] = [sessions[p] EXCEPT !.keys = TRUE, !.age = 0]]
    BY <1>2, <1>3 DEF SetKeys, SessionRec
  <2> QED
    BY <1>1, <1>2, <2>1, SessionUpdates
<1>4. CASE Touch(p)
  <2>1. sessions' = [sessions EXCEPT ![p] = [sessions[p] EXCEPT !.age = 0]]
    BY <1>2, <1>4 DEF Touch
  <2> QED
    BY <1>1, <1>2, <2>1, SessionUpdates
<1>5. CASE RemoveSession(p)
    BY <1>1, <1>5 DEF RemoveSession
<1>6. ASSUME NEW to \in SessionState, UpdateState(p, to)
      PROVE  \E r : sessions' = [sessions EXCEPT ![p] = r] /\ SameSession(sessions[p], r)
  <2>1. sessions' = [sessions EXCEPT ![p] = Transition(sessions[p], to)]
    BY <1>6 DEF UpdateState
  <2> QED
    BY <1>2, <2>1, SessionUpdates
<1> QED
    BY <1>1, <1>3, <1>4, <1>5, <1>6

\* What a holder does with its copy, accepting a counter apart.
LEMMA HolderChange ==
    ASSUME copies \in [Holder -> SessionRec \cup {NoSession}], wrapped \in BOOLEAN, NEW h \in Holder,
           NextSendCounter(h) \/ SecureClose(h) \/ \E to \in SessionState : TransitionCopy(h, to)
    PROVE  /\ UNCHANGED <<sessions, serial, seen, replayed>>
           /\ wrapped' \in BOOLEAN /\ (wrapped => wrapped')
           /\ copies[h] # NoSession
           /\ \E r : copies' = [copies EXCEPT ![h] = r] /\ SameSession(copies[h], r)
<1>1. UNCHANGED <<sessions, serial, seen, replayed>> /\ copies[h] # NoSession
      /\ wrapped' \in BOOLEAN /\ (wrapped => wrapped')
    BY DEF NextSendCounter, SecureClose, TransitionCopy
<1>2. copies[h] \in SessionRec
    BY <1>1
<1>3. CASE NextSendCounter(h)
  <2> DEFINE n == (copies[h].send + 1) % (MaxCounter + 1)
  <2>1. copies' = [copies EXCEPT ![h] = [copies[h] EXCEPT !.send = n, !.age = 0]]
    BY <1>2, <1>3 DEF NextSendCounter, SessionRec
  <2>2. copies[h].send \in 0..MaxCounter
    BY <1>2 DEF SessionRec
  <2>3. n \in 0..MaxCounter
    BY <2>2, SeConstants, Wraps
  <2> HIDE DEF n
  <2> QED
    BY <1>1, <1>2, <2>1, <2>3, SessionUpdates
<1>4. CASE SecureClose(h)
  <2>1. copies' = [copies EXCEPT ![h] = [copies[h] EXCEPT !.state = "Closed", !.keys = FALSE]]
    BY <1>2, <1>4 DEF SecureClose, SessionRec
  <2> QED
    BY <1>1, <1>2, <2>1, SessionUpdates
<1>5. ASSUME NEW to \in SessionState, TransitionCopy(h, to)
      PROVE  \E r : copies' = [copies EXCEPT ![h] = r] /\ SameSession(copies[h], r)
  <2>1. copies' = [copies EXCEPT ![h] = Transition(copies[h], to)]
    BY <1>5 DEF TransitionCopy
  <2> QED
    BY <1>2, <2>1, SessionUpdates
<1> QED
    BY <1>1, <1>3, <1>4, <1>5

\* verify_recv_counter: the next counter expected is above the one accepted, or
\* the counters have wrapped.
LEMMA VerifyChange ==
    ASSUME copies \in [Holder -> SessionRec \cup {NoSession}], wrapped \in BOOLEAN,
           NEW h \in Holder, NEW n \in 0..MaxCounter, VerifyRecvCounter(h, n)
    PROVE  /\ UNCHANGED <<sessions, serial>> /\ copies[h] \in SessionRec /\ copies[h] # NoSession
           /\ n >= copies[h].recv /\ wrapped' = (wrapped \/ n = MaxCounter)
           /\ seen' = [seen EXCEPT ![h] = @ \cup {n}]
           /\ replayed' = (replayed \/ (n \in seen[h] /\ ~wrapped))
           /\ \E r \in SessionRec : /\ copies' = [copies EXCEPT ![h] = r] /\ r.state = copies[h].state
                                    /\ ~wrapped' => r.recv = n + 1
<1>1. copies[h] \in SessionRec
    BY DEF VerifyRecvCounter
<1> DEFINE next == (n + 1) % (MaxCounter + 1)
           r == [copies[h] EXCEPT !.recv = next, !.age = 0]
<1>2. copies' = [copies EXCEPT ![h] = r]
    BY <1>1 DEF VerifyRecvCounter, SessionRec
<1>3. next \in 0..MaxCounter /\ (n # MaxCounter => next = n + 1)
    BY SeConstants, Wraps
<1> HIDE DEF next
<1>4. r \in SessionRec /\ r.state = copies[h].state /\ r.recv = next
    BY <1>1, <1>3, SeConstants DEF SessionRec
<1> HIDE DEF r
<1>5. ~wrapped' => r.recv = n + 1
    BY <1>3, <1>4 DEF VerifyRecvCounter
<1>6. \E q \in SessionRec : /\ copies' = [copies EXCEPT ![h] = q] /\ q.state = copies[h].state
                            /\ ~wrapped' => q.recv = n + 1
    BY <1>2, <1>4, <1>5
<1> QED
    BY <1>1, <1>6 DEF VerifyRecvCounter

\* A step that changes sessions only, each into one with its number or into none.
LEMMA ManagerStep ==
    ASSUME SeInv, UNCHANGED <<copies, serial, seen, replayed, wrapped>>,
           sessions' \in [Peer -> SessionRec \cup {NoSession}],
           \A p \in Peer : sessions'[p] = NoSession \/ (sessions[p] # NoSession /\ sessions'[p].nr = sessions[p].nr)
    PROVE  SeInv'
BY DEF SeInv, SeTypeOK

\* A step that changes copies only, and not the next counter they expect.
LEMMA HolderStep ==
    ASSUME SeInv, UNCHANGED <<sessions, serial, seen, replayed>>,
           wrapped' \in BOOLEAN, wrapped => wrapped',
           copies' \in [Holder -> SessionRec \cup {NoSession}],
           \A h \in Holder : copies'[h] = NoSession \/ (copies[h] # NoSession /\ copies'[h].recv = copies[h].recv)
    PROVE  SeInv'
BY DEF SeInv, SeTypeOK

\* Every step of the manager and of the holders preserves it.
LEMMA SeStep ==
    ASSUME SeInv, [SeNext]_seVars
    PROVE  SeInv'
<1>0. /\ sessions \in [Peer -> SessionRec \cup {NoSession}]
      /\ copies \in [Holder -> SessionRec \cup {NoSession}]
    BY DEF SeInv
<1>1. ASSUME NEW h \in Holder, NEW p \in Peer, GetOrCreate(h, p) PROVE SeInv'
  <2>1. CASE sessions[p] # NoSession /\ ~IsExpired(sessions[p])
    BY <1>0, <1>1, <2>1 DEF GetOrCreate, SeInv, SeTypeOK
  <2>2. CASE ~(sessions[p] # NoSession /\ ~IsExpired(sessions[p]))
    <3>1. /\ serial < MaxSerial /\ serial' = serial + 1
          /\ sessions' = [sessions EXCEPT ![p] = NewSession(serial')]
          /\ copies' = [copies EXCEPT ![h] = NewSession(serial')]
          /\ seen' = [seen EXCEPT ![h] = {}] /\ UNCHANGED <<replayed, wrapped>>
      BY <1>1, <2>2 DEF GetOrCreate
    <3>2. serial \in 0..MaxSerial /\ MaxSerial \in Nat
      BY SeConstants DEF SeInv, SeTypeOK
    <3>3. serial' \in 1..MaxSerial /\ serial' \in 0..MaxSerial /\ serial' = serial + 1
      BY <3>1, <3>2
    <3>4. NewSession(serial') \in SessionRec /\ NewSession(serial').nr = serial'
      BY <3>3, SeConstants DEF NewSession, SessionRec, SessionState
    <3>5. \A q \in Peer : sessions'[q] # NoSession => sessions'[q].nr <= serial'
      <4>1. \A q \in Peer : q # p => sessions'[q] = sessions[q]
        BY <1>0, <3>1
      <4>2. sessions'[p].nr <= serial'
        BY <1>0, <3>1, <3>2, <3>3, <3>4
      <4>3. \A q \in Peer : sessions[q] # NoSession => sessions[q].nr <= serial /\ sessions[q].nr \in Int
        BY <1>0 DEF SeInv, SessionRec
      <4> QED
        BY <3>2, <3>3, <4>1, <4>2, <4>3
    <3>6. sessions' \in [Peer -> SessionRec \cup {NoSession}] /\ copies' \in [Holder -> SessionRec \cup {NoSession}]
      BY <1>0, <3>1, <3>4
    <3>7. seen' \in [Holder -> SUBSET (0..MaxCounter)]
      BY <3>1 DEF SeInv
    <3>8. ~wrapped' => \A g \in Holder : copies'[g] # NoSession => \A n \in seen'[g] : n < copies'[g].recv
      BY <1>0, <3>1 DEF SeInv
    <3> QED
      BY <3>1, <3>3, <3>5, <3>6, <3>7, <3>8 DEF SeInv, SeTypeOK
  <2> QED
    BY <2>1, <2>2
<1>2. ASSUME NEW p \in Peer, SetKeys(p) \/ Touch(p) \/ RemoveSession(p) \/ \E to \in SessionState : UpdateState(p, to)
      PROVE  SeInv'
    BY <1>0, <1>2, ManagerChange, ManagerStep DEF SameSession
<1>3. CASE CleanupExpired
    BY <1>0, <1>3, ManagerStep DEF CleanupExpired
<1>4. ASSUME NEW h \in Holder, NextSendCounter(h) \/ SecureClose(h) \/ \E to \in SessionState : TransitionCopy(h, to)
      PROVE  SeInv'
  <2>1. wrapped \in BOOLEAN
    BY DEF SeInv, SeTypeOK
  <2> QED
    BY <1>0, <1>4, <2>1, HolderChange, HolderStep DEF SameSession
<1>5. ASSUME NEW h \in Holder, NEW n \in 0..MaxCounter, VerifyRecvCounter(h, n) PROVE SeInv'
  <2>1. /\ wrapped \in BOOLEAN /\ replayed = FALSE /\ seen \in [Holder -> SUBSET (0..MaxCounter)]
        /\ ~wrapped => \A g \in Holder : copies[g] # NoSession => \A k \in seen[g] : k < copies[g].recv
    BY DEF SeInv, SeTypeOK
  <2>2. /\ UNCHANGED <<sessions, serial>> /\ copies[h] \in SessionRec /\ copies[h] # NoSession
        /\ n >= copies[h].recv /\ wrapped' = (wrapped \/ n = MaxCounter)
        /\ seen' = [seen EXCEPT ![h] = @ \cup {n}]
        /\ replayed' = (replayed \/ (n \in seen[h] /\ ~wrapped))
    BY <1>0, <1>5, <2>1, VerifyChange
  <2>3. PICK r \in SessionRec : copies' = [copies EXCEPT ![h] = r] /\ (~wrapped' => r.recv = n + 1)
    BY <1>0, <1>5, <2>1, VerifyChange
  <2>4. copies[h].recv \in Nat /\ n \in Nat
    BY <2>2, SeConstants DEF SessionRec
  <2>5. ~replayed'
    <3>1. ~wrapped => n \notin seen[h]
      BY <2>1, <2>2, <2>4
    <3> QED
      BY <2>1, <2>2, <3>1, Zenon
  <2>6. copies' \in [Holder -> SessionRec \cup {NoSession}] /\ seen' \in [Holder -> SUBSET (0..MaxCounter)]
    BY <1>0, <2>1, <2>2, <2>3
  <2>7. ASSUME ~wrapped' PROVE \A g \in Holder : copies'[g] # NoSession => \A k \in seen'[g] : k < copies'[g].recv
    <3>1. \A g \in Holder : g # h => copies'[g] = copies[g] /\ seen'[g] = seen[g]
      BY <1>0, <2>1, <2>2, <2>3
    <3>2. copies'[h].recv = n + 1 /\ seen'[h] = seen[h] \cup {n}
      BY <1>0, <2>1, <2>2, <2>3, <2>7
    <3>3. \A k \in seen[h] : k < copies[h].recv /\ k \in Nat
      BY <2>1, <2>2, <2>7, SeConstants
    <3> QED
      BY <2>1, <2>2, <2>4, <2>7, <3>1, <3>2, <3>3
  <2> QED
    BY <2>1, <2>2, <2>5, <2>6, <2>7 DEF SeInv, SeTypeOK
<1>6. CASE Age
  <2>1. Older(NoSession) = NoSession
    BY DEF Older
  <2>2. \A s \in SessionRec : Older(s) \in SessionRec /\ Older(s).nr = s.nr /\ Older(s).recv = s.recv
    BY SessionUpdates DEF SameSession
  <2>3. sessions' \in [Peer -> SessionRec \cup {NoSession}] /\ copies' \in [Holder -> SessionRec \cup {NoSession}]
    BY <1>0, <1>6, <2>1, <2>2 DEF Age
  <2>4. \A p \in Peer : sessions'[p] # NoSession => sessions[p] # NoSession /\ sessions'[p].nr = sessions[p].nr
    BY <1>0, <1>6, <2>1, <2>2 DEF Age
  <2>5. \A h \in Holder : copies'[h] # NoSession => copies[h] # NoSession /\ copies'[h].recv = copies[h].recv
    BY <1>0, <1>6, <2>1, <2>2 DEF Age
  <2> QED
    BY <1>6, <2>3, <2>4, <2>5 DEF SeInv, SeTypeOK, Age
<1>7. CASE UNCHANGED seVars
    BY <1>7 DEF SeInv, SeTypeOK, seVars
<1> QED
    BY <1>1, <1>2, <1>3, <1>4, <1>5, <1>6, <1>7 DEF SeNext

\* Closed stays closed, in one step.
ClosedKept ==
    /\ \A p \in Peer : sessions[p] # NoSession /\ sessions[p].state = "Closed" /\ sessions'[p] # NoSession =>
          sessions'[p].state = "Closed" \/ sessions'[p].nr # sessions[p].nr
    /\ \A h \in Holder : copies[h] # NoSession /\ copies[h].state = "Closed" /\ copies'[h].state # "Closed" =>
          \E p \in Peer : copies'[h] = sessions'[p]

\* No step of the manager or of a holder opens a closed session.
LEMMA ClosedStep ==
    ASSUME SeInv, SeNext
    PROVE  ClosedKept
<1>0. /\ sessions \in [Peer -> SessionRec \cup {NoSession}]
      /\ copies \in [Holder -> SessionRec \cup {NoSession}]
      /\ \A p \in Peer : sessions[p] # NoSession => sessions[p].nr <= serial /\ sessions[p].nr \in Nat
      /\ serial \in Nat /\ wrapped \in BOOLEAN
    BY SeConstants DEF SeInv, SeTypeOK, SessionRec
<1>1. ASSUME NEW h \in Holder, NEW p \in Peer, GetOrCreate(h, p) PROVE ClosedKept
  <2>1. CASE sessions[p] # NoSession /\ ~IsExpired(sessions[p])
    BY <1>0, <1>1, <2>1 DEF GetOrCreate, ClosedKept
  <2>2. CASE ~(sessions[p] # NoSession /\ ~IsExpired(sessions[p]))
    <3>1. /\ serial' = serial + 1
          /\ sessions' = [sessions EXCEPT ![p] = NewSession(serial')]
          /\ copies' = [copies EXCEPT ![h] = NewSession(serial')]
      BY <1>1, <2>2 DEF GetOrCreate
    <3>2. sessions[p] # NoSession => sessions[p].nr # serial'
      BY <1>0, <3>1
    <3>3. NewSession(serial').nr = serial'
      BY DEF NewSession
    <3> QED
      BY <1>0, <3>1, <3>2, <3>3 DEF ClosedKept
  <2> QED
    BY <2>1, <2>2
<1>2. ASSUME NEW p \in Peer, SetKeys(p) \/ Touch(p) \/ RemoveSession(p) \/ \E to \in SessionState : UpdateState(p, to)
      PROVE  ClosedKept
    BY <1>0, <1>2, ManagerChange DEF SameSession, ClosedKept
<1>3. CASE CleanupExpired
    BY <1>0, <1>3 DEF CleanupExpired, ClosedKept
<1>4. ASSUME NEW h \in Holder, NextSendCounter(h) \/ SecureClose(h) \/ \E to \in SessionState : TransitionCopy(h, to)
      PROVE  ClosedKept
    BY <1>0, <1>4, HolderChange DEF SameSession, ClosedKept
<1>5. ASSUME NEW h \in Holder, NEW n \in 0..MaxCounter, VerifyRecvCounter(h, n) PROVE ClosedKept
    BY <1>0, <1>5, VerifyChange DEF ClosedKept
<1>6. CASE Age
  <2>1. Older(NoSession) = NoSession
    BY DEF Older
  <2>2. \A s \in SessionRec : s.state = "Closed" => Older(s).state = "Closed"
    BY SessionUpdates DEF SameSession
  <2> QED
    BY <1>0, <1>6, <2>1, <2>2 DEF Age, ClosedKept
<1> QED
    BY <1>1, <1>2, <1>3, <1>4, <1>5, <1>6 DEF SeNext

\* The invariant of the sessions.
LEMMA SeInvariant == SeSpec => []SeInv
<1>1. SeInv /\ [SeNext]_seVars => SeInv'
    BY SeStep
<1> QED
    BY <1>1, SeInitInv, PTL DEF SeSpec

\* One copy accepts no counter twice (verify_recv_counter), in whatever order
\* counters arrive, until the largest one was used.
THEOREM NoReplayAccepted == SeSpec => []NoReplay
<1>1. SeInv => NoReplay
    BY DEF SeInv, NoReplay
<1> QED
    BY <1>1, SeInvariant, PTL

\* A session that was closed is not opened again (transition, secure_close): a
\* later open session with the peer is another one.
THEOREM ClosedForGood == SeSpec => ClosedStaysClosed
<1>1. SeInv /\ [SeNext]_seVars => [ClosedKept]_seVars
    BY ClosedStep
<1> QED
    BY <1>1, SeInvariant, PTL DEF SeSpec, ClosedStaysClosed, ClosedKept

----------------------------------------------------------------------------
(* HolePunch. *)

PunchCall == [peer : HpNode \cup {NoPeer}, at : {"idle", "send", "recv", "leave"}, attempt : 0..RetryCount - 1]

\* The sender of every packet that waits is one that knocked, and a call under way
\* has a peer.
HpInv ==
    /\ nat \in [HpNode -> BOOLEAN] /\ socket \in [HpNode -> SocketKind]
    /\ active \in [HpNode -> SUBSET HpNode] /\ punched \in [HpNode -> SUBSET HpNode]
    /\ calls \in [Caller -> PunchCall] /\ \A c \in Caller : calls[c].at # "idle" => calls[c].peer \in HpNode
    /\ inbox \in [HpNode -> Seq(HpNode)] /\ \A n \in HpNode : Len(inbox[n]) <= MaxInbox
    /\ punches \in 0..MaxPunches
    /\ \A n \in HpNode : \A i \in 1..Len(inbox[n]) : <<inbox[n][i], n>> \in knocked
    /\ PunchSetsSound

\* The bounds are natural numbers, and a caller is at a node.
LEMMA HpConstants ==
    /\ RetryCount \in Nat /\ RetryCount > 0 /\ MaxInbox \in Nat /\ MaxPunches \in Nat
    /\ 0 \in 0..RetryCount - 1 /\ \A c \in Caller : c[1] \in HpNode
<1>1. RetryCount \in Nat /\ RetryCount > 0 /\ MaxInbox \in Nat /\ MaxPunches \in Nat
    BY HpAssumption
<1>2. 0 \in 0..RetryCount - 1
    BY <1>1
<1> QED
    BY <1>1, <1>2, HpAssumption

\* It holds at first.
LEMMA HpInitInv == HpInit => HpInv
<1> SUFFICES ASSUME HpInit PROVE HpInv
    OBVIOUS
<1>1. /\ nat \in [HpNode -> BOOLEAN] /\ socket \in [HpNode -> SocketKind]
      /\ active = [n \in HpNode |-> {}] /\ punched = [n \in HpNode |-> {}]
      /\ inbox = [n \in HpNode |-> <<>>] /\ calls = [c \in Caller |-> NoPunch]
      /\ punches = 0
    BY DEF HpInit
<1>2. NoPunch \in PunchCall /\ NoPunch.at = "idle"
    BY HpConstants DEF NoPunch, PunchCall
<1>3. inbox \in [HpNode -> Seq(HpNode)] /\ \A n \in HpNode : Len(inbox[n]) = 0
    BY <1>1
<1>4. /\ \A n \in HpNode : Len(inbox[n]) <= MaxInbox
      /\ \A n \in HpNode : \A i \in 1..Len(inbox[n]) : <<inbox[n][i], n>> \in knocked
    BY <1>3, HpConstants
<1>5. PunchSetsSound
    BY <1>1 DEF PunchSetsSound, ActiveIsRunning, PunchedHasKnocked
<1>6. punches \in 0..MaxPunches
    BY <1>1, HpConstants
<1> QED
    BY <1>1, <1>2, <1>3, <1>4, <1>5, <1>6 DEF HpInv

\* active_punches tells the truth after a step that adds nothing to it, if the call
\* of every entry that is left goes on.
LEMMA ActiveKept ==
    ASSUME ActiveIsRunning,
           \A n \in HpNode : active'[n] \subseteq active[n],
           \A n \in HpNode : \A c \in Caller : c[1] = n /\ calls[c] # NoPunch /\ calls[c].peer \in active'[n] =>
              calls'[c] # NoPunch /\ calls'[c].peer = calls[c].peer
    PROVE  ActiveIsRunning'
BY DEF ActiveIsRunning, CallsAt

\* Every step preserves it.
LEMMA HpStep ==
    ASSUME HpInv, [HpNext]_hpVars
    PROVE  HpInv'
<1>0. /\ nat \in [HpNode -> BOOLEAN] /\ socket \in [HpNode -> SocketKind]
      /\ active \in [HpNode -> SUBSET HpNode] /\ punched \in [HpNode -> SUBSET HpNode]
      /\ calls \in [Caller -> PunchCall] /\ \A c \in Caller : calls[c].at # "idle" => calls[c].peer \in HpNode
      /\ inbox \in [HpNode -> Seq(HpNode)] /\ \A n \in HpNode : Len(inbox[n]) <= MaxInbox
      /\ punches \in 0..MaxPunches
      /\ \A n \in HpNode : \A i \in 1..Len(inbox[n]) : <<inbox[n][i], n>> \in knocked
      /\ ActiveIsRunning /\ PunchedHasKnocked
    BY DEF HpInv, PunchSetsSound
<1>1. ASSUME NEW c \in Caller, NEW p \in HpNode, PunchHole(c, p) PROVE HpInv'
  <2> DEFINE n == c[1]
             r == [peer |-> p, at |-> "send", attempt |-> 0]
  <2>1. n \in HpNode /\ r \in PunchCall /\ r # NoPunch /\ r.peer = p /\ r.at = "send"
    BY HpConstants DEF PunchCall, NoPunch
  <2>2. punches' \in 0..MaxPunches /\ UNCHANGED <<nat, punched, socket, inbox, knocked>> /\ calls[c] = NoPunch
    BY <1>0, <1>1, HpConstants DEF PunchHole
  <2>3. CASE /\ active' = [active EXCEPT ![n] = @ \cup {p}]
             /\ calls' = [calls EXCEPT ![c] = r]
    <3> HIDE DEF r, n
    <3>1. active' \in [HpNode -> SUBSET HpNode] /\ calls' \in [Caller -> PunchCall]
      BY <1>0, <2>1, <2>3
    <3>2. \A d \in Caller : calls'[d].at # "idle" => calls'[d].peer \in HpNode
      BY <1>0, <2>1, <2>3
    <3>3. ASSUME NEW m \in HpNode, NEW q \in active'[m]
          PROVE  \E d \in Caller : d[1] = m /\ calls'[d] # NoPunch /\ calls'[d].peer = q
      <4>1. CASE m = n /\ q = p
        BY <1>0, <2>1, <2>3, <4>1 DEF n
      <4>2. CASE ~(m = n /\ q = p)
        <5>1. q \in active[m]
          BY <1>0, <2>1, <2>3, <3>3, <4>2
        <5>2. PICK d \in Caller : d[1] = m /\ calls[d] # NoPunch /\ calls[d].peer = q
          BY <1>0, <5>1 DEF ActiveIsRunning, CallsAt
        <5> QED
          BY <1>0, <2>2, <2>3, <5>2
      <4> QED
        BY <4>1, <4>2
    <3>4. ActiveIsRunning'
      BY <3>3 DEF ActiveIsRunning, CallsAt
    <3> QED
      BY <1>0, <2>2, <3>1, <3>2, <3>4 DEF HpInv, PunchSetsSound, PunchedHasKnocked
  <2>4. CASE UNCHANGED <<active, calls>>
    BY <1>0, <2>2, <2>4 DEF HpInv, PunchSetsSound, PunchedHasKnocked, ActiveIsRunning, CallsAt
  <2> QED
    BY <1>1, <2>3, <2>4 DEF PunchHole
<1>2. ASSUME NEW c \in Caller, SendPunch(c) PROVE HpInv'
  <2> DEFINE n == c[1]
             p == calls[c].peer
  <2>1. n \in HpNode /\ p \in HpNode /\ calls[c] \in PunchCall
    BY <1>0, <1>2, HpConstants DEF SendPunch
  <2>2. /\ calls' = [calls EXCEPT ![c] = [calls[c] EXCEPT !.at = "recv"]]
        /\ knocked' = knocked \cup {<<n, p>>}
        /\ UNCHANGED <<nat, active, punched, socket, punches>>
    BY <1>2 DEF SendPunch
  <2>3. /\ calls' \in [Caller -> PunchCall] /\ calls'[c].at = "recv"
        /\ \A d \in Caller : calls'[d].peer = calls[d].peer /\ (d # c => calls'[d] = calls[d])
    BY <1>0, <2>1, <2>2 DEF PunchCall
  <2>4. \A d \in Caller : calls[d] # NoPunch => calls'[d] # NoPunch
    BY <2>3 DEF NoPunch
  <2>5. ActiveIsRunning'
    BY <1>0, <2>2, <2>3, <2>4, ActiveKept
  <2>6. PunchedHasKnocked'
    BY <1>0, <2>2 DEF PunchedHasKnocked
  <2>7. /\ inbox' \in [HpNode -> Seq(HpNode)] /\ \A m \in HpNode : Len(inbox'[m]) <= MaxInbox
        /\ \A m \in HpNode : \A i \in 1..Len(inbox'[m]) : <<inbox'[m][i], m>> \in knocked'
    <3> HIDE DEF n, p
    <3>1. CASE UNCHANGED inbox
      BY <1>0, <2>2, <3>1
    <3>2. CASE Len(inbox[p]) < MaxInbox /\ inbox' = [inbox EXCEPT ![p] = Append(@, n)]
      <4>1. inbox[p] \in Seq(HpNode)
        BY <1>0, <2>1
      <4> DEFINE q == Append(inbox[p], n)
      <4>2. /\ q \in Seq(HpNode) /\ Len(q) <= MaxInbox
            /\ \A i \in 1..Len(q) : q[i] = n \/ \E j \in 1..Len(inbox[p]) : q[i] = inbox[p][j]
        BY <2>1, <3>2, <4>1, HpConstants, QueueAppend, SMTT(40)
      <4>3. inbox' = [inbox EXCEPT ![p] = q]
        BY <3>2
      <4> HIDE DEF q
      <4>4. \A i \in 1..Len(q) : <<q[i], p>> \in knocked'
        BY <1>0, <2>1, <2>2, <4>2
      <4> QED
        BY <1>0, <2>1, <2>2, <4>2, <4>3, <4>4
    <3> QED
      BY <1>2, <3>1, <3>2 DEF SendPunch, n, p
  <2>8. \A d \in Caller : calls'[d].at # "idle" => calls'[d].peer \in HpNode
    BY <1>0, <2>1, <2>3
  <2> QED
    BY <1>0, <2>2, <2>3, <2>5, <2>6, <2>7, <2>8 DEF HpInv, PunchSetsSound
<1>3. ASSUME NEW c \in Caller, RecvPunch(c) PROVE HpInv'
  <2> DEFINE n == c[1]
             got == inbox[n] # <<>> /\ Head(inbox[n]) = calls[c].peer
             last == calls[c].attempt + 1 >= RetryCount
             at == IF got \/ last THEN "leave" ELSE "send"
             att == IF got \/ last THEN calls[c].attempt ELSE calls[c].attempt + 1
             q == IF inbox[n] = <<>> THEN inbox[n] ELSE Tail(inbox[n])
  <2>1. n \in HpNode /\ calls[c].peer \in HpNode /\ calls[c] \in PunchCall /\ inbox[n] \in Seq(HpNode)
    BY <1>0, <1>3, HpConstants DEF RecvPunch
  <2>2. UNCHANGED <<nat, active, socket, punches, knocked>>
    BY <1>3 DEF RecvPunch
  <2>3. calls' = [calls EXCEPT ![c] = [calls[c] EXCEPT !.at = at, !.attempt = att]]
    BY <1>0, <1>3, <2>1 DEF RecvPunch, IsValidPunchResponse, PunchCall
  <2>4. at \in {"send", "leave"} /\ att \in 0..RetryCount - 1
    BY <2>1, HpConstants DEF PunchCall
  <2> HIDE DEF at, att
  <2>5. /\ calls' \in [Caller -> PunchCall] /\ calls'[c].at = at
        /\ \A d \in Caller : calls'[d].peer = calls[d].peer /\ (d # c => calls'[d] = calls[d])
    BY <1>0, <2>1, <2>3, <2>4 DEF PunchCall
  <2>6. \A d \in Caller : calls[d] # NoPunch => calls'[d] # NoPunch
    BY <2>4, <2>5 DEF NoPunch
  <2>7. ActiveIsRunning'
    BY <1>0, <2>2, <2>5, <2>6, ActiveKept
  <2>8. /\ q \in Seq(HpNode) /\ Len(q) <= MaxInbox
        /\ \A i \in 1..Len(q) : <<q[i], n>> \in knocked
    <3>1. CASE inbox[n] = <<>>
      BY <1>0, <2>1, <3>1
    <3>2. CASE inbox[n] # <<>>
      <4>1. /\ Tail(inbox[n]) \in Seq(HpNode) /\ Len(Tail(inbox[n])) <= MaxInbox
            /\ \A i \in 1..Len(Tail(inbox[n])) : i + 1 \in 1..Len(inbox[n]) /\ Tail(inbox[n])[i] = inbox[n][i + 1]
        BY <1>0, <2>1, <3>2, HpConstants, QueueTail
      <4>2. \A i \in 1..Len(inbox[n]) : <<inbox[n][i], n>> \in knocked
        BY <1>0, <2>1
      <4>3. \A i \in 1..Len(Tail(inbox[n])) : <<Tail(inbox[n])[i], n>> \in knocked
        BY <4>1, <4>2
      <4> QED
        BY <3>2, <4>1, <4>3
    <3> QED
      BY <3>1, <3>2
  <2>9. inbox' = [inbox EXCEPT ![n] = q]
    BY <1>3 DEF RecvPunch
  <2>10. /\ inbox' \in [HpNode -> Seq(HpNode)] /\ \A m \in HpNode : Len(inbox'[m]) <= MaxInbox
         /\ \A m \in HpNode : \A i \in 1..Len(inbox'[m]) : <<inbox'[m][i], m>> \in knocked'
    <3> HIDE DEF q, n
    <3> QED
      BY <1>0, <2>1, <2>2, <2>8, <2>9
  <2>11. punched' = IF got THEN [punched EXCEPT ![n] = @ \cup {calls[c].peer}] ELSE punched
    BY <1>3 DEF RecvPunch, IsValidPunchResponse
  <2>12. got => <<calls[c].peer, n>> \in knocked
    BY <1>0, <2>1, HpConstants, QueueTail
  <2> HIDE DEF got, n
  <2>13. PunchedHasKnocked' /\ punched' \in [HpNode -> SUBSET HpNode]
    BY <1>0, <2>1, <2>2, <2>11, <2>12 DEF PunchedHasKnocked
  <2>14. \A d \in Caller : calls'[d].at # "idle" => calls'[d].peer \in HpNode
    BY <1>0, <2>1, <2>5
  <2> QED
    BY <1>0, <2>2, <2>5, <2>7, <2>10, <2>13, <2>14 DEF HpInv, PunchSetsSound
<1>4. ASSUME NEW c \in Caller, Leave(c) PROVE HpInv'
  <2> DEFINE n == c[1]
  <2>1. n \in HpNode /\ NoPunch \in PunchCall /\ NoPunch.at = "idle"
    BY HpConstants DEF NoPunch, PunchCall
  <2>2. /\ active' = [active EXCEPT ![n] = @ \ {calls[c].peer}]
        /\ calls' = [calls EXCEPT ![c] = NoPunch]
        /\ inbox' = [inbox EXCEPT ![n] = IF Shared(n) THEN @ ELSE <<>>]
        /\ UNCHANGED <<nat, punched, socket, punches, knocked>>
    BY <1>4 DEF Leave
  <2>3. /\ calls' \in [Caller -> PunchCall] /\ active' \in [HpNode -> SUBSET HpNode]
        /\ \A d \in Caller : calls'[d].at # "idle" => calls'[d].peer \in HpNode
    BY <1>0, <2>1, <2>2
  <2>4. ActiveIsRunning'
    <3>1. \A m \in HpNode : active'[m] \subseteq active[m]
      BY <1>0, <2>1, <2>2
    <3>2. calls[c].peer \notin active'[n]
      BY <1>0, <2>1, <2>2
    <3>3. \A d \in Caller : d # c => calls'[d] = calls[d]
      BY <1>0, <2>2
    <3> QED
      BY <1>0, <3>1, <3>2, <3>3, ActiveKept
  <2>5. /\ inbox' \in [HpNode -> Seq(HpNode)] /\ \A m \in HpNode : Len(inbox'[m]) <= MaxInbox
        /\ \A m \in HpNode : \A i \in 1..Len(inbox'[m]) : <<inbox'[m][i], m>> \in knocked'
    <3>1. <<>> \in Seq(HpNode) /\ Len(<<>>) = 0 /\ Len(<<>>) <= MaxInbox /\ \A i \in 1..Len(<<>>) : FALSE
      BY HpConstants
    <3> HIDE DEF n
    <3>2. \A m \in HpNode : inbox'[m] = inbox[m] \/ inbox'[m] = <<>>
      BY <1>0, <2>1, <2>2
    <3>3. inbox' \in [HpNode -> Seq(HpNode)]
      BY <1>0, <2>1, <2>2, <3>1
    <3> QED
      BY <1>0, <2>2, <3>1, <3>2, <3>3
  <2> QED
    BY <1>0, <2>2, <2>3, <2>4, <2>5 DEF HpInv, PunchSetsSound, PunchedHasKnocked
<1>5. ASSUME NEW n \in {c[1] : c \in Caller},
             HpClear(n) \/ SetNatType(n) \/ \E p \in HpNode \ {n} : RemovePeer(n, p)
      PROVE  HpInv'
  <2>1. n \in HpNode
    BY HpConstants
  <2>2. /\ active' \in [HpNode -> SUBSET HpNode] /\ punched' \in [HpNode -> SUBSET HpNode] /\ nat' \in [HpNode -> BOOLEAN]
        /\ \A m \in HpNode : active'[m] \subseteq active[m] /\ punched'[m] \subseteq punched[m]
        /\ UNCHANGED <<socket, inbox, calls, punches, knocked>>
    <3>1. CASE HpClear(n)
      BY <1>0, <2>1, <3>1 DEF HpClear
    <3>2. CASE SetNatType(n)
      <4>1. nat' \in [HpNode -> BOOLEAN]
        BY <1>0, <2>1, <3>2, Zenon DEF SetNatType
      <4> QED
        BY <1>0, <3>2, <4>1 DEF SetNatType
    <3>3. CASE \E p \in HpNode \ {n} : RemovePeer(n, p)
      BY <1>0, <2>1, <3>3 DEF RemovePeer
    <3> QED
      BY <1>5, <3>1, <3>2, <3>3
  <2>3. ActiveIsRunning'
    BY <1>0, <2>2, ActiveKept
  <2> QED
    BY <1>0, <2>2, <2>3 DEF HpInv, PunchSetsSound, PunchedHasKnocked
<1>6. CASE UNCHANGED hpVars
    BY <1>0, <1>6 DEF hpVars, HpInv, PunchSetsSound, PunchedHasKnocked, ActiveIsRunning, CallsAt
<1> QED
    BY <1>1, <1>2, <1>3, <1>4, <1>5, <1>6 DEF HpNext, Punching

\* The types follow from it.
LEMMA HpTyped == HpInv => HpTypeOK
<1> SUFFICES ASSUME HpInv PROVE HpTypeOK
    OBVIOUS
<1>1. \A n \in HpNode : Len(inbox[n]) <= MaxInbox /\ ToSet(inbox[n]) \subseteq HpNode
    BY DEF HpInv, ToSet
<1> QED
    BY <1>1 DEF HpInv, HpTypeOK, PunchCall

\* active_punches holds only peers a call is working on, and punched_peers only
\* peers that sent this node a packet, whatever calls share its socket.
THEOREM PunchSetsAreSound == HpSpec => []PunchSetsSound
<1>1. HpInv /\ [HpNext]_hpVars => HpInv'
    BY HpStep
<1>2. HpInv => PunchSetsSound
    BY DEF HpInv
<1> QED
    BY <1>1, <1>2, HpInitInv, PTL DEF HpSpec

----------------------------------------------------------------------------
(* HealState. *)

\* While nothing disturbs the saves, one thread saves at a time, and the file it
\* writes is empty until it has written.
HsfInv ==
    /\ HsfTypeOK /\ StateKept
    /\ undisturbed => /\ \A t, u \in Savers : Saving(t) /\ Saving(u) => t = u
                      /\ (\E t \in Savers : saver[t].step = "write") => stateFile = Emptied

SaverRec == [step : {"off", "idle", "due", "open", "write"}, snap : PersistedHealState]

\* The records of the threads.
LEMMA SaverRecs ==
    /\ NoStates \in PersistedHealState
    /\ Off \in SaverRec /\ Off.step = "off" /\ Resting \in SaverRec /\ Resting.step = "idle"
    /\ FreshSavers \in [Savers -> SaverRec] /\ \A t \in Savers : FreshSavers[t].step \in {"off", "idle"}
<1>1. NoStates \in PersistedHealState
    BY DEF NoStates, PersistedHealState, NodeState
<1>2. Off \in SaverRec /\ Off.step = "off" /\ Resting \in SaverRec /\ Resting.step = "idle"
    BY <1>1 DEF Off, Resting, SaverRec
<1> QED
    BY <1>1, <1>2 DEF FreshSavers

\* It holds at first.
LEMMA HsfInitInv == HsfInit => HsfInv
BY SaverRecs DEF HsfInit, HsfInv, HsfTypeOK, StateKept, Saving, SaverRec

\* A step after which no other thread saves than before, and the file is the same.
LEMMA QuietStep ==
    ASSUME HsfInv, UNCHANGED <<stateFile, lastSaved, undisturbed>>, states' \in PersistedHealState,
           saver' \in [Savers -> SaverRec], {running', loading', asks'} \subseteq BOOLEAN,
           \A t \in Savers : saver'[t].step = saver[t].step \/ ({saver'[t].step, saver[t].step} \cap {"open", "write"} = {})
    PROVE  HsfInv'
BY DEF HsfInv, HsfTypeOK, StateKept, Saving, SaverRec

\* Every step preserves it.
LEMMA HsfStep ==
    ASSUME HsfInv, [HsfNext]_hsfVars
    PROVE  HsfInv'
<1>0. /\ states \in PersistedHealState
      /\ stateFile \in PersistedHealState \cup {Missing, Emptied, Partial}
      /\ lastSaved \in PersistedHealState \cup {Missing}
      /\ saver \in [Savers -> SaverRec]
      /\ running \in BOOLEAN /\ loading \in BOOLEAN /\ asks \in BOOLEAN /\ undisturbed \in BOOLEAN
      /\ App \in Savers /\ HealLoop \subseteq Savers
    BY DEF HsfInv, HsfTypeOK, SaverRec, Savers
<1>1. ASSUME NEW n \in HealNode, ChangeState(n) PROVE HsfInv'
  <2>1. states' \in PersistedHealState
    BY <1>0, <1>1 DEF ChangeState, PersistedHealState
  <2> QED
    BY <1>0, <1>1, <2>1, QuietStep DEF ChangeState
<1>2. ASSUME NEW l \in HealLoop, StartLoop(l) \/ EndLoop(l) \/ PersistDue(l) PROVE HsfInv'
  <2>1. /\ saver' \in [Savers -> SaverRec]
        /\ \A t \in Savers : saver'[t].step = saver[t].step \/ ({saver'[t].step, saver[t].step} \cap {"open", "write"} = {})
    BY <1>0, <1>2, SaverRecs DEF StartLoop, EndLoop, PersistDue, Rest, SaverStep, SaverRec
  <2> QED
    BY <1>0, <1>2, <2>1, QuietStep DEF StartLoop, EndLoop, PersistDue
<1>3. CASE StopLoops \/ EmitEvent
    BY <1>0, <1>3, QuietStep DEF StopLoops, EmitEvent
<1>4. CASE Restore
  <2>1. states' \in PersistedHealState
    BY <1>0, <1>4 DEF Restore, PersistedHealState
  <2> QED
    BY <1>0, <1>4, <2>1, QuietStep DEF Restore
<1>5. ASSUME NEW t \in Savers, TakeStates(t) PROVE HsfInv'
  <2>1. /\ saver' = [saver EXCEPT ![t] = [step |-> "open", snap |-> states]]
        /\ undisturbed' = (undisturbed /\ \A u \in Savers : ~Saving(u))
        /\ lastSaved' = (IF undisturbed' THEN lastSaved ELSE Missing)
        /\ UNCHANGED <<states, stateFile, running, loading, asks>>
    BY <1>5 DEF TakeStates
  <2>2. saver' \in [Savers -> SaverRec] /\ \A u \in Savers : saver'[u].step = IF u = t THEN "open" ELSE saver[u].step
    BY <1>0, <2>1 DEF SaverRec
  <2>3. HsfTypeOK'
    BY <1>0, <2>1, <2>2 DEF HsfTypeOK, SaverRec
  <2>4. ASSUME undisturbed'
        PROVE  /\ lastSaved' = lastSaved
               /\ \A u \in Savers : saver[u].step \notin {"open", "write"}
               /\ undisturbed
    BY <2>1, <2>4 DEF Saving
  <2>5. undisturbed' => stateFile' = lastSaved'
    BY <2>1, <2>4 DEF HsfInv, StateKept
  <2> QED
    BY <2>2, <2>3, <2>4, <2>5 DEF HsfInv, StateKept, Saving
<1>6. ASSUME NEW t \in Savers, OpenStateFile(t) PROVE HsfInv'
  <2>1. saver' \in [Savers -> SaverRec] /\ \A u \in Savers : saver'[u].step = IF u = t THEN "write" ELSE saver[u].step
    BY <1>0, <1>6 DEF OpenStateFile, SaverStep, SaverRec
  <2>2. HsfTypeOK'
    BY <1>0, <1>6, <2>1 DEF HsfTypeOK, SaverRec, OpenStateFile
  <2> QED
    BY <1>6, <2>1, <2>2 DEF HsfInv, StateKept, Saving, OpenStateFile
<1>7. ASSUME NEW t \in Savers, WriteStateFile(t) PROVE HsfInv'
  <2>1. /\ saver[t].step = "write" /\ saver[t].snap \in PersistedHealState
        /\ stateFile' \in {saver[t].snap, Partial} /\ (stateFile = Emptied => stateFile' = saver[t].snap)
        /\ lastSaved' = (IF undisturbed THEN saver[t].snap ELSE Missing)
        /\ UNCHANGED <<states, running, loading, asks, undisturbed>>
    BY <1>0, <1>7 DEF WriteStateFile, SaverRec
  <2>2. saver' \in [Savers -> SaverRec] /\ \A u \in Savers : saver'[u].step = IF u = t THEN "idle" ELSE saver[u].step
    BY <1>0, <1>7, SaverRecs DEF WriteStateFile, Rest
  <2>3. HsfTypeOK'
    BY <1>0, <2>1, <2>2 DEF HsfTypeOK, SaverRec
  <2>4. ASSUME undisturbed'
        PROVE  stateFile' = lastSaved' /\ \A u \in Savers : saver'[u].step \notin {"open", "write"}
    BY <2>1, <2>2, <2>4 DEF HsfInv, Saving
  <2> QED
    BY <2>3, <2>4 DEF HsfInv, StateKept, Saving
<1>8. ASSUME NEW t \in Savers, SaveStateFails(t) PROVE HsfInv'
  <2>1. saver' \in [Savers -> SaverRec]
    BY <1>0, <1>8, SaverRecs DEF SaveStateFails, Rest
  <2>2. undisturbed' = FALSE /\ HsfTypeOK'
    BY <1>0, <1>8, <2>1 DEF HsfTypeOK, SaverRec, SaveStateFails
  <2> QED
    BY <2>2 DEF HsfInv, StateKept
<1>9. CASE ProcessDies
  <2>1. HsfTypeOK'
    BY <1>0, <1>9, SaverRecs DEF HsfTypeOK, SaverRec, ProcessDies
  <2>2. undisturbed' => undisturbed /\ stateFile' = stateFile /\ lastSaved' = lastSaved /\ stateFile = lastSaved
    BY <1>9 DEF ProcessDies, HsfInv, StateKept
  <2>3. \A t \in Savers : saver'[t].step \notin {"open", "write"}
    BY <1>9, SaverRecs DEF ProcessDies
  <2> QED
    BY <2>1, <2>2, <2>3 DEF HsfInv, StateKept, Saving
<1>10. CASE UNCHANGED hsfVars
    BY <1>0, <1>10, QuietStep DEF hsfVars
<1> QED
    BY <1>0, <1>1, <1>2, <1>3, <1>4, <1>5, <1>6, <1>7, <1>8, <1>9, <1>10 DEF HsfNext, LoopGoesOn

\* The file holds what was saved last, through restarts and restores, as long as
\* saves neither fail, overlap nor are cut off by a crash.
THEOREM StateIsKept == HsfSpec => []StateKept
<1>1. HsfInv /\ [HsfNext]_hsfVars => HsfInv'
    BY HsfStep
<1>2. HsfInv => StateKept
    BY DEF HsfInv
<1> QED
    BY <1>1, <1>2, HsfInitInv, PTL DEF HsfSpec

----------------------------------------------------------------------------
(* The parts side by side. *)

\* What each part keeps.
TransportInv == MpTypeOK /\ HsInv /\ SeInv /\ HpInv /\ RateInv /\ HsfInv

\* Every step is one of one part, the others stutter.
LEMMA OwnSteps ==
    ASSUME [TransportNext]_transportVars
    PROVE  /\ [MpNext]_mpVars /\ [HsNext]_hsVars /\ [SeNext]_seVars
           /\ [HpNext]_hpVars /\ [RlNext]_rlVars /\ [HsfNext]_hsfVars
<1>1. CASE UNCHANGED transportVars
    BY <1>1 DEF transportVars
<1>2. CASE TransportNext
    BY <1>2 DEF TransportNext, Others
<1> QED
    BY <1>1, <1>2

\* So it preserves what each part keeps.
LEMMA TransportStep == TransportInv /\ [TransportNext]_transportVars => TransportInv'
<1> SUFFICES ASSUME TransportInv, [TransportNext]_transportVars PROVE TransportInv'
    OBVIOUS
<1>1. /\ [MpNext]_mpVars /\ [HsNext]_hsVars /\ [SeNext]_seVars
      /\ [HpNext]_hpVars /\ [RlNext]_rlVars /\ [HsfNext]_hsfVars
    BY OwnSteps
<1> QED
    BY <1>1, MpStep, HsStep, SeStep, HpStep, RateInvStep, HsfStep DEF TransportInv

\* The variables of every part have their types, whatever parts take steps.
THEOREM TransportTyped == TransportSpec => []TransportTypeOK
<1>1. TransportInit => TransportInv
    BY MpInitOK, HsInitInv, SeInitInv, HpInitInv, RateInvInit, HsfInitInv DEF TransportInit, TransportInv
<1>2. TransportInv => TransportTypeOK
    BY HpTyped DEF TransportInv, TransportTypeOK, HsInv, SeInv, RateInv, HsfInv
<1> QED
    BY <1>1, <1>2, TransportStep, PTL DEF TransportSpec

\* Side by side every part behaves as it does alone, whatever part takes a step.
THEOREM TransportParts == TransportSpec => MpSpec /\ HsSpec /\ SeSpec /\ HpSpec /\ RlSpec /\ HsfSpec
<1>1. TransportInit => MpInit /\ HsInit /\ SeInit /\ HpInit /\ RlInit /\ HsfInit
    BY DEF TransportInit
<1>2. ASSUME [TransportNext]_transportVars
      PROVE  /\ [MpNext]_mpVars /\ [HsNext]_hsVars /\ [SeNext]_seVars
             /\ [HpNext]_hpVars /\ [RlNext]_rlVars /\ [HsfNext]_hsfVars
    BY <1>2, OwnSteps
<1> QED
    BY <1>1, <1>2, PTL DEF TransportSpec, MpSpec, HsSpec, SeSpec, HpSpec, RlSpec, HsfSpec

\* So the parts keep side by side what each of them promises alone: fragments are
\* handed over once and in order, no HelloACK counts twice, one copy of a session
\* accepts no counter twice and stays closed, a peer counts as punched once it has
\* knocked, the rate holds, and the state file is what was saved last.
THEOREM TransportHolds ==
    TransportSpec => /\ [](HandshakeSound /\ NoReplay /\ PunchSetsSound /\ RateHolds /\ StateKept)
                     /\ StreamInOrder /\ ClosedStaysClosed
<1> QED
    BY TransportParts, StreamRefined, HandshakeIsSound, NoReplayAccepted, ClosedForGood, PunchSetsAreSound,
       LimitHolds, StateIsKept, PTL
=============================================================================
