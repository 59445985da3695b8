------------------------------ MODULE MultiPath ------------------------------
(***************************************************************************)
(* MultiPathManager and its ReorderBuffer (src/src/vpn/multipath.rs).  One   *)
(* manager sends: it numbers the fragments of each piece of data and deals   *)
(* them out to its paths.  Another one receives: its buffer puts the         *)
(* fragments, which arrive in any order, twice or not at all, into their     *)
(* order again.  Nothing in the code sends a fragment a second time.         *)
(*                                                                         *)
(* Scores and latencies only matter through the weight they give a path,     *)
(* counted in tenths here; byte counts and times are left out.               *)
(***************************************************************************)
EXTENDS Integers, Sequences, FiniteSets, FiniteSetsExt, SequencesExt

CONSTANTS
    MaxPath,        \* bound on the paths ever added
    MaxSeq,         \* bound on the fragments ever sent
    MaxFragments,   \* fragments of one piece of data at most
    BufferSize,     \* max_size of the reorder buffer
    Gap,            \* has_timeout's distance (10 in the code)
    DegradedAfter, DeadAfter,   \* losses after which a path changes its state (5 and 20)
    MaxLoss         \* bound on the losses counted

ASSUME MpAssumption ==
    /\ {MaxPath, MaxSeq, MaxFragments, BufferSize, Gap, DegradedAfter, DeadAfter, MaxLoss} \subseteq Nat
    /\ DegradedAfter <= DeadAfter

VARIABLES
    paths,          \* paths: state, lost_packets and weight of each registered path
    nextPathId,     \* next_path_id
    nextSeq,        \* next_seq
    flight,         \* fragments on their way
    buffer,         \* reorder_buffer: numbers of the buffered fragments
    expected,       \* expected_seq
    delivered,      \* history: fragments insert returned since the last clear
    upset           \* history: a fragment was lost, found no room, or was skipped or cleared

pathVars == <<paths, nextPathId>>
bufferVars == <<buffer, expected, delivered>>
mpVars == <<pathVars, nextSeq, flight, bufferVars, upset>>

PathState == {"Active", "Degraded", "Dead"}
Weights == 1..10    \* update_metrics: from 0.1 to 1.0
PathInfo == [state : PathState, lost : 0..MaxLoss, weight : Weights]
Seqs == 0..MaxSeq - 1
Fragment == [seq : Seqs, path : 1..MaxPath]

MpInit ==
    /\ paths = <<>> /\ nextPathId = 1
    /\ nextSeq = 0 /\ flight = {}
    /\ buffer = {} /\ expected = 0 /\ delivered = <<>>
    /\ upset = FALSE

----------------------------------------------------------------------------
(* Paths. *)

AddPath ==
    /\ nextPathId <= MaxPath
    /\ paths' = [p \in DOMAIN paths \cup {nextPathId} |->
                    IF p = nextPathId THEN [state |-> "Active", lost |-> 0, weight |-> 10] ELSE paths[p]]
    /\ nextPathId' = nextPathId + 1
    /\ UNCHANGED <<nextSeq, flight, bufferVars, upset>>

RemovePath(p) ==
    /\ paths' = [q \in DOMAIN paths \ {p} |-> paths[q]]
    /\ UNCHANGED <<nextPathId, nextSeq, flight, bufferVars, upset>>

\* update_path_latency: the new average gives the path any weight in its range.
UpdatePathLatency(p) ==
    /\ \E w \in {1, 10} : paths' = [paths EXCEPT ![p].weight = w]
    /\ UNCHANGED <<nextPathId, nextSeq, flight, bufferVars, upset>>

\* A path may come back to life, but its losses stay counted.
RecordAck(p) ==
    /\ paths' = [paths EXCEPT ![p].state = "Active"]
    /\ UNCHANGED <<nextPathId, nextSeq, flight, bufferVars, upset>>

\* PathInfo::record_loss
OneMoreLost(path) ==
    LET n == path.lost + 1 IN
    [path EXCEPT !.lost = n,
                 !.state = CASE n > DeadAfter -> "Dead"
                             [] n > DegradedAfter /\ n <= DeadAfter -> "Degraded"
                             [] OTHER -> @]

RecordLoss(p) ==
    /\ paths[p].lost < MaxLoss
    /\ paths' = [paths EXCEPT ![p] = OneMoreLost(@)]
    /\ UNCHANGED <<nextPathId, nextSeq, flight, bufferVars, upset>>

----------------------------------------------------------------------------
(* Sending. *)

ActivePaths == {p \in DOMAIN paths : paths[p].state # "Dead"}

\* The sum of the weights of the first k paths (path_weight_accum).
WeightUpTo(order, k) == MapThenSumSet(LAMBDA j : paths[order[j]].weight, 1..k)

\* The path a fragment is given: the first one, in the order the hash map
\* yields them, at which the sum of the weights reaches the fragment's number,
\* or the last one.
PathFor(order, seq) ==
    LET reached == {k \in 1..Len(order) : WeightUpTo(order, k) >= 10 * seq}
    IN order[Min(reached \cup {Len(order)})]

FragmentDataMutant(n) == nextSeq..nextSeq + n - 2

\* fragment_data: the numbers of the n fragments of one piece of data.
FragmentData(n) == nextSeq..nextSeq + n - 1

\* send_via_paths gives out nothing, and uses up no numbers, without a path
\* that is alive.
SendViaPaths ==
    /\ ActivePaths # {}
    /\ \E n \in 1..MaxFragments, order \in SetToSeqs(ActivePaths) :
          /\ nextSeq + n <= MaxSeq
          /\ flight' = flight \cup {[seq |-> s, path |-> PathFor(order, s)] : s \in FragmentData(n)}
          /\ nextSeq' = nextSeq + n
    /\ UNCHANGED <<pathVars, bufferVars, upset>>

----------------------------------------------------------------------------
(* The receiver. *)

\* The first number from e on that is not buffered.
FirstGap(e) == Min({s \in e..MaxSeq : s \notin buffer})

HandOverMutant ==
    /\ expected' = expected + 1
    /\ delivered' = delivered \o [k \in 1..FirstGap(expected + 1) - expected |-> expected + k - 1]
    /\ buffer' = buffer \ (expected + 1..FirstGap(expected + 1) - 1)
    /\ UNCHANGED upset

\* The expected fragment is returned with those that follow it in the buffer.
HandOver ==
    /\ expected' = FirstGap(expected + 1)
    /\ delivered' = delivered \o [k \in 1..expected' - expected |-> expected + k - 1]
    /\ buffer' = buffer \ (expected + 1..expected' - 1)
    /\ UNCHANGED upset

\* insert: an old number is ignored, the expected one handed over, a later
\* one is kept if there is room.
Insert(seq) ==
    \/ seq < expected /\ UNCHANGED <<bufferVars, upset>>
    \/ seq = expected /\ HandOver
    \/ /\ seq > expected
       /\ buffer' = IF Cardinality(buffer) < BufferSize THEN buffer \cup {seq} ELSE buffer
       /\ upset' = (upset \/ seq \notin buffer')
       /\ UNCHANGED <<expected, delivered>>

Arrive(f) ==
    /\ Insert(f.seq)
    /\ flight' = flight \ {f}
    /\ UNCHANGED <<pathVars, nextSeq>>

\* The network delivers a copy.
ArriveTwice(f) ==
    /\ Insert(f.seq)
    /\ UNCHANGED <<pathVars, nextSeq, flight>>

Lose(f) ==
    /\ flight' = flight \ {f}
    /\ upset' = TRUE
    /\ UNCHANGED <<pathVars, nextSeq, bufferVars>>

HasTimeout == buffer # {} /\ Min(buffer) > expected + Gap

\* skip_lost, which the receiver calls when has_timeout tells it to.  The
\* fragment it goes on to stays in the buffer.
SkipLost ==
    /\ HasTimeout
    /\ expected' = Min(buffer)
    /\ upset' = TRUE
    /\ UNCHANGED <<pathVars, nextSeq, flight, buffer, delivered>>

Clear ==
    /\ buffer' = {} /\ expected' = 0 /\ delivered' = <<>>
    /\ upset' = TRUE
    /\ UNCHANGED <<pathVars, nextSeq, flight>>

MpNext ==
    \/ AddPath
    \/ \E p \in DOMAIN paths : RemovePath(p) \/ UpdatePathLatency(p) \/ RecordAck(p) \/ RecordLoss(p)
    \/ SendViaPaths
    \/ \E f \in flight : Arrive(f) \/ ArriveTwice(f) \/ Lose(f)
    \/ SkipLost \/ Clear

MpSpec == MpInit /\ [][MpNext]_mpVars

\* Every fragment that is not lost arrives in the end.
MpFairness == \A s \in Seqs, p \in 1..MaxPath :
                 WF_mpVars(LET f == [seq |-> s, path |-> p] IN f \in flight /\ Arrive(f))

----------------------------------------------------------------------------
(* Properties. *)

\* The variables have their types, and the buffer never holds more than max_size
\* fragments.
MpTypeOK ==
    /\ DOMAIN paths \subseteq 1..MaxPath /\ \A p \in DOMAIN paths : paths[p] \in PathInfo
    /\ nextPathId \in 1..MaxPath + 1
    /\ nextSeq \in 0..MaxSeq
    /\ flight \subseteq Fragment
    /\ buffer \subseteq Seqs /\ Cardinality(buffer) <= BufferSize
    /\ expected \in 0..MaxSeq
    /\ delivered \in Seq(Seqs)
    /\ upset \in BOOLEAN

\* The reader gets the fragments in their order and none twice, however they
\* arrive: the buffer implements OrderedStream.
Stream == INSTANCE OrderedStream WITH out <- delivered, pos <- expected, MaxItem <- MaxSeq
StreamInOrder == Stream!Spec

\* A fragment that was sent is handed over in the end, unless one was lost or
\* found the buffer full, or the receiver skipped or cleared: the stream does
\* not stop by itself.
SentIsDelivered ==
    \A s \in Seqs : (nextSeq > s) ~> (expected > s \/ upset)
=============================================================================
