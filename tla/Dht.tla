--------------------------------- MODULE Dht ---------------------------------
(***************************************************************************)
(* DhtManager (src/src/vpn/dht.rs): the K-bucket routing tables of several   *)
(* nodes, the messages with which they find each other, the refresh that     *)
(* drops nodes, and the values they keep with a time to live.  Messages may  *)
(* be lost, late and repeated.                                               *)
(*                                                                         *)
(* A node id is a sequence of bits.  Addresses are left out except for the   *)
(* placeholder id under which bootstrap_from_nodes enters every bootstrap    *)
(* node.  put_value hashes the key; here a key stands for its hash.          *)
(***************************************************************************)
EXTENDS Integers, Sequences, FiniteSets, FiniteSetsExt, SequencesExt

CONSTANTS
    Bits,           \* bits of an id, 256 in the code
    DhtNode,        \* ids of the nodes
    Manager,        \* the nodes whose tables are modelled
    K,              \* K_BUCKET_SIZE
    StaleAfter,     \* NODE_TIMEOUT_SECS / 2
    Key, Value, NoValue,
    Ttls,           \* times to live
    Wrap,           \* 2^64: created_at + ttl is computed modulo this
    MaxDhtTime, MaxDhtMsgs  \* bounds on the clock and on the messages under way

Placeholder == [i \in 1..Bits |-> 0]

ASSUME DhtAssumption ==
    /\ {Bits, K, StaleAfter, MaxDhtTime, MaxDhtMsgs} \subseteq Nat /\ Bits > 0
    /\ DhtNode \subseteq [1..Bits -> {0, 1}] /\ IsFiniteSet(DhtNode) /\ Manager \subseteq DhtNode \ {Placeholder}
    /\ Wrap \in Nat /\ Wrap > 0 /\ Ttls \subseteq 0..Wrap - 1
    /\ NoValue \notin [value : Value, created : 0..MaxDhtTime, ttl : Ttls]

VARIABLES
    buckets,        \* buckets[m][i]: entries of bucket i, the front one first
    refreshing,     \* refreshing[m]: nodes refresh still has to remove, with their bucket
    dhtWire,        \* messages under way
    values,         \* values[m]: value, created_at and ttl by key
    dhtTime,
    lastPut         \* history: the last value put for each key and when it expires

bucketVars == <<buckets, refreshing, dhtWire>>
valueVars == <<values, lastPut>>
dhtVars == <<bucketVars, valueVars, dhtTime>>

Bucket == 0..Bits - 1
DhtMessageType == {"Ping", "Pong", "FindNode", "Nodes"}

\* The bits that differ, read as a number.
XorDistance(a, b) ==
    LET d[i \in 0..Bits] == IF i = 0 THEN 0 ELSE 2 * d[i - 1] + IF a[i] = b[i] THEN 0 ELSE 1
    IN  d[Bits]

\* a comes before b in the order of cmp_xor.
Closer(a, b, target) == XorDistance(target, a) < XorDistance(target, b)

\* The number of leading bits on which two ids agree.
BucketIndex(a, b) ==
    IF a = b THEN Bits - 1 ELSE Min({i \in 1..Bits : a[i] # b[i]}) - 1

DhtInit ==
    /\ buckets = [m \in Manager |-> [i \in Bucket |-> <<>>]]
    /\ refreshing = [m \in Manager |-> {}]
    /\ dhtWire = {} /\ dhtTime = 0
    /\ values = [m \in Manager |-> [k \in Key |-> NoValue]]
    /\ lastPut = [m \in Manager |-> [k \in Key |-> NoValue]]

----------------------------------------------------------------------------
(* Buckets. *)

Ids(bucket) == {e.id : e \in ToSet(bucket)}

KInsertMutant(bucket, id) ==
    IF Len(bucket) < K THEN Append(bucket, [id |-> id, seen |-> dhtTime]) ELSE bucket

\* KBucket::insert.  A node that is there already keeps its place; a full bucket
\* takes nobody (what is returned then is the new node, not the oldest).
KInsert(bucket, id) ==
    CASE id \in Ids(bucket) -> [k \in 1..Len(bucket) |-> IF bucket[k].id = id THEN [id |-> id, seen |-> dhtTime] ELSE bucket[k]]
      [] id \notin Ids(bucket) /\ Len(bucket) < K -> Append(bucket, [id |-> id, seen |-> dhtTime])
      [] OTHER -> bucket

Without(bucket, id) ==
    LET kept[k \in 0..Len(bucket)] ==
            IF k = 0 THEN <<>>
            ELSE IF bucket[k].id # id THEN Append(kept[k - 1], bucket[k])
            ELSE kept[k - 1]
    IN  kept[Len(bucket)]

\* KBucket::touch: to the end, if it is there.
KTouch(bucket, id) ==
    IF id \in Ids(bucket) THEN Append(Without(bucket, id), [id |-> id, seen |-> dhtTime]) ELSE bucket

AfterInsert(m, table, id) ==
    IF id = m THEN table ELSE [table EXCEPT ![BucketIndex(m, id)] = KInsert(@, id)]
AfterInserts(m, table, list) ==
    LET t[k \in 0..Len(list)] == IF k = 0 THEN table ELSE AfterInsert(m, t[k - 1], list[k])
    IN  t[Len(list)]
AfterTouch(m, table, id) ==
    IF id = m THEN table ELSE [table EXCEPT ![BucketIndex(m, id)] = KTouch(@, id)]

\* insert_node, for a node met otherwise (a connection, the registry).
InsertNode(m, id) ==
    /\ buckets' = [buckets EXCEPT ![m] = AfterInsert(m, @, id)]
    /\ UNCHANGED <<refreshing, dhtWire, valueVars, dhtTime>>

RemoveNode(m, id) ==
    /\ id # m /\ buckets' = [buckets EXCEPT ![m][BucketIndex(m, id)] = Without(@, id)]
    /\ UNCHANGED <<refreshing, dhtWire, valueVars, dhtTime>>

\* bootstrap_from_nodes: every bootstrap node gets the same id.
BootstrapFromNodes(m) ==
    /\ buckets' = [buckets EXCEPT ![m] = AfterInsert(m, @, Placeholder)]
    /\ UNCHANGED <<refreshing, dhtWire, valueVars, dhtTime>>

\* refresh looks at a bucket: if its front entry is stale, all its nodes are to be
\* removed, one at a time and without a ping.
RefreshList(m, i) ==
    /\ refreshing[m] = {} /\ buckets[m][i] # <<>>
    /\ dhtTime - Head(buckets[m][i]).seen > StaleAfter
    /\ refreshing' = [refreshing EXCEPT ![m] = {<<i, id>> : id \in Ids(buckets[m][i])}]
    /\ UNCHANGED <<buckets, dhtWire, valueVars, dhtTime>>

RefreshRemove(m) ==
    \E x \in refreshing[m] :
       /\ buckets' = [buckets EXCEPT ![m][x[1]] = Without(@, x[2])]
       /\ refreshing' = [refreshing EXCEPT ![m] = @ \ {x}]
       /\ UNCHANGED <<dhtWire, valueVars, dhtTime>>

----------------------------------------------------------------------------
(* Messages. *)

Known(m) == UNION {Ids(buckets[m][i]) : i \in Bucket}

\* find_nearest: the K known nodes closest to the target.
FindNearest(m, target) ==
    {id \in Known(m) : Cardinality({o \in Known(m) : Closer(o, id, target)}) < K}

DhtSend(msgs) == Cardinality(dhtWire \cup msgs) <= MaxDhtMsgs /\ dhtWire' = dhtWire \cup msgs

\* A node asks another one it knows.
Query(m, type, to) ==
    /\ to \in Known(m)
    /\ \E target \in IF type = "FindNode" THEN DhtNode ELSE {m} :
          DhtSend({[type |-> type, from |-> m, to |-> to, target |-> target, nodes |-> {}]})
    /\ UNCHANGED <<buckets, refreshing, valueVars, dhtTime>>

\* A node whose table is not modelled sends anything, asked for or not.
PeerSends(n, m) ==
    /\ n \in DhtNode \ Manager
    /\ \E type \in DhtMessageType, target \in DhtNode :
       \E nodes \in IF type = "Nodes" THEN SUBSET (DhtNode \cup {Placeholder}) ELSE {{}} :
          DhtSend({[type |-> type, from |-> n, to |-> m, target |-> target, nodes |-> nodes]})
    /\ UNCHANGED <<buckets, refreshing, valueVars, dhtTime>>

\* process_message, for the messages about nodes.  An answer goes to the sender,
\* who does not have to be in the table; he is not entered either.  A list is
\* inserted one node after the other; its order is left open, as other nodes send
\* theirs in any.
Answers(msg) ==
    CASE msg.type = "Ping" -> {[msg EXCEPT !.type = "Pong", !.from = msg.to, !.to = msg.from]}
      [] msg.type = "FindNode" -> {[msg EXCEPT !.type = "Nodes", !.from = msg.to, !.to = msg.from,
                                               !.nodes = FindNearest(msg.to, msg.target)]}
      [] OTHER -> {}

ProcessMessage(msg) ==
    LET m == msg.to IN
    /\ m \in Manager
    /\ \E list \in SetToSeqs(msg.nodes) :
          buckets' = [buckets EXCEPT ![m] =
              IF msg.type = "Nodes" THEN AfterInserts(m, @, list)
              ELSE IF msg.type \in {"Ping", "Pong"} THEN AfterTouch(m, @, msg.from) ELSE @]
    /\ dhtWire' = (dhtWire \ {msg}) \cup Answers(msg)
    /\ UNCHANGED <<refreshing, valueVars, dhtTime>>

DhtLose(msg) ==
    /\ dhtWire' = dhtWire \ {msg}
    /\ UNCHANGED <<buckets, refreshing, valueVars, dhtTime>>

----------------------------------------------------------------------------
(* Values. *)

\* put_value
PutValue(m, k, v, ttl) ==
    /\ values' = [values EXCEPT ![m][k] = [value |-> v, created |-> dhtTime, ttl |-> ttl]]
    /\ lastPut' = [lastPut EXCEPT ![m][k] = [value |-> v, until |-> dhtTime + ttl]]
    /\ UNCHANGED <<bucketVars, dhtTime>>

\* A Put message does the same with whatever key, value and time to live it holds.
HandlePut(m, k, v, ttl) == PutValue(m, k, v, ttl)

IsExpiredMutant(v) == dhtTime > (v.created + v.ttl) % Wrap

\* The sum wraps around (in a build that checks for overflow it panics, with the
\* values locked).
ValueExpired(v) == dhtTime >= (v.created + v.ttl) % Wrap

\* get_value and the answer to a Get message.
GetValue(m, k) ==
    IF values[m][k] = NoValue THEN NoValue
    ELSE IF ValueExpired(values[m][k]) THEN NoValue ELSE values[m][k].value

CleanupValues(m) ==
    /\ values' = [values EXCEPT ![m] = [k \in Key |-> IF @[k] # NoValue /\ ValueExpired(@[k]) THEN NoValue ELSE @[k]]]
    /\ UNCHANGED <<bucketVars, lastPut, dhtTime>>

DhtTick ==
    /\ dhtTime < MaxDhtTime /\ dhtTime' = dhtTime + 1
    /\ UNCHANGED <<bucketVars, valueVars>>

TableNext ==
    \/ \E m \in Manager : \/ \E id \in DhtNode : InsertNode(m, id) \/ RemoveNode(m, id)
                          \/ BootstrapFromNodes(m)
                          \/ \E i \in Bucket : RefreshList(m, i)
                          \/ RefreshRemove(m)
                          \/ \E type \in {"Ping", "FindNode"}, to \in DhtNode : Query(m, type, to)
                          \/ \E n \in DhtNode : PeerSends(n, m)
    \/ \E msg \in dhtWire : ProcessMessage(msg) \/ DhtLose(msg)
    \/ DhtTick

ValueNext ==
    \/ \E m \in Manager : \/ \E k \in Key, v \in Value, ttl \in Ttls : PutValue(m, k, v, ttl) \/ HandlePut(m, k, v, ttl)
                          \/ CleanupValues(m)
    \/ DhtTick

DhtSpec == DhtInit /\ [][TableNext \/ ValueNext]_dhtVars

----------------------------------------------------------------------------
(* Properties. *)

\* The variables have their types.
DhtTypeOK ==
    /\ \A m \in Manager, i \in Bucket : \A e \in ToSet(buckets[m][i]) :
          e.id \in DhtNode \cup {Placeholder} /\ e.seen \in 0..dhtTime
    /\ dhtWire \subseteq [type : DhtMessageType, from : DhtNode, to : DhtNode \cup {Placeholder},
                          target : DhtNode, nodes : SUBSET (DhtNode \cup {Placeholder})]
    /\ dhtTime \in 0..MaxDhtTime

\* A routing table is sound whatever lists arrive in whatever order while a
\* refresh removes nodes: every node is in it once, in its own bucket, no bucket
\* is over its limit, and the node itself is not in it.
TablesExact ==
    \A m \in Manager, i \in Bucket :
       /\ Len(buckets[m][i]) <= K
       /\ IsInjective([k \in 1..Len(buckets[m][i]) |-> buckets[m][i][k].id])
       /\ \A id \in Ids(buckets[m][i]) : id # m /\ BucketIndex(m, id) = i

\* The order of the buckets is the order of the distances: a node in a later
\* bucket is closer than any node in an earlier one.
BucketsByDistance ==
    \A m \in Manager, i, j \in Bucket : i < j =>
       \A a \in Ids(buckets[m][i]), b \in Ids(buckets[m][j]) : Closer(b, a, m)

\* A routing table is what find_nearest takes it for.
TableSound == TablesExact /\ BucketsByDistance

\* A value is served exactly until its time to live is over, and it is the last
\* one put, however cleanups come between; only a time to live that overflows
\* ends too early.
ValuesExact ==
    \A m \in Manager, k \in Key : lastPut[m][k] # NoValue =>
       /\ dhtTime >= lastPut[m][k].until => GetValue(m, k) = NoValue
       /\ dhtTime < lastPut[m][k].until /\ lastPut[m][k].until < Wrap => GetValue(m, k) = lastPut[m][k].value
=============================================================================
