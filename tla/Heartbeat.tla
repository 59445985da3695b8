----------------------------- MODULE Heartbeat -----------------------------
(***************************************************************************)
(* HeartbeatManager of src/src/vpn/heartbeat.rs.  Its checking thread and  *)
(* the threads that deliver heartbeats share the node table behind one     *)
(* lock, which they keep while they call the HeartbeatCallback: "calling"  *)
(* is the call under way, and whoever needs the lock waits for its return. *)
(*                                                                         *)
(* Sending heartbeats is left out: it changes nothing but send_sequence,   *)
(* which nothing reads, and a send that fails is only logged.              *)
(***************************************************************************)
EXTENDS Nodes, Naturals

CONSTANTS
    Threshold,      \* offline_threshold
    Monitored,      \* nodes the application calls add_node for
    Removed,        \* nodes the application calls remove_node for
    Beating         \* nodes that may send heartbeats

\* A NodeHeartbeatState.  "quiet" stands for last_heartbeat: has nothing come for
\* two intervals?
Beats == [online : BOOLEAN, missed : 0..Threshold, quiet : BOOLEAN]
Beat(online, missed, quiet) == [online |-> online, missed |-> missed, quiet |-> quiet]
Fresh == Beat(TRUE, 0, FALSE)
CallKind == {"online", "offline", "received"}

ASSUME ThresholdAssumption == Threshold \in Nat \ {0} /\ None \notin Beats
ASSUME CallAssumption == None \notin [kind : CallKind, node : Node]
ASSUME MonitoredAssumption == Monitored \cup Removed \cup Beating \subseteq Node \ {Local}

VARIABLES
    hb,             \* nodes: for each node None or its NodeHeartbeatState
    pass,           \* nodes the checking thread's pass has still to look at
    calling,        \* None or the callback under way
    told            \* history: nodes whose last online or offline callback was offline

hbVars == <<hb, pass, calling, told>>

HbInit ==
    /\ hb = [n \in Node |-> None]
    /\ pass = {}
    /\ calling = None
    /\ told = {}

Known(n) == hb[n] # None
Offline(n) == Known(n) /\ ~hb[n].online
Quiet(n) == Known(n) /\ hb[n].quiet

LockFree == pass = {} /\ calling = None

----------------------------------------------------------------------------
(* The operators named ...Mutant are plausible bugs; no specification uses  *)
(* them.                                                                   *)

AddNode(n) ==
    /\ LockFree
    /\ ~Known(n)
    /\ hb' = [hb EXCEPT ![n] = Fresh]
    /\ UNCHANGED <<pass, calling, told>>

RemoveNode(n) ==
    /\ LockFree
    /\ Known(n)
    /\ hb' = [hb EXCEPT ![n] = None]
    /\ UNCHANGED <<pass, calling, told>>

\* Two intervals have passed since the last heartbeat.
FallQuiet(n) ==
    /\ Known(n) /\ ~Quiet(n)
    /\ hb' = [hb EXCEPT ![n] = Beat(@.online, @.missed, TRUE)]
    /\ UNCHANGED <<pass, calling, told>>

\* The checking thread takes the lock for a pass over all nodes.
BeginPass ==
    /\ LockFree
    /\ pass' = {n \in Node : Known(n)}
    /\ pass' # {}
    /\ UNCHANGED <<hb, calling, told>>

Call(kind, n) == calling' = [kind |-> kind, node |-> n]

CheckForgetMutant(n) ==
    /\ n \in pass /\ calling = None
    /\ pass' = pass \ {n}
    /\ IF hb[n].online /\ Quiet(n) /\ hb[n].missed + 1 >= Threshold
         THEN /\ hb' = [hb EXCEPT ![n] = Beat(FALSE, Threshold, TRUE)]
              /\ Call("offline", n) /\ told' = told \cup {n}
         ELSE UNCHANGED <<hb, calling, told>>

\* One node of the pass: an online one that has been quiet has missed a beat, and
\* is offline once it has missed enough of them.
Check(n) ==
    /\ n \in pass /\ calling = None
    /\ pass' = pass \ {n}
    /\ IF hb[n].online /\ Quiet(n)
         THEN LET missed == hb[n].missed + 1 IN
              /\ hb' = [hb EXCEPT ![n] = Beat(missed < Threshold, missed, TRUE)]
              /\ IF missed >= Threshold
                   THEN Call("offline", n) /\ told' = told \cup {n}
                   ELSE UNCHANGED <<calling, told>>
         ELSE UNCHANGED <<hb, calling, told>>

HandleHeartbeatMutant(n) ==
    /\ LockFree
    /\ hb' = [hb EXCEPT ![n] = Fresh]
    /\ Call("received", n)
    /\ UNCHANGED <<pass, told>>

\* handle_heartbeat, up to its first callback; a sender not in the table is
\* entered as an online one.
HandleHeartbeat(n) ==
    /\ LockFree
    /\ hb' = [hb EXCEPT ![n] = Fresh]
    /\ IF Offline(n)
         THEN Call("online", n) /\ told' = told \ {n}
         ELSE Call("received", n) /\ UNCHANGED told
    /\ UNCHANGED pass

\* The callback returns; on_heartbeat_received follows on_node_online.
CallbackReturns ==
    /\ calling # None
    /\ IF calling.kind = "online" THEN Call("received", calling.node) ELSE calling' = None
    /\ UNCHANGED <<hb, pass, told>>

HbStep ==
    \/ \E n \in Monitored : AddNode(n)
    \/ \E n \in Removed : RemoveNode(n)
    \/ BeginPass
    \/ \E n \in Node : FallQuiet(n) \/ Check(n)
    \/ \E n \in Beating : HandleHeartbeat(n)

\* With NoopCallback.
HbSpec == HbInit /\ [][HbStep \/ CallbackReturns]_hbVars

\* The thread keeps making passes: the lock it competes for with the receivers is
\* free most of the time.
HbFairness == SF_hbVars(BeginPass) /\ \A n \in Node : WF_hbVars(Check(n))

FairHbSpec == HbSpec /\ HbFairness /\ WF_hbVars(CallbackReturns)

----------------------------------------------------------------------------
(* Properties. *)

\* The node table and the callback under way have their types; a node is offline
\* exactly when it has missed Threshold beats.
HbTypeOK ==
    /\ hb \in [Node -> Beats \cup {None}]
    /\ pass \subseteq Node
    /\ calling \in [kind : CallKind, node : Node] \cup {None}
    /\ told \subseteq Node
    /\ \A n \in Node : Known(n) => (hb[n].online <=> hb[n].missed < Threshold)

\* The callbacks follow the table: whoever listens to on_node_online and
\* on_node_offline, which are called only on changes, knows which nodes are offline.
CallbacksFollow == \A n \in Node : Known(n) => (Offline(n) <=> n \in told)

\* A node that falls silent is declared offline, however busy the other nodes keep
\* the table.
SilentDeclaredOffline == \A n \in Node : <>[]Quiet(n) => <>[]Offline(n)
=============================================================================
