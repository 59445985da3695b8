------------------------------ MODULE LanRouter ------------------------------
(***************************************************************************)
(* LanRouter (src/src/lan_router.rs): nodes of one LAN find each other with  *)
(* UDP broadcasts.  The receive thread answers a Discover before it records  *)
(* who sent it, and may still handle one frame after stop().  A frame is its *)
(* type, its sender and the node it reaches; parse_udp_frame refuses others. *)
(***************************************************************************)
EXTENDS Integers, FiniteSets

CONSTANTS
    LanHost,        \* the nodes of the LAN, by name
    Nobody,         \* no entry, no target, no thread
    OnlineFor,      \* is_online: seen for less than this
    MaxLanTime, MaxAir  \* bounds on the clock and on the frames on their way

LanEntry == [seen : 0..MaxLanTime, status : {"Online", "Offline"}]

ASSUME LanAssumption ==
    /\ {OnlineFor, MaxLanTime, MaxAir} \subseteq Nat
    /\ Nobody \notin LanHost \cup LanEntry /\ LanHost \cap {"none", "recv"} = {}

VARIABLES
    lanNodes,       \* nodes: what each node knows of the others
    bound,          \* socket: the nodes whose UDP port is bound
    lanUp,          \* running
    reader,         \* the receive threads: in recv_from, or about to record a sender
    sender,         \* the target of a send that waits for the answers to its broadcast
    air,            \* frames on their way
    mailbox,        \* received_data: the nodes that hold data
    lanClock,
    repliedBy       \* history: repliedBy[n]: other nodes whose DiscoverReply n has taken

lanVars == <<lanNodes, bound, lanUp, reader, sender, air, mailbox, lanClock, repliedBy>>

LanFrame == [type : {"Discover", "DiscoverReply", "Data", "Heartbeat"}, from : LanHost, to : LanHost]

LanInit ==
    /\ lanNodes = [n \in LanHost |-> [m \in LanHost |-> Nobody]]
    /\ bound = {} /\ lanUp = {}
    /\ reader = [n \in LanHost |-> "none"]
    /\ sender = [n \in LanHost |-> Nobody]
    /\ air = {} /\ mailbox = {} /\ lanClock = 0
    /\ repliedBy = [n \in LanHost |-> {}]

IsOnline(n, m) == lanNodes[n][m] # Nobody /\ lanClock - lanNodes[n][m].seen < OnlineFor

\* A broadcast reaches its sender, too.
Broadcast(n) == {[type |-> "Discover", from |-> n, to |-> m] : m \in LanHost}
Data(n, m) == {[type |-> "Data", from |-> n, to |-> m]}
PutInAir(frames) == air' = air \cup frames /\ Cardinality(air') <= MaxAir

RecordMutant(n, m) == lanNodes' = [lanNodes EXCEPT ![n][m] = [seen |-> lanClock, status |-> "Online"]]

\* A node is recorded under its name, unless the frame is one's own.
Record(n, m) ==
    lanNodes' = IF m = n THEN lanNodes
                ELSE [lanNodes EXCEPT ![n][m] = [seen |-> lanClock, status |-> "Online"]]

\* The receive thread is done with a frame: it ends if the router was stopped.
NextRecv(n) == reader' = [reader EXCEPT ![n] = IF n \in lanUp THEN "recv" ELSE "none"]

----------------------------------------------------------------------------
(* start, stop and the receive thread *)

\* The bind fails while the port is bound, and stop() keeps the socket: a router
\* starts once.
LanStart(n) ==
    /\ n \notin bound
    /\ bound' = bound \cup {n} /\ lanUp' = lanUp \cup {n}
    /\ reader' = [reader EXCEPT ![n] = "recv"]
    /\ PutInAir(Broadcast(n))
    /\ UNCHANGED <<lanNodes, sender, mailbox, lanClock, repliedBy>>

LanStop(n) ==
    /\ n \in lanUp /\ lanUp' = lanUp \ {n}
    /\ UNCHANGED <<lanNodes, bound, reader, sender, air, mailbox, lanClock, repliedBy>>

\* recv_from times out, and the thread looks at the running flag.
RecvTimeout(n) ==
    /\ reader[n] = "recv" /\ n \notin lanUp
    /\ NextRecv(n)
    /\ UNCHANGED <<lanNodes, bound, lanUp, sender, air, mailbox, lanClock, repliedBy>>

Taken(n, f) == reader[n] = "recv" /\ f \in air /\ f.to = n

HandleDiscoverMutant(n, f) ==
    /\ Taken(n, f) /\ f.type = "Discover"
    /\ air' = (air \ {f}) \cup {[type |-> "DiscoverReply", from |-> n, to |-> f.from]}
    /\ NextRecv(n)
    /\ UNCHANGED <<lanNodes, bound, lanUp, sender, mailbox, lanClock, repliedBy>>

\* The answer is sent first; the sender is recorded in a step of its own.
HandleDiscover(n, f) ==
    /\ Taken(n, f) /\ f.type = "Discover"
    /\ air' = (air \ {f}) \cup {[type |-> "DiscoverReply", from |-> n, to |-> f.from]}
    /\ reader' = [reader EXCEPT ![n] = f.from]
    /\ UNCHANGED <<lanNodes, bound, lanUp, sender, mailbox, lanClock, repliedBy>>

RecordDiscoverer(n) ==
    /\ reader[n] \in LanHost
    /\ Record(n, reader[n])
    /\ NextRecv(n)
    /\ UNCHANGED <<bound, lanUp, sender, air, mailbox, lanClock, repliedBy>>

HandleReply(n, f) ==
    /\ Taken(n, f) /\ f.type = "DiscoverReply"
    /\ air' = air \ {f}
    /\ Record(n, f.from)
    /\ NextRecv(n)
    /\ repliedBy' = [repliedBy EXCEPT ![n] = @ \cup ({f.from} \ {n})]
    /\ UNCHANGED <<bound, lanUp, sender, mailbox, lanClock>>

HandleData(n, f) ==
    /\ Taken(n, f) /\ f.type = "Data"
    /\ air' = air \ {f}
    /\ mailbox' = mailbox \cup {n}
    /\ NextRecv(n)
    /\ UNCHANGED <<lanNodes, bound, lanUp, sender, lanClock, repliedBy>>

\* A heartbeat refreshes a node that is known.
HandleHeartbeat(n, f) ==
    /\ Taken(n, f) /\ f.type = "Heartbeat"
    /\ air' = air \ {f}
    /\ lanNodes' = IF lanNodes[n][f.from] = Nobody THEN lanNodes
                   ELSE [lanNodes EXCEPT ![n][f.from] = [seen |-> lanClock, status |-> "Online"]]
    /\ NextRecv(n)
    /\ UNCHANGED <<bound, lanUp, sender, mailbox, lanClock, repliedBy>>

----------------------------------------------------------------------------
(* send, update_node_status, take_received_data *)

\* Data goes to the address of a node that is known, online or not; for another
\* one the router broadcasts and waits.  Without a socket either fails.
LanSend(n, m) ==
    /\ n \in bound /\ sender[n] = Nobody
    /\ IF lanNodes[n][m] # Nobody
       THEN PutInAir(Data(n, m)) /\ UNCHANGED sender
       ELSE PutInAir(Broadcast(n)) /\ sender' = [sender EXCEPT ![n] = m]
    /\ UNCHANGED <<lanNodes, bound, lanUp, reader, mailbox, lanClock, repliedBy>>

\* After half a second: the node answered, or the send fails.
SendRetry(n) ==
    /\ sender[n] # Nobody
    /\ IF lanNodes[n][sender[n]] # Nobody THEN PutInAir(Data(n, sender[n])) ELSE UNCHANGED air
    /\ sender' = [sender EXCEPT ![n] = Nobody]
    /\ UNCHANGED <<lanNodes, bound, lanUp, reader, mailbox, lanClock, repliedBy>>

UpdateNodeStatus(n) ==
    /\ lanNodes' = [lanNodes EXCEPT ![n] = [m \in LanHost |->
          IF @[m] # Nobody /\ ~IsOnline(n, m) THEN [@[m] EXCEPT !.status = "Offline"] ELSE @[m]]]
    /\ UNCHANGED <<bound, lanUp, reader, sender, air, mailbox, lanClock, repliedBy>>

TakeReceivedData(n) ==
    /\ n \in mailbox /\ mailbox' = mailbox \ {n}
    /\ UNCHANGED <<lanNodes, bound, lanUp, reader, sender, air, lanClock, repliedBy>>

\* UDP loses frames, and another implementation sends the heartbeats that
\* this one only understands.
LanLose(f) ==
    /\ f \in air /\ air' = air \ {f}
    /\ UNCHANGED <<lanNodes, bound, lanUp, reader, sender, mailbox, lanClock, repliedBy>>

SendHeartbeat(n, m) ==
    /\ PutInAir({[type |-> "Heartbeat", from |-> n, to |-> m]})
    /\ UNCHANGED <<lanNodes, bound, lanUp, reader, sender, mailbox, lanClock, repliedBy>>

LanTick ==
    /\ lanClock < MaxLanTime /\ lanClock' = lanClock + 1
    /\ UNCHANGED <<lanNodes, bound, lanUp, reader, sender, air, mailbox, repliedBy>>

LanNext ==
    \/ \E n \in LanHost :
          \/ LanStart(n) \/ LanStop(n) \/ RecvTimeout(n) \/ RecordDiscoverer(n)
          \/ SendRetry(n) \/ UpdateNodeStatus(n) \/ TakeReceivedData(n)
          \/ \E m \in LanHost \ {n} : LanSend(n, m) \/ SendHeartbeat(n, m)
          \/ \E f \in air : HandleDiscover(n, f) \/ HandleReply(n, f) \/ HandleData(n, f) \/ HandleHeartbeat(n, f)
    \/ \E f \in air : LanLose(f)
    \/ LanTick

LanSpec == LanInit /\ [][LanNext]_lanVars

----------------------------------------------------------------------------
(* Properties. *)

\* The tables, threads and frames have their types, and no node lists itself.
LanTypeOK ==
    /\ lanNodes \in [LanHost -> [LanHost -> LanEntry \cup {Nobody}]]
    /\ reader \in [LanHost -> {"none", "recv"} \cup LanHost]
    /\ sender \in [LanHost -> LanHost \cup {Nobody}]
    /\ air \subseteq LanFrame /\ lanClock \in 0..MaxLanTime
    /\ \A n \in LanHost : lanNodes[n][n] = Nobody

\* Discovery is mutual: a node whose answer n has taken knows n, or its thread,
\* which answers first, is about to record it.
Acquainted ==
    \A n \in LanHost : \A m \in repliedBy[n] : lanNodes[m][n] # Nobody \/ reader[m] = n

\* A node marked Offline was not heard for the five seconds: whatever is heard of
\* it puts its status right, too.
OfflineWasSilent ==
    \A n, m \in LanHost : lanNodes[n][m] # Nobody /\ lanNodes[n][m].status = "Offline" => ~IsOnline(n, m)

\* The node tables of a LAN: mutual, and with statuses that follow what is heard.
LanTableSound == Acquainted /\ OfflineWasSilent
=============================================================================
