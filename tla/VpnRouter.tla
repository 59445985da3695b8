------------------------------ MODULE VpnRouter ------------------------------
(***************************************************************************)
(* VpnRouter (src/src/vpn/vpn_router.rs) on its RelayManager and TcpServer   *)
(* (src/src/vpn/relay.rs): threads accept and read connections into one      *)
(* queue, which a polling thread hands to the listeners; callers send and    *)
(* ping, by LAN first, then by TCP.  LAN and TCP sends succeed or fail.      *)
(***************************************************************************)
EXTENDS Integers, Sequences, FiniteSets, SequencesExt

CONSTANTS
    Link,           \* connections of peers
    Pinger,         \* calls of ping_node, which are their ping ids too
    VpnTarget,      \* nodes to send to
    NoTarget,
    MaxLoops,       \* bound on the receive loops that run at once
    MaxFrames       \* bound on the frames that peers write

ASSUME VrAssumption == {MaxLoops, MaxFrames} \subseteq Nat /\ NoTarget \notin VpnTarget

VARIABLES
    vpnRunning, srvRunning,     \* running of VpnRouter and of TcpServer
    accepting,                  \* the accept thread, which owns the listening socket
    connState, wire,            \* the connections' threads, and what they have yet to read
    received,                   \* TcpServer.received
    loop, batch,                \* the receive loops and what they took out of received
    listeners,                  \* in the order of registration: "user", or the ping it belongs to
    pingState, target, channel, \* calls of ping_node: the channel holds the PONG
    knownAddr, relayTable,      \* known_nodes and relay_table of the RelayManager
    knownNodes,                 \* known_nodes of the VpnRouter: how a node was reached last
    sentBy, written,            \* history: data frames of a connection, frames of all
    heard,                      \* history: the data the user's listener was called with
    pinged, answered,           \* history: pings whose PING left, whose PONG a peer wrote
    doubled                     \* history: has a loop been started while another one ran?

serverVars == <<srvRunning, accepting, connState, wire>>
loopVars == <<loop, batch, doubled>>
pingVars == <<pingState, target, channel, pinged>>
sendVars == <<knownAddr, relayTable, knownNodes>>
peerVars == <<sentBy, written, answered>>
vrVars == <<vpnRunning, serverVars, received, loopVars, listeners, pingVars, sendVars, peerVars, heard>>

Loop == 1..MaxLoops
DataFrame(c, k) == [type |-> "Data", conn |-> c, no |-> k]
PongFrame(p) == [type |-> "Data", pong |-> p]
OtherFrame == [type |-> "Other"]        \* any other MessageType
BadFrame == [type |-> "Bad"]            \* an unknown type, or longer than 1 MB
IsPong(f) == "pong" \in DOMAIN f
IsUserData(f) == "conn" \in DOMAIN f

VrInit ==
    /\ vpnRunning = FALSE /\ srvRunning = FALSE /\ accepting = FALSE
    /\ connState = [c \in Link |-> "none"] /\ wire = [c \in Link |-> <<>>] /\ received = <<>>
    /\ loop = [l \in Loop |-> "none"] /\ batch = [l \in Loop |-> <<>>] /\ listeners = <<>>
    /\ pingState = [p \in Pinger |-> "idle"] /\ target = [p \in Pinger |-> NoTarget]
    /\ channel = [p \in Pinger |-> FALSE]
    /\ knownAddr = {} /\ relayTable = {} /\ knownNodes = [t \in VpnTarget |-> "unknown"]
    /\ sentBy = [c \in Link |-> 0] /\ written = 0 /\ heard = <<>> /\ pinged = {} /\ answered = {} /\ doubled = FALSE

----------------------------------------------------------------------------
(* start and stop *)

\* The bind fails as long as the accept thread of an earlier start is alive.  The
\* receive loop of an earlier start may be: it sees the flag set again and goes on.
Start ==
    /\ ~accepting /\ ~vpnRunning
    /\ srvRunning' = TRUE /\ accepting' = TRUE /\ vpnRunning' = TRUE
    /\ \E l \in Loop : loop[l] = "none" /\ loop' = [loop EXCEPT ![l] = "poll"]
    /\ doubled' = (doubled \/ \E l \in Loop : loop[l] # "none")
    /\ UNCHANGED <<connState, wire, received, batch, listeners, pingVars, sendVars, peerVars, heard>>

Stop ==
    /\ vpnRunning /\ vpnRunning' = FALSE /\ srvRunning' = FALSE
    /\ UNCHANGED <<accepting, connState, wire, received, loopVars, listeners, pingVars, sendVars, peerVars, heard>>

----------------------------------------------------------------------------
(* TcpServer: the accept thread and a thread per connection *)

Accept(c) ==
    /\ accepting /\ connState[c] = "none"
    /\ connState' = [connState EXCEPT ![c] = "reading"]
    /\ UNCHANGED <<vpnRunning, srvRunning, accepting, wire, received, loopVars, listeners, pingVars, sendVars, peerVars, heard>>

AcceptEnd ==
    /\ accepting /\ ~srvRunning /\ accepting' = FALSE
    /\ UNCHANGED <<vpnRunning, srvRunning, connState, wire, received, loopVars, listeners, pingVars, sendVars, peerVars, heard>>

\* handle_connection and read_message: a frame that cannot be read ends the
\* thread and with it the connection, and so does stop(), after one more frame.
ReadMessage(c) ==
    /\ connState[c] = "reading" /\ wire[c] # <<>>
    /\ wire' = [wire EXCEPT ![c] = IF Head(@).type = "Bad" THEN <<>> ELSE Tail(@)]
    /\ received' = IF Head(wire[c]).type = "Bad" THEN received ELSE Append(received, Head(wire[c]))
    /\ connState' = [connState EXCEPT ![c] = IF srvRunning /\ Head(wire[c]).type # "Bad" THEN "reading" ELSE "closed"]
    /\ UNCHANGED <<vpnRunning, srvRunning, accepting, loopVars, listeners, pingVars, sendVars, peerVars, heard>>

\* The end of the stream, or nothing to read for 30 seconds.
ReadEnd(c) ==
    /\ connState[c] = "reading" /\ wire[c] = <<>>
    /\ connState' = [connState EXCEPT ![c] = "closed"]
    /\ UNCHANGED <<vpnRunning, srvRunning, accepting, wire, received, loopVars, listeners, pingVars, sendVars, peerVars, heard>>

\* A peer writes: data, a message of another type, one that cannot be read, or
\* the answer to a PING that reached it, at any time and more than once.
PeerWrite(c, f) ==
    /\ connState[c] = "reading" /\ written < MaxFrames /\ written' = written + 1
    /\ \/ f = DataFrame(c, sentBy[c] + 1) /\ sentBy' = [sentBy EXCEPT ![c] = @ + 1] /\ UNCHANGED answered
       \/ f \in {OtherFrame, BadFrame} /\ UNCHANGED <<sentBy, answered>>
       \/ IsPong(f) /\ f.pong \in pinged /\ answered' = answered \cup {f.pong} /\ UNCHANGED sentBy
    /\ wire' = [wire EXCEPT ![c] = Append(@, f)]
    /\ UNCHANGED <<vpnRunning, srvRunning, accepting, connState, received, loopVars, listeners, pingVars, sendVars, heard>>

----------------------------------------------------------------------------
(* The receive loop and the listeners, which are called with their list      *)
(* locked: a message reaches all of them in one step.                        *)

RegisterListener ==
    /\ "user" \notin ToSet(listeners) /\ listeners' = Append(listeners, "user")
    /\ UNCHANGED <<vpnRunning, serverVars, received, loopVars, pingVars, sendVars, peerVars, heard>>

PollMutant(l) ==
    /\ loop[l] = "poll"
    /\ IF vpnRunning THEN loop' = [loop EXCEPT ![l] = "busy"] /\ batch' = [batch EXCEPT ![l] = received]
                     ELSE loop' = [loop EXCEPT ![l] = "none"] /\ UNCHANGED batch
    /\ UNCHANGED <<vpnRunning, serverVars, received, doubled, listeners, pingVars, sendVars, peerVars, heard>>

\* The flag is looked at, and everything received is taken out.
Poll(l) ==
    /\ loop[l] = "poll"
    /\ IF vpnRunning THEN loop' = [loop EXCEPT ![l] = "busy"] /\ batch' = [batch EXCEPT ![l] = received] /\ received' = <<>>
                     ELSE loop' = [loop EXCEPT ![l] = "none"] /\ UNCHANGED <<batch, received>>
    /\ UNCHANGED <<vpnRunning, serverVars, doubled, listeners, pingVars, sendVars, peerVars, heard>>

HitsMutant(p, f) == IsPong(f)

\* The listener of ping p is looking for its own id.
Hits(p, f) == IsPong(f) /\ f.pong = p

\* Messages that are not Data are dropped; a PONG for a call that has returned
\* meets the listener it left behind, whose channel is gone.
Dispatch(l) ==
    /\ loop[l] = "busy" /\ batch[l] # <<>>
    /\ LET f == Head(batch[l]) IN
          /\ heard' = IF IsUserData(f) /\ "user" \in ToSet(listeners) THEN Append(heard, f) ELSE heard
          /\ channel' = [p \in Pinger |-> channel[p] \/ (p \in ToSet(listeners) /\ Hits(p, f)
                                                           /\ pingState[p] \in {"listening", "waiting"})]
    /\ batch' = [batch EXCEPT ![l] = Tail(@)]
    /\ UNCHANGED <<vpnRunning, serverVars, received, loop, doubled, listeners, pingState, target, pinged, sendVars, peerVars>>

\* The batch is done; the loop sleeps and polls again.
Sleep(l) ==
    /\ loop[l] = "busy" /\ batch[l] = <<>>
    /\ loop' = [loop EXCEPT ![l] = "poll"]
    /\ UNCHANGED <<vpnRunning, serverVars, received, batch, doubled, listeners, pingVars, sendVars, peerVars, heard>>

----------------------------------------------------------------------------
(* ping_node and send.  An address that does not resolve fails before any    *)
(* effect.                                                                   *)

\* The call registers a listener, which stays whatever comes of the ping.
PingBegin(p, t) ==
    /\ pingState[p] = "idle"
    /\ pingState' = [pingState EXCEPT ![p] = "listening"] /\ target' = [target EXCEPT ![p] = t]
    /\ listeners' = Append(listeners, p)
    /\ UNCHANGED <<vpnRunning, serverVars, received, loopVars, channel, pinged, sendVars, peerVars, heard>>

PingReturn(p, how) == pingState' = [pingState EXCEPT ![p] = how]

\* If the LAN router takes the PING the call returns without an answer.
PingLan(p) ==
    /\ pingState[p] = "listening"
    /\ PingReturn(p, "lan")
    /\ knownNodes' = [knownNodes EXCEPT ![target[p]] = "Lan"]
    /\ UNCHANGED <<vpnRunning, serverVars, received, loopVars, listeners, target, channel, pinged, knownAddr, relayTable, peerVars, heard>>

\* RelayManager::send to a node whose address is known, or else to its next hop:
\* that message holds the target's id and nothing of the payload.
PingRelay(p) ==
    /\ pingState[p] = "listening"
    /\ \/ target[p] \in knownAddr /\ PingReturn(p, "waiting") /\ pinged' = pinged \cup {p}
       \/ target[p] \in relayTable \ knownAddr /\ PingReturn(p, "waiting") /\ UNCHANGED pinged
       \/ PingReturn(p, "failed") /\ UNCHANGED pinged
    /\ UNCHANGED <<vpnRunning, serverVars, received, loopVars, listeners, target, channel, sendVars, peerVars, heard>>

PingAnswered(p) ==
    /\ pingState[p] = "waiting" /\ channel[p]
    /\ PingReturn(p, "ok")
    /\ knownNodes' = [knownNodes EXCEPT ![target[p]] = "Vpn"]
    /\ UNCHANGED <<vpnRunning, serverVars, received, loopVars, listeners, target, channel, pinged, knownAddr, relayTable, peerVars, heard>>

PingTimeout(p) ==
    /\ pingState[p] = "waiting" /\ ~channel[p]
    /\ PingReturn(p, "timeout")
    /\ UNCHANGED <<vpnRunning, serverVars, received, loopVars, listeners, target, channel, pinged, sendVars, peerVars, heard>>

Send(t) ==
    /\ \/ knownNodes' = [knownNodes EXCEPT ![t] = "Lan"]
       \/ t \in knownAddr \cup relayTable /\ knownNodes' = [knownNodes EXCEPT ![t] = "Vpn"]
    /\ UNCHANGED <<vpnRunning, serverVars, received, loopVars, listeners, pingVars, knownAddr, relayTable, peerVars, heard>>

RegisterNode(t) ==
    /\ knownAddr' = knownAddr \cup {t}
    /\ UNCHANGED <<vpnRunning, serverVars, received, loopVars, listeners, pingVars, relayTable, knownNodes, peerVars, heard>>

SetRelay(t) ==
    /\ relayTable' = relayTable \cup {t}
    /\ UNCHANGED <<vpnRunning, serverVars, received, loopVars, listeners, pingVars, knownAddr, knownNodes, peerVars, heard>>

TrafficNext ==
    \/ Start \/ Stop \/ AcceptEnd \/ RegisterListener
    \/ \E c \in Link :
          \/ Accept(c) \/ ReadMessage(c) \/ ReadEnd(c)
          \/ \E f \in {DataFrame(c, sentBy[c] + 1), OtherFrame, BadFrame} : PeerWrite(c, f)
    \/ \E l \in Loop : Poll(l) \/ Dispatch(l) \/ Sleep(l)

PingNext ==
    \/ Start
    \/ \E p \in Pinger :
          \/ \E t \in VpnTarget : PingBegin(p, t)
          \/ PingLan(p) \/ PingRelay(p) \/ PingAnswered(p) \/ PingTimeout(p)
    \/ \E c \in Link :
          \/ Accept(c) \/ ReadMessage(c)
          \/ \E p \in Pinger : PeerWrite(c, PongFrame(p))
    \/ \E l \in Loop : Poll(l) \/ Dispatch(l) \/ Sleep(l)
    \/ \E t \in VpnTarget : Send(t) \/ RegisterNode(t) \/ SetRelay(t)

VrSpec == VrInit /\ [][TrafficNext \/ PingNext]_vrVars

----------------------------------------------------------------------------
(* Properties. *)

\* The threads, calls and tables have their types.
VrTypeOK ==
    /\ {vpnRunning, srvRunning, accepting, doubled} \subseteq BOOLEAN
    /\ connState \in [Link -> {"none", "reading", "closed"}]
    /\ loop \in [Loop -> {"none", "poll", "busy"}]
    /\ pingState \in [Pinger -> {"idle", "listening", "waiting", "lan", "ok", "timeout", "failed"}]
    /\ target \in [Pinger -> VpnTarget \cup {NoTarget}] /\ channel \in [Pinger -> BOOLEAN]
    /\ ToSet(listeners) \subseteq {"user"} \cup Pinger
    /\ knownAddr \subseteq VpnTarget /\ relayTable \subseteq VpnTarget
    /\ knownNodes \in [VpnTarget -> {"unknown", "Lan", "Vpn"}]

\* The listener is called once for a message, although loops, connections and
\* restarts share one queue.
HeardOnce == \A i, j \in DOMAIN heard : heard[i] = heard[j] => i = j

\* The listener hears what came over one connection in the order in which it was
\* written, unless start() after stop() left two loops running.
HeardInOrder ==
    ~doubled => \A i, j \in DOMAIN heard : i < j /\ heard[i].conn = heard[j].conn => heard[i].no < heard[j].no

\* What a listener hears of a connection is what was written to it, in order.
HeardOnceInOrder == HeardOnce /\ HeardInOrder

\* A ping that reports a round trip over TCP had its own PING answered: not the
\* PONG of another call, and never over a relay, which drops the PING.
PongIsOwn == \A p \in Pinger : pingState[p] = "ok" => p \in answered /\ target[p] \in knownAddr
=============================================================================
