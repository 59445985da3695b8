------------------------------ MODULE HolePunch ------------------------------
(***************************************************************************)
(* HolePunchManager (src/src/vpn/hole_punch.rs).  punch_hole sends packets   *)
(* to a peer and takes the first packet from it for a hole; any number of    *)
(* calls may be under way at one node.  They share the socket given to       *)
(* bind_socket, and with it the packets that arrive, or each binds its own   *)
(* to the same port, which only one can have.  A socket of one's own does    *)
(* not wait for packets; one that was given may.                             *)
(***************************************************************************)
EXTENDS Integers, Sequences, FiniteSets, SequencesExt

CONSTANTS
    HpNode,         \* nodes
    Caller,         \* calls of punch_hole: pairs of a node and a number
    NoPeer,
    RetryCount,     \* PUNCH_RETRY_COUNT
    MaxInbox,       \* packets a socket holds
    MaxPunches      \* bound on the calls begun

ASSUME HpAssumption ==
    /\ \A c \in Caller : c[1] \in HpNode
    /\ NoPeer \notin HpNode /\ {RetryCount, MaxInbox, MaxPunches} \subseteq Nat /\ RetryCount > 0

VARIABLES
    nat,            \* nat_type: is it symmetric?
    active,         \* active_punches
    punched,        \* punched_peers
    socket,         \* the node's sockets: one of each call, or a given one, which polls or waits
    inbox,          \* senders of the packets that wait at each node
    calls,          \* calls under way
    punches,        \* calls begun
    knocked         \* history: who sent a punch packet to whom

hpVars == <<nat, active, punched, socket, inbox, calls, punches, knocked>>

SocketKind == {"own", "polls", "waits"}
NoPunch == [peer |-> NoPeer, at |-> "idle", attempt |-> 0]

HpInit ==
    /\ nat = [n \in HpNode |-> FALSE]
    /\ active = [n \in HpNode |-> {}] /\ punched = [n \in HpNode |-> {}]
    /\ socket \in {[n \in HpNode |-> k] : k \in SocketKind}
    /\ inbox = [n \in HpNode |-> <<>>]
    /\ calls = [c \in Caller |-> NoPunch]
    /\ punches = 0 /\ knocked = {}

CallsAt(n) == {c \in Caller : c[1] = n /\ calls[c] # NoPunch}
Shared(n) == socket[n] # "own"
HasSocket(n) == Shared(n) \/ CallsAt(n) # {}

\* punch_hole up to its loop.  Without a socket to share, and with the port in
\* use, binding fails; a symmetric NAT and a peer that has a hole end it at once.
PunchHole(c, p) ==
    LET n == c[1] IN
    /\ punches < MaxPunches /\ punches' = punches + 1
    /\ calls[c] = NoPunch /\ p # n
    /\ IF ~nat[n] /\ p \notin punched[n] /\ (Shared(n) \/ CallsAt(n) = {})
       THEN /\ active' = [active EXCEPT ![n] = @ \cup {p}]
            /\ calls' = [calls EXCEPT ![c] = [peer |-> p, at |-> "send", attempt |-> 0]]
       ELSE UNCHANGED <<active, calls>>
    /\ UNCHANGED <<nat, punched, socket, inbox, knocked>>

\* The packet arrives, or is lost, or cannot be sent; the call goes on.
SendPunch(c) ==
    LET n == c[1]  p == calls[c].peer IN
    /\ calls[c].at = "send"
    /\ calls' = [calls EXCEPT ![c].at = "recv"]
    /\ knocked' = knocked \cup {<<n, p>>}
    /\ \/ HasSocket(p) /\ Len(inbox[p]) < MaxInbox /\ inbox' = [inbox EXCEPT ![p] = Append(@, n)]
       \/ UNCHANGED inbox
    /\ UNCHANGED <<nat, active, punched, socket, punches>>

IsValidPunchResponseMutant(sender, expected) == TRUE

\* The sender's id is compared, its address is not.
IsValidPunchResponse(sender, expected) == sender = expected

RecvPunchMutant(c) ==
    LET n == c[1]
        got == inbox[n] # <<>> /\ IsValidPunchResponse(Head(inbox[n]), calls[c].peer)
    IN
    /\ calls[c].at = "recv" /\ (inbox[n] # <<>> \/ socket[n] # "waits")
    /\ inbox' = [inbox EXCEPT ![n] = IF @ = <<>> THEN @ ELSE Tail(@)]
    /\ punched' = IF got THEN [punched EXCEPT ![n] = @ \cup {calls[c].peer}] ELSE punched
    /\ calls' = [calls EXCEPT ![c].at = IF got THEN "leave" ELSE "send"]
    /\ UNCHANGED <<nat, active, socket, punches, knocked>>

\* recv_from.  A packet that is not from the peer is gone; a socket that does not
\* wait may also find nothing.
RecvPunch(c) ==
    LET n == c[1]
        got == inbox[n] # <<>> /\ IsValidPunchResponse(Head(inbox[n]), calls[c].peer)
        last == calls[c].attempt + 1 >= RetryCount
    IN
    /\ calls[c].at = "recv" /\ (inbox[n] # <<>> \/ socket[n] # "waits")
    /\ inbox' = [inbox EXCEPT ![n] = IF @ = <<>> THEN @ ELSE Tail(@)]
    /\ punched' = IF got THEN [punched EXCEPT ![n] = @ \cup {calls[c].peer}] ELSE punched
    /\ calls' = [calls EXCEPT ![c].at = IF got \/ last THEN "leave" ELSE "send",
                              ![c].attempt = IF got \/ last THEN @ ELSE @ + 1]
    /\ UNCHANGED <<nat, active, socket, punches, knocked>>

\* The call ends, with a hole or degraded to the relay.  Its own socket, and
\* with it the hole, goes too.
Leave(c) ==
    LET n == c[1] IN
    /\ calls[c].at = "leave"
    /\ active' = [active EXCEPT ![n] = @ \ {calls[c].peer}]
    /\ calls' = [calls EXCEPT ![c] = NoPunch]
    /\ inbox' = [inbox EXCEPT ![n] = IF Shared(n) THEN @ ELSE <<>>]
    /\ UNCHANGED <<nat, punched, socket, punches, knocked>>

RemovePeer(n, p) ==
    /\ punched' = [punched EXCEPT ![n] = @ \ {p}]
    /\ active' = [active EXCEPT ![n] = @ \ {p}]
    /\ UNCHANGED <<nat, socket, inbox, calls, punches, knocked>>

HpClear(n) ==
    /\ punched' = [punched EXCEPT ![n] = {}] /\ active' = [active EXCEPT ![n] = {}]
    /\ UNCHANGED <<nat, socket, inbox, calls, punches, knocked>>

\* set_nat_type; detect_nat_type always says Cone.
SetNatType(n) ==
    /\ nat' = [nat EXCEPT ![n] = ~@]
    /\ UNCHANGED <<active, punched, socket, inbox, calls, punches, knocked>>

Punching(c) == SendPunch(c) \/ RecvPunch(c) \/ Leave(c)

HpNext ==
    \/ \E c \in Caller : Punching(c) \/ \E p \in HpNode : PunchHole(c, p)
    \/ \E n \in {c[1] : c \in Caller} : HpClear(n) \/ SetNatType(n) \/ \E p \in HpNode \ {n} : RemovePeer(n, p)

HpSpec == HpInit /\ [][HpNext]_hpVars

\* A thread in punch_hole is blocked only by recv_from on a socket that waits; the
\* locks are held for one statement.
HpFairness == \A c \in Caller : WF_hpVars(Punching(c))

----------------------------------------------------------------------------
(* Properties. *)

\* The variables have their types.
HpTypeOK ==
    /\ nat \in [HpNode -> BOOLEAN] /\ socket \in [HpNode -> SocketKind]
    /\ active \in [HpNode -> SUBSET HpNode] /\ punched \in [HpNode -> SUBSET HpNode]
    /\ \A n \in HpNode : Len(inbox[n]) <= MaxInbox /\ ToSet(inbox[n]) \subseteq HpNode
    /\ calls \in [Caller -> [peer : HpNode \cup {NoPeer}, at : {"idle", "send", "recv", "leave"}, attempt : 0..RetryCount - 1]]
    /\ punches \in 0..MaxPunches

\* active_punches never keeps an entry that no call is working on, whatever calls
\* for the same peer, removals and clears come between.
ActiveIsRunning == \A n \in HpNode : active[n] \subseteq {calls[c].peer : c \in CallsAt(n)}

\* A peer is recorded as punched only if it sent a packet to this node itself,
\* although calls for different peers read from the same socket.
PunchedHasKnocked == \A n \in HpNode : \A p \in punched[n] : <<p, n>> \in knocked

\* Both sets of peers tell the truth.
PunchSetsSound == ActiveIsRunning /\ PunchedHasKnocked

\* punch_hole always comes back, unless it reads from a socket that waits, which
\* bind_socket takes as it is: there the call may wait for a packet for ever.
PunchEnds == \A c \in Caller :
    (calls[c] # NoPunch /\ socket[c[1]] # "waits") ~> (calls[c] = NoPunch)
=============================================================================
