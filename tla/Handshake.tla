------------------------------ MODULE Handshake ------------------------------
(***************************************************************************)
(* The Hello / HelloACK / Data exchange of src/src/vpn/handshake.rs between  *)
(* a HandshakeInitiator and a HandshakeResponder.  Messages may be lost,     *)
(* late, repeated and reordered.  The caller may start again: with the same  *)
(* initiator (start_handshake asks for no phase), or with new objects.       *)
(*                                                                         *)
(* Keys are left out: no message of the exchange is encrypted, and nothing   *)
(* the responder checks depends on one.  Time is in seconds, and REPLAY_     *)
(* WINDOW_SECS is ReplayWindow.                                              *)
(***************************************************************************)
EXTENDS Integers, Sequences, FiniteSets

CONSTANTS
    ReplayWindow,
    MaxHsTime,      \* bound on the clock
    MaxStarts       \* bound on the calls that begin an attempt

ASSUME HsAssumption == {ReplayWindow, MaxHsTime, MaxStarts} \subseteq Nat

VARIABLES
    initiator,      \* phase and used_timestamps
    responder,      \* phase and used_timestamps
    wire,           \* messages sent; a copy may arrive at any time
    hsTime,
    starts,         \* attempts begun
    acksTaken,      \* history: timestamps of the HelloACKs this initiator accepted
    again           \* history: an object was replaced or an attempt begun again

hsVars == <<initiator, responder, wire, hsTime, starts, acksTaken, again>>

Phase == {"Init", "HelloSent", "HelloReceived", "HelloAckReceived", "Established"}
HsMsg == [type : {"Hello", "HelloAck", "Data"}, timestamp : 0..MaxHsTime]
Fresh == [phase |-> "Init", used |-> {}]

HsInit ==
    /\ initiator = Fresh /\ responder = Fresh
    /\ wire = {} /\ hsTime = 0 /\ starts = 0
    /\ acksTaken = <<>> /\ again = FALSE

HsSend(type) == wire' = wire \cup {[type |-> type, timestamp |-> hsTime]}

\* validate, and check_replay with the timestamps used before.
Valid(m, used) == hsTime <= m.timestamp + ReplayWindow /\ m.timestamp \notin used

StartHandshake ==
    /\ starts < MaxStarts /\ starts' = starts + 1
    /\ initiator' = [initiator EXCEPT !.phase = "HelloSent"]
    /\ HsSend("Hello")
    /\ again' = (again \/ initiator.phase # "Init")
    /\ UNCHANGED <<responder, hsTime, acksTaken>>

\* (The Hello carries no timestamp of its own; the one here is only its name.)
HandleHello(m) ==
    /\ m.type = "Hello" /\ responder.phase = "Init"
    /\ responder' = [responder EXCEPT !.phase = "HelloReceived"]
    /\ HsSend("HelloAck")
    /\ UNCHANGED <<initiator, hsTime, starts, acksTaken, again>>

HandleHelloAckMutant(m) ==
    /\ m.type = "HelloAck" /\ initiator.phase = "HelloSent"
    /\ Valid(m, initiator.used)
    /\ initiator' = [initiator EXCEPT !.phase = "HelloAckReceived"]
    /\ acksTaken' = Append(acksTaken, m.timestamp)
    /\ HsSend("Data")
    /\ UNCHANGED <<responder, hsTime, starts, again>>

HandleHelloAck(m) ==
    /\ m.type = "HelloAck" /\ initiator.phase = "HelloSent"
    /\ Valid(m, initiator.used)
    /\ initiator' = [phase |-> "HelloAckReceived", used |-> initiator.used \cup {m.timestamp}]
    /\ acksTaken' = Append(acksTaken, m.timestamp)
    /\ HsSend("Data")
    /\ UNCHANGED <<responder, hsTime, starts, again>>

HandleData(m) ==
    /\ m.type = "Data" /\ responder.phase = "HelloReceived"
    /\ Valid(m, responder.used)
    /\ responder' = [phase |-> "Established", used |-> responder.used \cup {m.timestamp}]
    /\ UNCHANGED <<initiator, wire, hsTime, starts, acksTaken, again>>

Complete ==
    /\ initiator.phase = "HelloAckReceived"
    /\ initiator' = [initiator EXCEPT !.phase = "Established"]
    /\ UNCHANGED <<responder, wire, hsTime, starts, acksTaken, again>>

\* The caller makes a new object.
NewInitiator ==
    /\ starts < MaxStarts /\ starts' = starts + 1 /\ initiator # Fresh
    /\ initiator' = Fresh /\ acksTaken' = <<>> /\ again' = TRUE
    /\ UNCHANGED <<responder, wire, hsTime>>

NewResponder ==
    /\ starts < MaxStarts /\ starts' = starts + 1 /\ responder # Fresh
    /\ responder' = Fresh /\ again' = TRUE
    /\ UNCHANGED <<initiator, wire, hsTime, acksTaken>>

HsTick ==
    /\ hsTime < MaxHsTime /\ hsTime' = hsTime + 1
    /\ UNCHANGED <<initiator, responder, wire, starts, acksTaken, again>>

HsNext ==
    \/ StartHandshake \/ Complete \/ NewInitiator \/ NewResponder \/ HsTick
    \/ \E m \in wire : HandleHello(m) \/ HandleHelloAck(m) \/ HandleData(m)

HsSpec == HsInit /\ [][HsNext]_hsVars

----------------------------------------------------------------------------
(* Properties. *)

\* The variables have their types.
HsTypeOK ==
    /\ initiator.phase \in Phase \ {"HelloReceived"}
    /\ responder.phase \in Phase \ {"HelloSent", "HelloAckReceived"}
    /\ initiator.used \subseteq 0..MaxHsTime /\ responder.used \subseteq 0..MaxHsTime
    /\ wire \subseteq HsMsg /\ hsTime \in 0..MaxHsTime /\ starts \in 0..MaxStarts

\* In one attempt the two sides agree: an initiator that holds the handshake for
\* established has been answered by the responder, and a responder that does has
\* been confirmed by the initiator.
HandshakeAgreement ==
    ~again => /\ initiator.phase = "Established" => responder.phase \in {"HelloReceived", "Established"}
              /\ responder.phase = "Established" => initiator.phase \in {"HelloAckReceived", "Established"}

\* However often it starts again, an initiator takes no HelloACK twice.
NoAckTwice == \A j, k \in 1..Len(acksTaken) : acksTaken[j] = acksTaken[k] => j = k

\* The exchange is sound: agreement, and no HelloACK that counts twice.
HandshakeSound == HandshakeAgreement /\ NoAckTwice
=============================================================================
