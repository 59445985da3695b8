----------------------------- MODULE MCTransport -----------------------------
(***************************************************************************)
(* The parts of the transport, and the state file of the self-healing, side  *)
(* by side.  They share no state; each behaviour is one of one part, named   *)
(* by focus.                                                                 *)
(***************************************************************************)
EXTENDS MultiPath, Handshake, Session, HolePunch, RateLimiter, HealState

CONSTANTS n1, n2, n3

VARIABLE focus

\* Two calls at n1 and one at n2; n3 is a peer that never calls.
MCCaller == {<<n1, 1>>, <<n1, 2>>, <<n2, 1>>}

transportVars == <<mpVars, hsVars, seVars, hpVars, rlVars, hsfVars, focus>>

TransportInit ==
    /\ MpInit /\ HsInit /\ SeInit /\ HpInit /\ RlInit /\ HsfInit
    /\ focus \in {"paths", "handshake", "session", "punch", "rate", "state"}
    /\ focus # "punch" => socket = [n \in HpNode |-> "polls"]
    /\ focus # "state" => asks = FALSE

Others(part) ==
    /\ part # "paths" => UNCHANGED mpVars
    /\ part # "handshake" => UNCHANGED hsVars
    /\ part # "session" => UNCHANGED seVars
    /\ part # "punch" => UNCHANGED hpVars
    /\ part # "rate" => UNCHANGED rlVars
    /\ part # "state" => UNCHANGED hsfVars

TransportNext ==
    /\ focus' = focus
    /\ \/ focus = "paths" /\ MpNext
       \/ focus = "handshake" /\ HsNext
       \/ focus = "session" /\ SeNext
       \/ focus = "punch" /\ HpNext
       \/ focus = "rate" /\ RlNext
       \/ focus = "state" /\ HsfNext
    /\ Others(focus)

TransportSpec ==
    /\ TransportInit /\ [][TransportNext]_transportVars
    /\ MpFairness /\ HpFairness /\ HsfFairness

\* The variables of every part have their types.
TransportTypeOK == MpTypeOK /\ HsTypeOK /\ SeTypeOK /\ HpTypeOK /\ RlTypeOK /\ HsfTypeOK
=============================================================================
