-------------------------- MODULE HeartbeatProofs --------------------------
(* Proofs about Heartbeat, for every set of nodes and every threshold. *)
EXTENDS Heartbeat, TLAPS

HbNext == HbStep \/ CallbackReturns

\* The initial states have their types.
LEMMA HbTypeInit == HbInit => HbTypeOK
BY ThresholdAssumption DEF HbInit, HbTypeOK, Known

\* Every step keeps the types.
LEMMA HbTypeStep == HbTypeOK /\ [HbNext]_hbVars => HbTypeOK'
<1> SUFFICES ASSUME HbTypeOK, [HbNext]_hbVars PROVE HbTypeOK'
  OBVIOUS
<1> USE ThresholdAssumption, LocalAssumption, MonitoredAssumption DEF HbTypeOK, Beats, Known, CallKind
<1>1. CASE \E n \in Monitored : AddNode(n)
  BY <1>1 DEF AddNode, Fresh, Beat
<1>2. CASE \E n \in Removed : RemoveNode(n)
  BY <1>2 DEF RemoveNode
<1>3. CASE BeginPass
  BY <1>3 DEF BeginPass
<1>4. CASE \E n \in Node : FallQuiet(n)
  <2>1. PICK n \in Node : FallQuiet(n)
    BY <1>4
  <2>2. hb[n] \in Beats
    BY <2>1 DEF FallQuiet
  <2>3. hb' = [hb EXCEPT ![n] = Beat(hb[n].online, hb[n].missed, TRUE)]
    BY <2>1, <2>2 DEF FallQuiet
  <2> QED
    BY <2>1, <2>2, <2>3 DEF FallQuiet, Beat
<1>5. CASE \E n \in Node : Check(n)
  <2>1. PICK n \in Node : Check(n)
    BY <1>5
  <2>2. CASE hb[n].online /\ Quiet(n)
    <3>1. hb[n] \in Beats
      BY <2>2 DEF Quiet
    <3>2. hb[n].missed < Threshold /\ hb[n].missed + 1 \in 0..Threshold
      BY <2>2, <3>1 DEF Quiet
    <3>3. Beat(hb[n].missed + 1 < Threshold, hb[n].missed + 1, TRUE)
             \in Beats
      BY <3>2 DEF Beat
    <3>4. calling' \in [kind : CallKind, node : Node] \cup {None} /\ told' \subseteq Node
      BY <2>1, <2>2 DEF Check, Call
    <3>5. hb' = [hb EXCEPT ![n] = Beat(hb[n].missed + 1 < Threshold, hb[n].missed + 1, TRUE)]
             /\ pass' \subseteq Node
      BY <2>1, <2>2 DEF Check
    <3>6. hb'[n].online <=> hb'[n].missed < Threshold
      BY <3>2, <3>5 DEF Beat
    <3>7. \A m \in Node \ {n} : hb'[m] = hb[m]
      BY <3>5
    <3>8. hb' \in [Node -> Beats \cup {None}]
      BY <3>3, <3>5
    <3> QED
      BY <3>4, <3>5, <3>6, <3>7, <3>8
  <2>3. CASE ~(hb[n].online /\ Quiet(n))
    BY <2>1, <2>3 DEF Check
  <2> QED
    BY <2>2, <2>3
<1>6. CASE \E n \in Beating : HandleHeartbeat(n)
  BY <1>6 DEF HandleHeartbeat, Call, Fresh, Beat, Offline
<1>7. CASE CallbackReturns
  BY <1>7 DEF CallbackReturns, Call
<1>8. CASE UNCHANGED hbVars
  BY <1>8 DEF hbVars
<1> QED
  BY <1>1, <1>2, <1>3, <1>4, <1>5, <1>6, <1>7, <1>8 DEF HbNext, HbStep

\* The node table of HeartbeatManager has its type, and a node is marked online
\* exactly as long as it has missed fewer beats than offline_threshold.
THEOREM HeartbeatTyping == HbSpec => []HbTypeOK
<1>1. HbInit => HbTypeOK
  BY HbTypeInit
<1>2. HbTypeOK /\ [HbStep \/ CallbackReturns]_hbVars => HbTypeOK'
  BY HbTypeStep DEF HbNext
<1> QED
  BY <1>1, <1>2, PTL DEF HbSpec

----------------------------------------------------------------------------
\* A node that is not in the table was never reported offline: what makes
\* CallbacksFollow inductive, as long as remove_node is not called.
UnknownUntold == \A n \in Node : ~Known(n) => n \notin told

FollowInv == HbTypeOK /\ CallbacksFollow /\ UnknownUntold

\* Every step keeps it while no node is removed.
LEMMA FollowStep == ASSUME Removed = {} PROVE FollowInv /\ [HbNext]_hbVars => FollowInv'
<1> SUFFICES ASSUME FollowInv, [HbNext]_hbVars PROVE FollowInv'
  OBVIOUS
<1>0. HbTypeOK'
  BY HbTypeStep DEF FollowInv
<1> USE DEF FollowInv, HbTypeOK, Beats, CallbacksFollow, UnknownUntold, Known, Offline
<1> USE ThresholdAssumption, LocalAssumption, MonitoredAssumption
<1>1. CASE \E n \in Monitored : AddNode(n)
  BY <1>0, <1>1 DEF AddNode, Fresh, Beat
<1>2. CASE BeginPass
  BY <1>0, <1>2 DEF BeginPass
<1>3. CASE \E n \in Node : FallQuiet(n)
  <2>1. PICK n \in Node : FallQuiet(n)
    BY <1>3
  <2>2. hb[n] \in Beats
    BY <2>1 DEF FallQuiet
  <2>3. hb' = [hb EXCEPT ![n] = Beat(hb[n].online, hb[n].missed, TRUE)]
    BY <2>1, <2>2 DEF FallQuiet
  <2>4. hb'[n] # None
    <3>1. Beat(hb[n].online, hb[n].missed, TRUE) \in Beats
      BY <2>2 DEF Beat
    <3> QED
      BY <2>3, <3>1
  <2>5. hb'[n].online <=> hb[n].online
    BY <2>3 DEF Beat
  <2>6. told' = told /\ \A m \in Node \ {n} : hb'[m] = hb[m]
    BY <2>1, <2>3 DEF FallQuiet
  <2> QED
    BY <1>0, <2>1, <2>4, <2>5, <2>6 DEF FallQuiet
<1>4. CASE \E n \in Node : Check(n)
  <2>1. PICK n \in Node : Check(n)
    BY <1>4
  <2>2. CASE hb[n].online /\ Quiet(n)
    <3>1. hb[n] \in Beats /\ n \notin told
      BY <2>2 DEF Quiet
    <3>2. hb' = [hb EXCEPT ![n] = Beat(hb[n].missed + 1 < Threshold, hb[n].missed + 1, TRUE)]
      BY <2>1, <2>2 DEF Check
    <3>3. told' = IF hb[n].missed + 1 >= Threshold THEN told \cup {n} ELSE told
      BY <2>1, <2>2 DEF Check
    <3>4. hb[n].missed + 1 \in 0..Threshold
      BY <2>2, <3>1 DEF Quiet
    <3>5. hb'[n] # None
      <4>1. Beat(hb[n].missed + 1 < Threshold, hb[n].missed + 1, TRUE) \in Beats
        BY <3>4 DEF Beat
      <4> QED
        BY <3>2, <4>1
    <3>6. hb'[n].online <=> hb[n].missed + 1 < Threshold
      BY <3>2 DEF Beat
    <3>7. \A m \in Node \ {n} : hb'[m] = hb[m]
      BY <3>2
    <3>8. n \in told' <=> ~hb'[n].online
      BY <3>1, <3>3, <3>4, <3>6
    <3>9. \A m \in Node \ {n} : m \in told' <=> m \in told
      BY <3>3
    <3> QED
      BY <1>0, <3>5, <3>7, <3>8, <3>9
  <2>3. CASE ~(hb[n].online /\ Quiet(n))
    BY <1>0, <2>1, <2>3 DEF Check
  <2> QED
    BY <2>2, <2>3
<1>5. CASE \E n \in Beating : HandleHeartbeat(n)
  BY <1>0, <1>5 DEF HandleHeartbeat, Call, Fresh, Beat
<1>6. CASE CallbackReturns
  BY <1>0, <1>6 DEF CallbackReturns, Call
<1>7. CASE UNCHANGED hbVars
  BY <1>0, <1>7 DEF hbVars
<1> QED
  BY <1>1, <1>2, <1>3, <1>4, <1>5, <1>6, <1>7 DEF HbNext, HbStep

\* As long as the application removes no node from the table, a listener that
\* follows on_node_online and on_node_offline knows which nodes are offline.
THEOREM CallbacksComplete == ASSUME Removed = {} PROVE HbSpec => []CallbacksFollow
<1>1. HbInit => FollowInv
  BY HbTypeInit DEF HbInit, FollowInv, CallbacksFollow, UnknownUntold, Known, Offline
<1>2. FollowInv /\ [HbStep \/ CallbackReturns]_hbVars => FollowInv'
  BY FollowStep DEF HbNext
<1>3. FollowInv => CallbacksFollow
  BY DEF FollowInv
<1> QED
  BY <1>1, <1>2, <1>3, PTL DEF HbSpec
=============================================================================
