------------------------------ MODULE SelfHeal ------------------------------
(***************************************************************************)
(* SelfHealManager of src/src/vpn/selfheal.rs, listening to the            *)
(* HeartbeatManager and repairing the route table of the MultihopManager.  *)
(*                                                                         *)
(* Four threads run its code: "hb", whoever holds the heartbeat lock and   *)
(* is in a callback; "loop", the healing loop; "net", which delivers       *)
(* SelfHeal messages; "app", which reports failed paths.  One action is    *)
(* what a thread does under one lock (of the states, of the pongs or of    *)
(* the route table).  Events and time stamps are left out; which offline   *)
(* nodes are due for a recovery attempt is therefore a free choice.        *)
(***************************************************************************)
EXTENDS Heartbeat, MultiHop

CONSTANTS
    MaxAttempts,    \* max_failed_attempts
    Senders,        \* nodes that send HealPong and PartitionSync
    Failing,        \* targets the application calls handle_path_failure for
    Tracked         \* nodes the application adds to and removes from the tracking

Thread == {"hb", "loop", "net", "app"}

ASSUME AttemptsAssumption == MaxAttempts \in Nat
ASSUME CallersAssumption == Senders \cup Failing \cup Tracked \subseteq Node \ {Local}

VARIABLES
    heal,           \* states: for each node None or its SelfHealNodeState
    pongs,          \* heal_pongs (a repeated pong acts like one of the next round)
    pc,             \* the step each thread is at
    cur,            \* the node, or the target, it is dealing with
    todo,           \* those it has still to deal with
    heard           \* history: nodes a pong or a sync came from since their last heartbeat

healVars == <<heal, pongs, pc, cur, todo, heard>>
tableVars == <<routes, byAge>>
allVars == <<hbVars, routeVars, healVars>>

State(offline, attempts) == [offline |-> offline, attempts |-> attempts]

HealInit ==
    /\ HbInit /\ RouteInit
    /\ heal = [n \in Node |-> None]
    /\ pongs = {}
    /\ pc = [t \in Thread |-> "idle"]
    /\ cur = [t \in Thread |-> None]
    /\ todo = [t \in Thread |-> {}]
    /\ heard = {}

IsOffline(n) == heal[n] # None /\ heal[n].offline

Goto(t, s) == pc' = [pc EXCEPT ![t] = s]

\* Thread t starts on, or goes on with, node n at step s.
GotoFor(t, s, n) == Goto(t, s) /\ cur' = [cur EXCEPT ![t] = n]

\* Thread t is through with its node.  The healing loop takes its next one, the
\* other threads return to their callers.
Done(t) ==
    /\ GotoFor(t, IF t = "loop" THEN "pongs" ELSE "idle", None)
    /\ IF t = "hb" THEN CallbackReturns ELSE UNCHANGED hbVars

SetHeal(n, s) == heal' = [heal EXCEPT ![n] = s]

\* add_node
Track(n) == SetHeal(n, IF heal[n] = None THEN State(FALSE, 0) ELSE heal[n])

----------------------------------------------------------------------------
(* on_node_recovered, and the loop's own copy of it.  The operators named   *)
(* ...Mutant are plausible bugs; no specification uses them.               *)

MarkOnline(t) ==
    /\ pc[t] = "markOnline"
    /\ SetHeal(cur[t], State(FALSE, 0))
    /\ Goto(t, "lookRoute")
    /\ UNCHANGED <<hbVars, tableVars, pongs, cur, todo, heard>>

LookRoute(t) ==
    /\ pc[t] = "lookRoute"
    /\ IF FindRoute(cur[t]) = None
         THEN Goto(t, "rebuild") /\ UNCHANGED <<hbVars, cur>>
         ELSE Done(t)
    /\ UNCHANGED <<tableVars, heal, pongs, todo, heard>>

RebuildRoute(t) ==
    /\ pc[t] = "rebuild"
    /\ IF CanDiscover(cur[t]) THEN DiscoverRoute(cur[t]) ELSE UNCHANGED tableVars
    /\ Done(t)
    /\ UNCHANGED <<heal, pongs, todo, heard>>

Recover(t) == MarkOnline(t) \/ LookRoute(t) \/ RebuildRoute(t)

----------------------------------------------------------------------------
(* Switching the targets of "todo" one by one: the second half of           *)
(* on_node_offline, and handle_path_failure.                               *)

Invalidate(t) ==
    /\ pc[t] = "invalidate"
    /\ \E target \in todo[t] :
          /\ MarkInvalid(target)
          /\ todo' = [todo EXCEPT ![t] = @ \ {target}]
          /\ GotoFor(t, "alternative", target)
    /\ UNCHANGED <<hbVars, heal, pongs, heard>>

TryAlternative(t) ==
    /\ pc[t] = "alternative"
    /\ IF HasAlternative(cur[t])
         THEN FindAlternative(cur[t]) /\ GotoFor(t, "invalidate", None)
         ELSE UNCHANGED <<tableVars, cur>> /\ Goto(t, "discover")
    /\ UNCHANGED <<hbVars, heal, pongs, todo, heard>>

Rediscover(t) ==
    /\ pc[t] = "discover"
    /\ IF CanDiscover(cur[t]) THEN DiscoverRoute(cur[t]) ELSE UNCHANGED tableVars
    /\ GotoFor(t, "invalidate", None)
    /\ UNCHANGED <<hbVars, heal, pongs, todo, heard>>

AllSwitched(t) ==
    /\ pc[t] = "invalidate" /\ todo[t] = {}
    /\ Done(t)
    /\ UNCHANGED <<tableVars, heal, pongs, todo, heard>>

SwitchTargets(t) == Invalidate(t) \/ TryAlternative(t) \/ Rediscover(t) \/ AllSwitched(t)

----------------------------------------------------------------------------
(* The HeartbeatCallback. *)

Callback(kind, n) == pc["hb"] = "idle" /\ calling = [kind |-> kind, node |-> n]

\* on_node_offline
MarkOffline(n) ==
    /\ Callback("offline", n)
    /\ SetHeal(n, State(TRUE, 0))
    /\ GotoFor("hb", "removeRoute", n)
    /\ UNCHANGED <<hbVars, tableVars, pongs, todo, heard>>

RemoveTarget ==
    /\ pc["hb"] = "removeRoute"
    /\ RemoveRoute(cur["hb"])
    /\ Goto("hb", "findAffected")
    /\ UNCHANGED <<hbVars, heal, pongs, cur, todo, heard>>

FindAffected ==
    /\ pc["hb"] = "findAffected"
    /\ todo' = [todo EXCEPT !["hb"] = RoutesByNextHop(cur["hb"])]
    /\ GotoFor("hb", "invalidate", None)
    /\ UNCHANGED <<hbVars, tableVars, heal, pongs, heard>>

\* on_node_online reads the state first, then adds the node.
CameOnline(n) ==
    /\ Callback("online", n)
    /\ GotoFor("hb", IF IsOffline(n) THEN "trackOffline" ELSE "track", n)
    /\ UNCHANGED <<hbVars, tableVars, heal, pongs, todo, heard>>

TrackOnline ==
    /\ \/ pc["hb"] = "track" /\ Done("hb")
       \/ pc["hb"] = "trackOffline" /\ Goto("hb", "markOnline") /\ UNCHANGED <<hbVars, cur>>
    /\ Track(cur["hb"])
    /\ UNCHANGED <<tableVars, pongs, todo, heard>>

\* on_heartbeat_received
Received(n) ==
    /\ Callback("received", n)
    /\ Track(n)
    /\ GotoFor("hb", "received", n)
    /\ UNCHANGED <<hbVars, tableVars, pongs, todo, heard>>

CheckReceived ==
    /\ pc["hb"] = "received"
    /\ IF IsOffline(cur["hb"])
         THEN SetHeal(cur["hb"], State(FALSE, 0)) /\ Goto("hb", "markOnline") /\ UNCHANGED <<hbVars, cur>>
         ELSE Done("hb") /\ UNCHANGED heal
    /\ UNCHANGED <<tableVars, pongs, todo, heard>>

HeartbeatCallback ==
    \/ \E n \in Node : MarkOffline(n) \/ CameOnline(n) \/ Received(n)
    \/ RemoveTarget \/ FindAffected \/ TrackOnline \/ CheckReceived
    \/ Recover("hb") \/ SwitchTargets("hb")

----------------------------------------------------------------------------
(* The healing loop: the pongs first, then, when it is time, the nodes that *)
(* are offline.                                                            *)

TakePongs ==
    /\ pc["loop"] = "idle"
    /\ pongs' = {}
    /\ todo' = [todo EXCEPT !["loop"] = pongs]
    /\ Goto("loop", "pongs")
    /\ UNCHANGED <<hbVars, tableVars, heal, cur, heard>>

CheckPong ==
    /\ pc["loop"] = "pongs"
    /\ \E n \in todo["loop"] :
          /\ todo' = [todo EXCEPT !["loop"] = @ \ {n}]
          /\ IF IsOffline(n) THEN GotoFor("loop", "markOnline", n) ELSE UNCHANGED <<pc, cur>>
    /\ UNCHANGED <<hbVars, tableVars, heal, pongs, heard>>

DueMutant(n) == IsOffline(n) /\ heal[n].attempts <= MaxAttempts

\* May a recovery attempt be made for n?
Due(n) == IsOffline(n) /\ heal[n].attempts < MaxAttempts

ScanOffline ==
    /\ pc["loop"] = "pongs" /\ todo["loop"] = {}
    /\ \E due \in SUBSET {n \in Node : Due(n)} : todo' = [todo EXCEPT !["loop"] = due]
    /\ Goto("loop", "attempts")
    /\ UNCHANGED <<hbVars, tableVars, heal, pongs, cur, heard>>

\* The round is over; the loop sleeps.
EndRound ==
    /\ pc["loop"] = "attempts" /\ todo["loop"] = {}
    /\ Goto("loop", "idle")
    /\ UNCHANGED <<hbVars, tableVars, heal, pongs, cur, todo, heard>>

RecordAttempt ==
    /\ pc["loop"] = "attempts"
    /\ \E n \in todo["loop"] :
          /\ todo' = [todo EXCEPT !["loop"] = @ \ {n}]
          /\ heal' = IF heal[n] = None THEN heal ELSE [heal EXCEPT ![n].attempts = @ + 1]
          /\ GotoFor("loop", "tryDiscover", n)
    /\ UNCHANGED <<hbVars, tableVars, pongs, heard>>

TryDiscoverMutant ==
    /\ pc["loop"] = "tryDiscover"
    /\ IF CanDiscover(cur["loop"]) THEN DiscoverRoute(cur["loop"]) ELSE UNCHANGED tableVars
    /\ Goto("loop", "markRecovered")
    /\ UNCHANGED <<hbVars, heal, pongs, cur, todo, heard>>

\* Without a DHT, or without a node near the target, discover_route fails.
TryDiscover ==
    /\ pc["loop"] = "tryDiscover"
    /\ IF CanDiscover(cur["loop"])
         THEN DiscoverRoute(cur["loop"]) /\ Goto("loop", "markRecovered") /\ UNCHANGED cur
         ELSE UNCHANGED tableVars /\ GotoFor("loop", "attempts", None)
    /\ UNCHANGED <<hbVars, heal, pongs, todo, heard>>

MarkRecovered ==
    /\ pc["loop"] = "markRecovered"
    /\ IF heal[cur["loop"]] = None THEN UNCHANGED heal ELSE SetHeal(cur["loop"], State(FALSE, 0))
    /\ GotoFor("loop", "attempts", None)
    /\ UNCHANGED <<hbVars, tableVars, pongs, todo, heard>>

HealLoop ==
    \/ TakePongs \/ CheckPong \/ ScanOffline \/ EndRound
    \/ RecordAttempt \/ TryDiscover \/ MarkRecovered
    \/ Recover("loop")

----------------------------------------------------------------------------
(* process_heal_message and the application's calls. *)

HealPong(n) ==
    /\ pongs' = pongs \cup {n}
    /\ heard' = heard \cup {n}
    /\ UNCHANGED <<hbVars, tableVars, heal, pc, cur, todo>>

PartitionSync(n) ==
    /\ pc["net"] = "idle"
    /\ Track(n)
    /\ heard' = heard \cup {n}
    /\ GotoFor("net", "sync", n)
    /\ UNCHANGED <<hbVars, tableVars, pongs, todo>>

CheckSync ==
    /\ pc["net"] = "sync"
    /\ IF IsOffline(cur["net"])
         THEN Goto("net", "markOnline") /\ UNCHANGED <<hbVars, cur>>
         ELSE Done("net")
    /\ UNCHANGED <<tableVars, heal, pongs, todo, heard>>

HandlePathFailure(t) ==
    /\ pc["app"] = "idle"
    /\ todo' = [todo EXCEPT !["app"] = {t}]
    /\ Goto("app", "invalidate")
    /\ UNCHANGED <<hbVars, tableVars, heal, pongs, cur, heard>>

TrackingCall(n) ==
    /\ heal' = [heal EXCEPT ![n] = IF @ = None THEN State(FALSE, 0) ELSE None]
    /\ UNCHANGED <<hbVars, tableVars, pongs, pc, cur, todo, heard>>

Messages == (\E n \in Senders : HealPong(n) \/ PartitionSync(n)) \/ CheckSync \/ Recover("net")

Application ==
    \/ \E t \in Failing : HandlePathFailure(t)
    \/ SwitchTargets("app")
    \/ \E n \in Tracked : TrackingCall(n)

\* Is a message of n being dealt with?
Pending(n) == n \in pongs \cup todo["loop"] \cup {cur["loop"], cur["net"]}

\* A step of the heartbeat module; a heartbeat of n ends what was heard before.
Heartbeats ==
    /\ HbStep
    /\ heard' = IF calling # calling' /\ calling'.kind # "offline" /\ ~Pending(calling'.node)
                  THEN heard \ {calling'.node} ELSE heard
    /\ UNCHANGED <<tableVars, heal, pongs, pc, cur, todo>>

\* The application's direct routes, its own routes, and the passing of time.
RouteCalls ==
    /\ \/ \E t \in Direct : AddDirectRoute(t)
       \/ \E c \in Custom : InsertOrEvict(c[1], c[2])
       \/ \E t \in Node : Expire(t)
       \/ CleanupExpired
    /\ UNCHANGED <<hbVars, healVars>>

\* refresh_stale_routes, on a thread of the application's.
RefreshRoutes ==
    /\ ListStale \/ \E t \in Node : RefreshStale(t)
    /\ UNCHANGED <<hbVars, healVars>>

HealNext ==
    \/ /\ HeartbeatCallback \/ HealLoop \/ Messages \/ Application \/ Heartbeats \/ RouteCalls
       /\ UNCHANGED stale
    \/ RefreshRoutes

HealSpec == HealInit /\ [][HealNext]_allVars

\* The checking thread and a callback it has started go on.
FairHealSpec ==
    /\ HealSpec
    /\ SF_allVars(BeginPass /\ HealNext)
    /\ \A n \in Node : WF_allVars(Check(n) /\ HealNext)
    /\ WF_allVars(HeartbeatCallback /\ HealNext)

----------------------------------------------------------------------------
(* Properties. *)

\* The state of the self-healing and of its threads has its type, and no node is
\* probed more than max_failed_attempts times while it is offline.
HealTypeOK ==
    /\ HbTypeOK /\ RouteTypeOK
    /\ heal \in [Node -> [offline : BOOLEAN, attempts : 0..MaxAttempts] \cup {None}]
    /\ pongs \subseteq Node /\ heard \subseteq Node
    /\ cur \in [Thread -> Node \cup {None}]
    /\ todo \in [Thread -> SUBSET Node]

\* Self-healing takes over from the heartbeats: a node they have found to be
\* offline is offline for the self-healing too, unless the node itself has sent
\* a pong or a sync meanwhile.
RecoveredWasHeard ==
    calling = None =>
        \A n \in Node : Offline(n) /\ heal[n] # None /\ ~IsOffline(n) => n \in heard

\* A node that falls silent for good, and that the heartbeats alone ever speak of,
\* ends up, and stays, marked offline: the healing loop does not bring it back.
SilentHealedOffline ==
    \A n \in Node \ ({Local} \cup Senders \cup Tracked) : <>[]Quiet(n) => <>[]IsOffline(n)

\* Both parts notice a silent node for good.
SilentFoundOffline == SilentDeclaredOffline /\ SilentHealedOffline
=============================================================================
