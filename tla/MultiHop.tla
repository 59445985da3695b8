------------------------------ MODULE MultiHop ------------------------------
(***************************************************************************)
(* The route table of MultihopManager, src/src/vpn/multihop.rs: for each   *)
(* target the next hop, the fallback candidates and whether the entry has  *)
(* expired.  Every operation holds the table's lock once, so it is one     *)
(* step, except refresh_stale_routes, which lists the stale targets and    *)
(* then locks the table again for each of them.                            *)
(*                                                                         *)
(* What the DHT answers is a constant: neither this component nor the      *)
(* self-healing that drives it changes the DHT.                            *)
(***************************************************************************)
EXTENDS Nodes, Naturals, Sequences, FiniteSets, SequencesExt

CONSTANTS
    Dht,            \* find_node: for each target the DHT's nodes, nearest first
    Direct,         \* nodes the application adds a direct route to
    Custom,         \* pairs <<target, entry>> the application inserts
    MaxEntries,     \* max_entries
    MaxCandidates   \* K_CANDIDATES_MAX

ASSUME TableAssumption == MaxEntries \in Nat \ {0} /\ MaxCandidates \in Nat
ASSUME NodesAssumption == Dht \in [Node -> Seq(Node)] /\ Direct \subseteq Node

Entry(h, cs) == [hop |-> h, candidates |-> cs, valid |-> TRUE]
Entries == [hop : Node, candidates : Seq(Node), valid : BOOLEAN]

ASSUME EntriesAssumption == Custom \subseteq Node \X Entries /\ None \notin Entries

VARIABLES
    routes,         \* the table
    byAge,          \* its targets, the one with the oldest last_active first
    stale           \* targets refresh_stale_routes has still to deal with

routeVars == <<routes, byAge, stale>>

RouteInit ==
    /\ routes = [t \in Node |-> None]
    /\ byAge = <<>>
    /\ stale = {}

HasRoute(t) == routes[t] # None
Expired(t) == HasRoute(t) /\ ~routes[t].valid

\* find_route does not return an expired entry.
FindRoute(t) == IF HasRoute(t) /\ routes[t].valid THEN routes[t] ELSE None

\* The nodes of a list that are in S, in their order.
Among(s, S) ==
    LET kept[k \in 0..Len(s)] ==
            IF k = 0 THEN <<>>
            ELSE IF s[k] \in S THEN Append(kept[k - 1], s[k])
            ELSE kept[k - 1]
    IN  kept[Len(s)]

RoutesByNextHop(h) == {t \in Node : HasRoute(t) /\ routes[t].hop = h}

----------------------------------------------------------------------------
(* The operators named ...Mutant are plausible bugs; no specification uses  *)
(* them.                                                                   *)

InsertOrEvictMutant(t, e) ==
    /\ routes' = [routes EXCEPT ![t] = e]
    /\ byAge' = Append(Among(byAge, Node \ {t}), t)

\* insert_or_evict: a new target evicts the oldest entry of a full table.
InsertOrEvict(t, e) ==
    LET evicted == IF ~HasRoute(t) /\ Len(byAge) >= MaxEntries THEN {Head(byAge)} ELSE {} IN
    /\ routes' = [u \in Node |-> IF u = t THEN e ELSE IF u \in evicted THEN None ELSE routes[u]]
    /\ byAge' = Append(Among(byAge, Node \ ({t} \cup evicted)), t)

CanDiscover(t) == t # Local /\ Dht[t] # <<>>

\* The entry discover_route builds: the nearest node, the others as fallback.
Discovered(t) ==
    LET others == Among(Tail(Dht[t]), Node \ {Head(Dht[t])}) IN
    Entry(Head(Dht[t]), SubSeq(others, 1, IF Len(others) < MaxCandidates THEN Len(others) ELSE MaxCandidates))

\* discover_route; without a candidate it is an error and changes nothing.
DiscoverRoute(t) ==
    /\ CanDiscover(t)
    /\ InsertOrEvict(t, Discovered(t))

AddDirectRoute(t) ==
    /\ t # Local
    /\ InsertOrEvict(t, Entry(t, <<t>>))

RemoveRoute(t) ==
    /\ routes' = [routes EXCEPT ![t] = None]
    /\ byAge' = Among(byAge, Node \ {t})

MarkInvalid(t) ==
    /\ routes' = IF HasRoute(t) THEN [routes EXCEPT ![t].valid = FALSE] ELSE routes
    /\ UNCHANGED byAge

\* The candidates find_alternative may switch to: the first is taken.
Alternatives(t) ==
    IF HasRoute(t)
      THEN Among(routes[t].candidates, Node \ {routes[t].hop, Local})
      ELSE <<>>

HasAlternative(t) == Alternatives(t) # <<>>

\* find_alternative: the candidates stay as they are.
FindAlternative(t) ==
    /\ HasAlternative(t)
    /\ routes' = [routes EXCEPT ![t] = Entry(Head(Alternatives(t)), @.candidates)]
    /\ byAge' = Append(Among(byAge, Node \ {t}), t)

\* refresh_stale_routes, first lock.
ListStale ==
    /\ stale = {}
    /\ stale' = {t \in Node : Expired(t)}
    /\ UNCHANGED <<routes, byAge>>

\* refresh_stale_routes, one target: discovered again, or else kept for longer.
RefreshStale(t) ==
    /\ t \in stale
    /\ stale' = stale \ {t}
    /\ \/ DiscoverRoute(t)
       \/ /\ ~CanDiscover(t)
          /\ routes' = IF HasRoute(t) THEN [routes EXCEPT ![t].valid = TRUE] ELSE routes
          /\ UNCHANGED byAge

CleanupExpired ==
    /\ routes' = [t \in Node |-> IF Expired(t) THEN None ELSE routes[t]]
    /\ byAge' = Among(byAge, {x \in Node : ~Expired(x)})

\* DEFAULT_ROUTE_TIMEOUT_SECS pass.
Expire(t) ==
    /\ HasRoute(t) /\ routes[t].valid
    /\ routes' = [routes EXCEPT ![t].valid = FALSE]
    /\ UNCHANGED byAge

----------------------------------------------------------------------------
(* Properties. *)

\* The entries of the table have their types.
RouteTypeOK ==
    /\ routes \in [Node -> Entries \cup {None}]
    /\ byAge \in Seq(Node)
    /\ stale \subseteq Node

\* insert_or_evict, remove_route and cleanup_expired keep the table and the ages
\* of its entries together, and the table within max_entries: eviction always
\* finds the oldest entry, and never more than one goes.
TableBounded ==
    /\ Len(byAge) <= MaxEntries
    /\ ToSet(byAge) = {t \in Node : HasRoute(t)}
    /\ Cardinality(ToSet(byAge)) = Len(byAge)
=============================================================================
