------------------------------ MODULE Bootstrap ------------------------------
(***************************************************************************)
(* BootstrapConfig and BootstrapManager (src/src/vpn/bootstrap.rs): entry    *)
(* nodes are kept by priority and tried in that order; nodes that become     *)
(* known are recorded.  connect_to_bootstrap_node is a stub that succeeds    *)
(* without any node.                                                         *)
(***************************************************************************)
EXTENDS Integers, Sequences, FiniteSets, SequencesExt

CONSTANTS
    BootHost, Priority,     \* entry nodes and their priorities
    KnownId,                \* nodes that may become known
    MaxConfig,              \* bound on the entry nodes of a configuration read
    MaxBoot                 \* bound on the entry nodes configured and tried

ASSUME BootAssumption == Priority \subseteq Nat /\ 0 \in Priority /\ {MaxConfig, MaxBoot} \subseteq Nat

VARIABLES
    bootNodes,      \* config.nodes
    trying,         \* how many of them bootstrap has tried; -1 when it is not running
    connected,      \* connected_bootstrap
    known,          \* known_nodes
    outcome         \* what the last call of bootstrap returned

BootstrapNode == [host : BootHost, priority : Priority]
bootVars == <<bootNodes, trying, connected, known, outcome>>

BootInit ==
    /\ bootNodes = <<>> /\ trying = -1 /\ connected = <<>> /\ known = {} /\ outcome = "none"

\* sort_by_key is stable: among nodes in order, after those of the same priority.
Among(nodes, node) ==
    InsertAt(nodes, 1 + Cardinality({k \in DOMAIN nodes : nodes[k].priority <= node.priority}), node)

SortByPriority(nodes) ==
    LET sorted[k \in 0..Len(nodes)] == IF k = 0 THEN <<>> ELSE Among(sorted[k - 1], nodes[k])
    IN  sorted[Len(nodes)]

AddNode(h, p) ==
    /\ Len(bootNodes) < MaxBoot /\ trying = -1
    /\ bootNodes' = Among(bootNodes, [host |-> h, priority |-> p])
    /\ UNCHANGED <<trying, connected, known, outcome>>

\* The configuration is read: all nodes are pushed, then sorted by priority.
FromJson ==
    /\ bootNodes = <<>> /\ trying = -1
    /\ \E nodes \in BoundedSeq(BootstrapNode, MaxConfig) : bootNodes' = SortByPriority(nodes)
    /\ UNCHANGED <<trying, connected, known, outcome>>

\* The simple YAML has no priorities: every node gets 0, and the order stays.
FromYamlSimple ==
    /\ bootNodes = <<>> /\ trying = -1
    /\ bootNodes' \in BoundedSeq([host : BootHost, priority : {0}], MaxConfig)
    /\ UNCHANGED <<trying, connected, known, outcome>>

BootstrapBegin ==
    /\ trying = -1 /\ Len(connected) + Len(bootNodes) <= MaxBoot
    /\ IF bootNodes = <<>> THEN outcome' = "ConfigError" /\ UNCHANGED trying
                           ELSE trying' = 0 /\ UNCHANGED outcome
    /\ UNCHANGED <<bootNodes, connected, known>>

\* connect_to_bootstrap_node stands in for a connection: it succeeds with every
\* entry node and reports no node.
Reported == {}

TryNode ==
    /\ trying >= 0 /\ trying < Len(bootNodes)
    /\ trying' = trying + 1
    /\ connected' = Append(connected, bootNodes[trying + 1])
    /\ UNCHANGED <<bootNodes, known, outcome>>

\* As no node was discovered the call fails, although every entry node counts as
\* connected.
BootstrapEnd ==
    /\ trying >= 0 /\ trying = Len(bootNodes)
    /\ trying' = -1 /\ outcome' = IF Reported = {} THEN "AllNodesUnreachable" ELSE "Ok"
    /\ UNCHANGED <<bootNodes, connected, known>>

AddKnownNode(id) == known' = known \cup {id} /\ UNCHANGED <<bootNodes, trying, connected, outcome>>
RemoveKnownNode(id) == known' = known \ {id} /\ UNCHANGED <<bootNodes, trying, connected, outcome>>

BootNext ==
    \/ \E h \in BootHost, p \in Priority : AddNode(h, p)
    \/ FromJson \/ FromYamlSimple
    \/ BootstrapBegin \/ TryNode \/ BootstrapEnd
    \/ \E id \in KnownId : AddKnownNode(id) \/ RemoveKnownNode(id)

BootSpec == BootInit /\ [][BootNext]_bootVars

----------------------------------------------------------------------------
(* Properties. *)

\* The variables have their types, and while bootstrap runs the entry nodes it has
\* not tried yet are none that come before one it has tried: they are tried by
\* priority, in whatever order they were configured.
BootTypeOK ==
    /\ {bootNodes[k] : k \in DOMAIN bootNodes} \cup {connected[k] : k \in DOMAIN connected}
          \subseteq BootstrapNode
    /\ trying \in -1..Len(bootNodes) /\ known \subseteq KnownId
    /\ outcome \in {"none", "ConfigError", "AllNodesUnreachable", "Ok"}
    /\ trying > 0 => \A k \in trying + 1..Len(bootNodes) : bootNodes[k].priority >= Last(connected).priority
=============================================================================
