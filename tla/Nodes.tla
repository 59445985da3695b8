------------------------------- MODULE Nodes -------------------------------
(* The nodes of the network as one of them sees it. *)
CONSTANTS
    Node,           \* NodeIDs
    Local,          \* local_id
    None            \* Rust's Option::None

ASSUME LocalAssumption == Local \in Node /\ None \notin Node
=============================================================================
