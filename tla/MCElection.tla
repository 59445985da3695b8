----------------------------- MODULE MCElection -----------------------------
(* Instances of Election for TLC. *)
EXTENDS Election, TLC

CONSTANTS n1, n2, n3

\* Everybody knows everybody else.
OtherPeers == [n \in Node |-> Node \ {n}]

\* n1 and n2 know each other only; n1 is also on its own list, which is what makes
\* its address known to get_local_addr.
PairPeers == [n \in Node |-> CASE n = n1 -> {n1, n2} [] n = n2 -> {n1} [] OTHER -> {}]

NoCalls == {}
SelfChurn == {<<n1, n1>>}
PairBootstrap == {<<n1, n3>>, <<n2, n3>>}
SyncCalls == {<<n2, n1>>}

\* SHA-256 is replaced by a table: n2 is denied by n1 in every odd term, every
\* other vote is supported.
LocalValues == [n \in Node |-> IF n = n1 THEN 5 ELSE 1]
Hashes == [p \in Node \X Term |-> IF p[1] = n2 /\ p[2] % 2 = 1 THEN 3 ELSE 9]
=============================================================================
