----------------------------- MODULE MCSelfHeal -----------------------------
(* Instances of SelfHeal for TLC. *)
EXTENDS SelfHeal

CONSTANTS self, a, b

\* No DHT is bound, so that nothing is ever discovered.
NoDht == [t \in Node |-> <<>>]

\* The DHT knows a and b for b, and goes on doing so when they are offline.
SmallDht == [t \in Node |-> IF t = b THEN <<a, b>> ELSE <<>>]

NoRoutes == {}

\* b is reached through a, or else directly.
RelayRoute == {<<b, Entry(a, <<b>>)>>}
=============================================================================
