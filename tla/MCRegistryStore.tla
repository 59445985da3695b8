-------------------------- MODULE MCRegistryStore --------------------------
(* Instances of RegistryStore for TLC. *)
EXTENDS RegistryStore, TLC

StoreSymmetry == Permutations(Thread) \cup Permutations(Name) \cup Permutations(Id)

\* Nothing but the types, which are proved, is claimed once a call of upsert and
\* an overlap of two calls have both occurred; behaviours are not followed further.
Claimed == ~(upserted /\ raced)
=============================================================================
