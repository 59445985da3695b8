---------------------------- MODULE OrderedStream ----------------------------
(***************************************************************************)
(* What a reorder buffer promises its reader: items numbered from 0 come    *)
(* out in the order of their numbers, none of them twice.  Numbers may be   *)
(* given up (Skip), and the buffer may be started again (Reset).            *)
(***************************************************************************)
EXTENDS Integers, Sequences

CONSTANT MaxItem    \* bound on the numbers explored

VARIABLES out,      \* the items handed over since the last reset
          pos       \* the number of the next item

Init == out = <<>> /\ pos = 0

Deliver == \E n \in 1..MaxItem - pos :
    /\ out' = out \o [k \in 1..n |-> pos + k - 1]
    /\ pos' = pos + n

Skip == out' = out /\ \E p \in pos + 1..MaxItem : pos' = p

Reset == out' = <<>> /\ pos' = 0

Next == Deliver \/ Skip \/ Reset

Spec == Init /\ [][Next]_<<out, pos>>
=============================================================================
