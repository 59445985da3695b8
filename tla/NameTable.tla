----------------------------- MODULE NameTable -----------------------------
(***************************************************************************)
(* What a registry of names promises its callers: an update takes effect at *)
(* one moment, between its call and its answer, register only on a name    *)
(* that is free; Ok is for an update that took effect; and a restart brings *)
(* back the table as a whole, as it was when a save copied it, or nothing. *)
(***************************************************************************)
CONSTANTS Caller, Name, Id,
          None          \* the id of a name that is free

VARIABLES
    table,      \* the id of each name
    calls,      \* calls[t]: the update of t that took effect and is not answered, if any
    acked,      \* the names and ids of the updates answered with Ok
    copies,     \* copies[t]: the table that t is saving, if it is
    saved,      \* the table a restart would bring back
    up          \* is there a process?

Nothing == [n \in Name |-> None]
NoCaller == [t \in Caller |-> {}]

Init ==
    /\ table = Nothing /\ saved = Nothing /\ up = TRUE
    /\ calls = NoCaller /\ copies = NoCaller /\ acked = {}

Update(t, o, n, i) ==
    /\ up /\ calls[t] = {}
    /\ o = "register" => table[n] = None
    /\ table' = [table EXCEPT ![n] = i]
    /\ calls' = [calls EXCEPT ![t] = {[op |-> o, name |-> n, id |-> i]}]
    /\ UNCHANGED <<acked, copies, saved, up>>

Copy(t) ==
    /\ up /\ copies' = [copies EXCEPT ![t] = {table}]
    /\ UNCHANGED <<table, calls, acked, saved, up>>

\* While it is written, the saved table is lost until it is the new one.
Store(t) ==
    /\ copies[t] # {} /\ saved' \in {saved, Nothing} \cup copies[t]
    /\ copies' = copies \/ copies' = [copies EXCEPT ![t] = {}]

Answer(t) ==
    /\ acked' = acked \cup {<<r.name, r.id>> : r \in calls[t]}
    /\ calls' = [calls EXCEPT ![t] = {}]

\* Ok does not wait for the table to be saved: saving may have failed.
Proceed(t) ==
    /\ up /\ UNCHANGED <<table, up>>
    /\ Store(t) \/ UNCHANGED <<copies, saved>>
    /\ Answer(t) \/ UNCHANGED <<calls, acked>>

\* Updates are lost, answered ones included, and the table saved may be if a save
\* was under way.
Crash ==
    /\ up /\ up' = FALSE
    /\ table' = Nothing /\ calls' = NoCaller /\ copies' = NoCaller
    /\ saved' = saved \/ (saved' = Nothing /\ copies # NoCaller)
    /\ UNCHANGED acked

Restart ==
    /\ ~up /\ up' = TRUE
    /\ table' = saved
    /\ UNCHANGED <<calls, acked, copies, saved>>

Next ==
    \/ \E t \in Caller : Copy(t) \/ Proceed(t)
    \/ \E t \in Caller, o \in {"register", "upsert"}, n \in Name, i \in Id : Update(t, o, n, i)
    \/ Crash \/ Restart

Spec == Init /\ [][Next]_<<table, calls, acked, copies, saved, up>>
=============================================================================
