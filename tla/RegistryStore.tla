--------------------------- MODULE RegistryStore ---------------------------
(***************************************************************************)
(* RegistryServer of src/src/registry/center.rs: the name table and its    *)
(* reverse table, each behind its own lock, the dirty flag and the file    *)
(* they are saved to.  Threads call register, upsert and update_heartbeat  *)
(* concurrently; the process may crash at any step and is then started     *)
(* again with new + load_from_file.                                        *)
(*                                                                         *)
(* One action is what the code does under one lock, or one atomic access   *)
(* or file operation.  fs::write is two of them: it truncates the file     *)
(* when it opens it and writes the text afterwards.  Time stamps are left  *)
(* out, so update_heartbeat only marks the table dirty and saves it.       *)
(***************************************************************************)
EXTENDS Naturals, FiniteSets

CONSTANTS
    Thread,         \* threads that call the server
    Name, Id,       \* names and NodeIDs
    None,           \* Rust's Option::None
    Ops,            \* the operations called: a subset of OpKind
    DiskFaults,     \* may saving the file fail?
    MaxCrashes      \* bound on crashes explored

OpKind == {"register", "upsert", "heartbeat"}
Step == {"idle", "reverse", "mark", "check", "snapshot", "create", "write", "clear"}

ASSUME NamesAssumption == None \notin Name /\ None \notin Id
ASSUME OpsAssumption == Ops \subseteq OpKind /\ DiskFaults \in BOOLEAN /\ MaxCrashes \in Nat

VARIABLES
    names,          \* names: the NodeID registered under each name
    reverse,        \* reverse: the name recorded for each NodeID
    dirty,          \* the dirty flag
    disk,           \* what db_path holds
    up,             \* is the server process running?
    pc,             \* the step each thread is at
    req,            \* its call under way: operation, name and NodeID
    old,            \* upsert's old_node_id
    snap,           \* the text save_to_file is writing
    acked,          \* history: names and NodeIDs a call returned Ok for
    crashes,        \* crashes so far
    upserted,       \* history: has upsert been called?
    raced           \* history: have two calls been under way at once?

tables == <<names, reverse>>
past == <<upserted, raced>>
vars == <<tables, dirty, disk, up, pc, req, old, snap, acked, crashes, past>>

NoNames == [n \in Name |-> None]
NoReverse == [i \in Id |-> None]
Request == [op : OpKind, name : Name, id : Id]

\* The file is missing, empty, unreadable (part of a text, or one text over
\* the tail of a longer one) or a saved table.
File(k, n, r) == [kind |-> k, names |-> n, reverse |-> r]
NoFile == File("none", NoNames, NoReverse)
EmptyFile == File("empty", NoNames, NoReverse)
TornFile == File("torn", NoNames, NoReverse)
Files == {NoFile, EmptyFile, TornFile}
           \cup [kind : {"data"}, names : [Name -> Id \cup {None}], reverse : [Id -> Name \cup {None}]]

Init ==
    /\ names = NoNames /\ reverse = NoReverse
    /\ dirty = FALSE
    /\ disk = NoFile
    /\ up = TRUE
    /\ pc = [t \in Thread |-> "idle"]
    /\ req = [t \in Thread |-> None]
    /\ old = [t \in Thread |-> None]
    /\ snap = [t \in Thread |-> EmptyFile]
    /\ acked = {}
    /\ crashes = 0
    /\ upserted = FALSE /\ raced = FALSE

Goto(t, s) == pc' = [pc EXCEPT ![t] = s]

----------------------------------------------------------------------------
(* The operators named ...Mutant are plausible bugs; no specification uses  *)
(* them.                                                                   *)
(*                                                                         *)
(* The first step of each call.  A call that is refused (AlreadyRegistered, *)
(* NotFound) returns without changing anything.                            *)

RegisterMutant(t, n, i) ==
    /\ names' = [names EXCEPT ![n] = i]
    /\ Goto(t, "reverse")
    /\ UNCHANGED <<reverse, dirty, disk, up, old, snap, acked, crashes>>

\* register, first lock: check and insert.
Register(t, n, i) ==
    /\ names[n] = None
    /\ names' = [names EXCEPT ![n] = i]
    /\ Goto(t, "reverse")
    /\ UNCHANGED <<reverse, dirty, disk, up, old, snap, acked, crashes>>

UpsertMutant(t, n, i) ==
    /\ old' = [old EXCEPT ![t] = names[n]]
    /\ names' = IF names[n] = None THEN [names EXCEPT ![n] = i] ELSE names
    /\ Goto(t, "reverse")
    /\ UNCHANGED <<reverse, dirty, disk, up, snap, acked, crashes>>

\* upsert, first lock: insert or replace, remembering the id replaced.
Upsert(t, n, i) ==
    /\ old' = [old EXCEPT ![t] = names[n]]
    /\ names' = [names EXCEPT ![n] = i]
    /\ Goto(t, "reverse")
    /\ UNCHANGED <<reverse, dirty, disk, up, snap, acked, crashes>>

UpdateHeartbeat(t, n) ==
    /\ names[n] # None
    /\ Goto(t, "mark")
    /\ UNCHANGED <<tables, dirty, disk, up, old, snap, acked, crashes>>

Call(t) ==
    /\ up /\ pc[t] = "idle"
    /\ \E o \in Ops, n \in Name, i \in Id :
          /\ req' = [req EXCEPT ![t] = [op |-> o, name |-> n, id |-> i]]
          /\ upserted' = (upserted \/ o = "upsert")
          /\ \/ o = "register" /\ Register(t, n, i)
             \/ o = "upsert" /\ Upsert(t, n, i)
             \/ o = "heartbeat" /\ UpdateHeartbeat(t, n)
    /\ raced' = (raced \/ \E u \in Thread \ {t} : pc[u] # "idle")

----------------------------------------------------------------------------
(* The steps that follow. *)

UpdateReverseMutant(t) ==
    /\ pc[t] = "reverse"
    /\ reverse' = [i \in Id |-> IF i = req[t].id THEN req[t].name ELSE reverse[i]]
    /\ old' = [old EXCEPT ![t] = None]
    /\ Goto(t, "mark")
    /\ UNCHANGED <<names, dirty, disk, up, req, snap, acked, crashes>>

\* Second lock of register and upsert.
UpdateReverse(t) ==
    /\ pc[t] = "reverse"
    /\ reverse' = [i \in Id |-> CASE i = req[t].id -> req[t].name
                                  [] i # req[t].id /\ i = old[t] -> None
                                  [] OTHER -> reverse[i]]
    /\ old' = [old EXCEPT ![t] = None]
    /\ Goto(t, "mark")
    /\ UNCHANGED <<names, dirty, disk, up, req, snap, acked, crashes>>

MarkDirty(t) ==
    /\ pc[t] = "mark"
    /\ dirty' = TRUE
    /\ Goto(t, "check")
    /\ UNCHANGED <<tables, disk, up, req, old, snap, acked, crashes>>

\* The call returns Ok, whether the table was saved or not.
Return(t) ==
    /\ Goto(t, "idle")
    /\ req' = [req EXCEPT ![t] = None]
    /\ acked' = IF req[t].op = "heartbeat" THEN acked
                  ELSE acked \cup {<<req[t].name, req[t].id>>}

\* save_if_dirty
SaveIfDirty(t) ==
    /\ pc[t] = "check"
    /\ IF dirty THEN Goto(t, "snapshot") /\ UNCHANGED <<req, acked>> ELSE Return(t)
    /\ UNCHANGED <<tables, dirty, disk, up, old, snap, crashes>>

\* save_to_file, with both read locks held.
TakeSnapshot(t) ==
    /\ pc[t] = "snapshot"
    /\ snap' = [snap EXCEPT ![t] = File("data", names, reverse)]
    /\ Goto(t, "create")
    /\ UNCHANGED <<tables, dirty, disk, up, req, old, acked, crashes>>

CreateFile(t) ==
    /\ pc[t] = "create"
    /\ disk' = EmptyFile
    /\ Goto(t, "write")
    /\ UNCHANGED <<tables, dirty, up, req, old, snap, acked, crashes>>

\* Is the text in the file a part of what t writes?  (A text that is not may
\* be longer, and then its tail is left.)
Covers(t) ==
    \/ disk.kind = "empty"
    \/ /\ disk.kind = "data"
       /\ \A n \in Name : disk.names[n] \in {None, snap[t].names[n]}
       /\ \A i \in Id : disk.reverse[i] \in {None, snap[t].reverse[i]}

WriteFile(t) ==
    /\ pc[t] = "write"
    /\ disk' \in IF Covers(t) THEN {snap[t]} ELSE {snap[t], TornFile}
    /\ Goto(t, "clear")
    /\ UNCHANGED <<tables, dirty, up, req, old, snap, acked, crashes>>

SaveFailsMutant(t) ==
    /\ DiskFaults
    /\ \/ pc[t] = "create" /\ disk' = disk
       \/ pc[t] = "write" /\ disk' \in {disk, TornFile}
    /\ snap' = [snap EXCEPT ![t] = EmptyFile]
    /\ dirty' = FALSE
    /\ Return(t)
    /\ UNCHANGED <<tables, up, old, crashes>>

\* Creating or writing the file fails: save_if_dirty only logs the error.
SaveFails(t) ==
    /\ DiskFaults
    /\ \/ pc[t] = "create" /\ disk' = disk
       \/ pc[t] = "write" /\ disk' \in {disk, TornFile}
    /\ snap' = [snap EXCEPT ![t] = EmptyFile]
    /\ Return(t)
    /\ UNCHANGED <<tables, dirty, up, old, crashes>>

ClearDirty(t) ==
    /\ pc[t] = "clear"
    /\ dirty' = FALSE
    /\ snap' = [snap EXCEPT ![t] = EmptyFile]
    /\ Return(t)
    /\ UNCHANGED <<tables, disk, up, old, crashes>>

----------------------------------------------------------------------------
\* The process dies; a write under way may have left part of its text.
Crash ==
    /\ up /\ crashes < MaxCrashes
    /\ up' = FALSE
    /\ crashes' = crashes + 1
    /\ \/ disk' = disk
       \/ \E t \in Thread : pc[t] = "write" /\ disk' = TornFile
    /\ names' = NoNames /\ reverse' = NoReverse /\ dirty' = FALSE
    /\ pc' = [t \in Thread |-> "idle"]
    /\ old' = [t \in Thread |-> None]
    /\ snap' = [t \in Thread |-> EmptyFile]
    /\ req' = [t \in Thread |-> None]
    /\ UNCHANGED acked

\* new and load_from_file: a missing or an empty file is an empty table, and so
\* is one that load_from_file returns an error for.
Restart ==
    /\ ~up
    /\ up' = TRUE
    /\ names' = disk.names /\ reverse' = disk.reverse
    /\ UNCHANGED <<dirty, disk, pc, req, old, snap, acked, crashes>>

Works(t) ==
    \/ UpdateReverse(t) \/ MarkDirty(t) \/ SaveIfDirty(t)
    \/ TakeSnapshot(t) \/ CreateFile(t) \/ WriteFile(t) \/ SaveFails(t) \/ ClearDirty(t)

Next ==
    \/ \E t \in Thread : Call(t)
    \/ UNCHANGED past /\ (Crash \/ Restart \/ \E t \in Thread : Works(t))

Spec == Init /\ [][Next]_vars

----------------------------------------------------------------------------
(* Properties. *)

\* The variables of the server, of its threads and of the file have their types.
TypeOK ==
    /\ names \in [Name -> Id \cup {None}]
    /\ reverse \in [Id -> Name \cup {None}]
    /\ dirty \in BOOLEAN /\ up \in BOOLEAN
    /\ disk \in Files
    /\ pc \in [Thread -> Step]
    /\ req \in [Thread -> Request \cup {None}]
    /\ old \in [Thread -> Id \cup {None}]
    /\ snap \in [Thread -> Files]
    /\ acked \subseteq Name \X Id
    /\ crashes \in 0..MaxCrashes
    /\ upserted \in BOOLEAN /\ raced \in BOOLEAN

Quiescent == up /\ \A t \in Thread : pc[t] = "idle"

\* No call is between its update of names and its update of reverse.
TablesSettled == up /\ \A t \in Thread : pc[t] # "reverse"

\* register checks and inserts under one lock: of several threads that register
\* one name at most one is told Ok, and lookup keeps answering what it was told,
\* as long as the process lives and nobody calls upsert.
ExclusiveOwner == ~upserted /\ crashes = 0 => \A a \in acked : names[a[1]] = a[2]

\* reverse_lookup is the inverse of lookup: the name it returns for a NodeID is
\* registered for this NodeID.  Concurrent registers keep it so, and calls of all
\* kinds one after the other, through crashes; concurrent upserts do not.
ReverseSound ==
    TablesSettled /\ (~upserted \/ ~raced) => \A i \in Id : reverse[i] # None => names[reverse[i]] = i

\* "maintains the mapping names <-> NodeIDs": a NodeID some name is registered
\* for can be looked up, as long as the process lives and nobody calls upsert.  (A
\* snapshot another thread takes between the two locks may hold the name without its reverse entry.)
ReverseComplete ==
    TablesSettled /\ ~upserted /\ crashes = 0 => \A n \in Name : names[n] # None => reverse[names[n]] # None

\* Between the locks reverse_lookup undoes lookup, and leaves no id out.
ReverseExact == ReverseSound /\ ReverseComplete

\* The dirty flag: when no call is under way and it is down, the file holds the
\* table, so a restart now would lose nothing.  (Two calls at once break this: one
\* clears the flag the other has just set.)
CleanMeansSaved ==
    Quiescent /\ ~dirty /\ ~raced => disk.names = names /\ disk.reverse = reverse

\* The update of a call under way, and the table a thread is writing.
Updating(t) == IF pc[t] # "idle" /\ req[t].op # "heartbeat" THEN {req[t]} ELSE {}
Saving(t) == IF pc[t] \in {"create", "write"} THEN {snap[t].names} ELSE {}

Table == INSTANCE NameTable WITH
             Caller <- Thread, table <- names, saved <- disk.names,
             calls <- [t \in Thread |-> Updating(t)], copies <- [t \in Thread |-> Saving(t)]

\* With its two tables, its flag and its file the server is a table of names: register
\* is atomic, Ok is for what took effect, and a restart finds no table in part.
IsNameTable == Table!Spec
=============================================================================
