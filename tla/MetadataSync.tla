---------------------------- MODULE MetadataSync ----------------------------
(***************************************************************************)
(* MetadataStore (src/src/storage/metadata.rs) of several nodes that send    *)
(* each other their entries and merge them with sync_from, the newer one     *)
(* winning.  Each store is used by one thread, its file is written after     *)
(* every change, and a node may die and load the file again.                 *)
(*                                                                         *)
(* An entry is its content, represented by what hash_entry makes of it, and  *)
(* the time it was updated; `written` is the time a user last changed it, *)
(* which the program does not keep.                                          *)
(***************************************************************************)
EXTENDS Integers, FiniteSets, Sequences

CONSTANTS
    Store,          \* nodes with a metadata store
    Name,           \* file names
    Content,        \* hash_entry values of the contents of one file
    Window,         \* CONFLICT_WINDOW_SECS
    Absent,         \* no entry
    Cut,            \* a file that was cut off in the middle
    MaxNow, MaxWrites, MaxMail  \* bounds on the clock, the users' changes and the mail under way

ASSUME MeAssumption == Content \subseteq Nat /\ {Window, MaxNow, MaxWrites, MaxMail} \subseteq Nat

VARIABLES
    entries,        \* entries of each store
    meFile,         \* the file of each store; Cut if it cannot be parsed
    dirty,          \* dirty flag of each store
    mail,           \* entries on their way to another store
    now,            \* now_secs
    writes          \* changes by users so far

meVars == <<entries, meFile, dirty, mail, now, writes>>

Entry == [content : Content, updated : 0..MaxNow, written : 0..MaxNow]
NoneHeld == [n \in Name |-> Absent]

MeInit ==
    /\ entries = [s \in Store |-> NoneHeld]
    /\ meFile = [s \in Store |-> NoneHeld]
    /\ dirty = [s \in Store |-> FALSE]
    /\ mail = {} /\ now = 0 /\ writes = 0

----------------------------------------------------------------------------

SavesMutant(s, table) ==
    /\ entries' = [entries EXCEPT ![s] = table]
    /\ dirty' = [dirty EXCEPT ![s] = FALSE]
    /\ meFile' \in {[meFile EXCEPT ![s] = table], meFile}

\* save_if_dirty after the entries changed: the file is written, or the write
\* fails, which is logged, or the node dies in the middle of it.  Dying leaves
\* the file empty or cut off and the store with what load_from_file makes of it;
\* a file that cannot be parsed leaves the node without a store.
Saves(s, table) ==
    \/ /\ entries' = [entries EXCEPT ![s] = table]
       /\ \/ meFile' = [meFile EXCEPT ![s] = table] /\ dirty' = [dirty EXCEPT ![s] = FALSE]
          \/ meFile' = meFile /\ dirty' = [dirty EXCEPT ![s] = TRUE]
    \/ /\ \E left \in {NoneHeld, Cut} : meFile' = [meFile EXCEPT ![s] = left] /\ entries' = [entries EXCEPT ![s] = left]
       /\ dirty' = [dirty EXCEPT ![s] = FALSE]

Running(s) == entries[s] # Cut

UserChanges(s) ==
    /\ Running(s) /\ writes < MaxWrites /\ writes' = writes + 1
    /\ UNCHANGED <<mail, now>>

\* register (the name must be new) and upsert.
Put(s, n, content) ==
    /\ UserChanges(s)
    /\ Saves(s, [entries[s] EXCEPT ![n] = [content |-> content, updated |-> now, written |-> now]])
Register(s, n, content) == Running(s) /\ entries[s][n] = Absent /\ Put(s, n, content)
Upsert(s, n, content) == Put(s, n, content)

\* An addition to an entry that hash_entry does not look at; updated_at is renewed.
Annotate(s, n) ==
    /\ UserChanges(s) /\ entries[s][n] # Absent
    /\ Saves(s, [entries[s] EXCEPT ![n].updated = now, ![n].written = now])

AddBlockNodes(s, n) == Annotate(s, n)
MarkEncrypted(s, n) == Annotate(s, n)

RemoveFile(s, n) ==
    /\ UserChanges(s) /\ entries[s][n] # Absent
    /\ Saves(s, [entries[s] EXCEPT ![n] = Absent])

\* A node dies while it is not saving, and loads its file again.
Restart(s) ==
    /\ Running(s) /\ meFile[s] # entries[s]
    /\ entries' = [entries EXCEPT ![s] = meFile[s]]
    /\ dirty' = [dirty EXCEPT ![s] = FALSE]
    /\ UNCHANGED <<meFile, mail, now, writes>>

Flush(s) ==
    /\ Running(s) /\ dirty[s]
    /\ Saves(s, entries[s])
    /\ UNCHANGED <<mail, now, writes>>

----------------------------------------------------------------------------
(* Synchronisation. *)

\* all_entries is sent to another node.  (The code leaves to its caller how.)
SendEntries(s, to) ==
    /\ Running(s) /\ entries[s] # NoneHeld /\ Cardinality(mail) < MaxMail
    /\ mail' = mail \cup {[to |-> to, table |-> entries[s]]}
    /\ UNCHANGED <<entries, meFile, dirty, now, writes>>

\* The rule of sync_from: the later one beyond the window, the larger digest
\* within it.
ShouldMerge(mine, theirs) ==
    \/ mine = Absent
    \/ theirs.updated > mine.updated + Window
    \/ mine.updated <= theirs.updated + Window /\ theirs.content > mine.content

\* An entry that is taken over counts as updated now.
Merged(theirs) == [theirs EXCEPT !.updated = now]

SyncFrom(s, m) ==
    LET table == [n \in Name |-> IF m.table[n] # Absent /\ ShouldMerge(entries[s][n], m.table[n])
                                 THEN Merged(m.table[n]) ELSE entries[s][n]]
    IN
    /\ Running(s) /\ m.to = s
    /\ mail' = mail \ {m}
    /\ IF \E n \in Name : m.table[n] # Absent /\ ShouldMerge(entries[s][n], m.table[n])
       THEN Saves(s, table)
       ELSE UNCHANGED <<entries, meFile, dirty>>
    /\ UNCHANGED <<now, writes>>

Passes ==
    /\ now < MaxNow /\ now' = now + 1
    /\ UNCHANGED <<entries, meFile, dirty, mail, writes>>

MeNext ==
    \/ \E s \in Store, n \in Name :
          \/ \E c \in Content : Register(s, n, c) \/ Upsert(s, n, c)
          \/ AddBlockNodes(s, n) \/ MarkEncrypted(s, n) \/ RemoveFile(s, n)
    \/ \E s \in Store : Restart(s) \/ Flush(s)
    \/ \E s, to \in Store : s # to /\ SendEntries(s, to)
    \/ \E m \in mail : SyncFrom(m.to, m)
    \/ Passes

MeSpec == MeInit /\ [][MeNext]_meVars

----------------------------------------------------------------------------
(* Properties. *)

\* The variables have their types.
MeTypeOK ==
    /\ \A s \in Store : entries[s] = Cut \/ entries[s] \in [Name -> Entry \cup {Absent}]
    /\ \A s \in Store : meFile[s] = Cut \/ meFile[s] \in [Name -> Entry \cup {Absent}]
    /\ dirty \in [Store -> BOOLEAN]
    /\ mail \subseteq [to : Store, table : [Name -> Entry \cup {Absent}]]
    /\ now \in 0..MaxNow /\ writes \in 0..MaxWrites

\* A store that is not marked dirty is the one in its file, through failed writes,
\* crashes and merges: nothing is lost by a restart unless dirty says so.
CleanIsSaved == \A s \in Store : ~dirty[s] => meFile[s] = entries[s]

\* Violated.  A merge never replaces an entry by one that its users changed more
\* than the window earlier: the newest wins.
NewestWins ==
    [][\A s \in Store, n \in Name, m \in mail :
          Running(s) /\ SyncFrom(s, m) /\ Running(s)' /\ entries[s][n] # Absent /\ entries'[s][n] # Absent
          => entries'[s][n].written + Window >= entries[s][n].written]_meVars
=============================================================================
