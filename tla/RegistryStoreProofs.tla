------------------------ MODULE RegistryStoreProofs ------------------------
(* What holds of RegistryStore for any number of threads, names and ids, and *)
(* that it implements NameTable.                                            *)
EXTENDS RegistryStore, TLAPS

\* A thread that is inside a call has the call's arguments at hand.
CallsUnderWay == \A t \in Thread : pc[t] # "idle" => req[t] \in Request

\* No thread runs, and nothing waits to be saved, while the process is down.
IdleWhenDown == ~up => ~dirty /\ \A t \in Thread : pc[t] = "idle"

TypeInv == TypeOK /\ CallsUnderWay /\ IdleWhenDown

\* The four shapes of the file, and what is read from one.
LEMMA FileTypes ==
    /\ NoFile \in Files /\ EmptyFile \in Files /\ TornFile \in Files
    /\ \A n \in [Name -> Id \cup {None}], r \in [Id -> Name \cup {None}] : File("data", n, r) \in Files
    /\ \A f \in Files : f.names \in [Name -> Id \cup {None}] /\ f.reverse \in [Id -> Name \cup {None}]
BY DEF NoFile, EmptyFile, TornFile, Files, File, NoNames, NoReverse

\* The server starts with empty tables and no call under way.
LEMMA TypeInvInit == Init => TypeInv
<1> SUFFICES ASSUME Init PROVE TypeInv
    OBVIOUS
<1>1. names \in [Name -> Id \cup {None}] /\ reverse \in [Id -> Name \cup {None}]
    BY DEF Init, NoNames, NoReverse
<1>2. disk \in Files /\ snap \in [Thread -> Files]
    BY FileTypes DEF Init
<1>3. crashes \in 0..MaxCrashes
    BY OpsAssumption DEF Init
<1> QED
    BY <1>1, <1>2, <1>3 DEF Init, TypeInv, TypeOK, CallsUnderWay, IdleWhenDown, Step

\* Each action keeps the types.
LEMMA TypeInvStep == TypeInv /\ [Next]_vars => TypeInv'
<1> SUFFICES ASSUME TypeInv, [Next]_vars PROVE TypeInv'
    OBVIOUS
<1>0. upserted' \in BOOLEAN /\ raced' \in BOOLEAN
  <2>1. upserted \in BOOLEAN /\ raced \in BOOLEAN
    BY DEF TypeInv, TypeOK
  <2>2. CASE UNCHANGED past
    BY <2>1, <2>2 DEF past
  <2>3. ASSUME NEW t \in Thread, Call(t) PROVE upserted' \in BOOLEAN /\ raced' \in BOOLEAN
    BY <2>3 DEF Call
  <2> QED
    BY <2>2, <2>3 DEF Next, vars
<1> USE <1>0 DEF TypeInv, TypeOK, CallsUnderWay, IdleWhenDown, Goto, Step, tables
<1>1. ASSUME NEW t \in Thread, NEW n \in Name, NEW i \in Id, up, Register(t, n, i),
             req' = [req EXCEPT ![t] = [op |-> "register", name |-> n, id |-> i]]
      PROVE  TypeInv'
    BY <1>1 DEF Register, Request, OpKind
<1>2. ASSUME NEW t \in Thread, NEW n \in Name, NEW i \in Id, up, Upsert(t, n, i),
             req' = [req EXCEPT ![t] = [op |-> "upsert", name |-> n, id |-> i]]
      PROVE  TypeInv'
    BY <1>2 DEF Upsert, Request, OpKind
<1>3. ASSUME NEW t \in Thread, NEW n \in Name, NEW i \in Id, up, UpdateHeartbeat(t, n),
             req' = [req EXCEPT ![t] = [op |-> "heartbeat", name |-> n, id |-> i]]
      PROVE  TypeInv'
    BY <1>3 DEF UpdateHeartbeat, Request, OpKind
<1>4. ASSUME NEW t \in Thread, UpdateReverse(t) PROVE TypeInv'
  <2>1. req[t] \in Request
    BY <1>4 DEF UpdateReverse
  <2>2. reverse' \in [Id -> Name \cup {None}]
    BY <1>4, <2>1 DEF UpdateReverse, Request
  <2> QED
    BY <1>4, <2>2 DEF UpdateReverse
<1>5. ASSUME NEW t \in Thread, MarkDirty(t) PROVE TypeInv'
    BY <1>5 DEF MarkDirty
<1>6. ASSUME NEW t \in Thread, pc[t] # "idle", Return(t)
      PROVE  /\ acked' \subseteq Name \X Id
             /\ req' \in [Thread -> Request \cup {None}]
             /\ pc' \in [Thread -> Step]
             /\ CallsUnderWay'
             /\ up /\ (up' = up => IdleWhenDown')
  <2>1. req[t] \in Request
    BY <1>6
  <2> QED
    BY <1>6, <2>1 DEF Return, Request
<1>7. ASSUME NEW t \in Thread, SaveIfDirty(t) PROVE TypeInv'
  <2>1. CASE dirty
    BY <1>7, <2>1 DEF SaveIfDirty
  <2>2. CASE ~dirty
    BY <1>7, <1>6, <2>2 DEF SaveIfDirty
  <2> QED
    BY <2>1, <2>2
<1>8. ASSUME NEW t \in Thread, TakeSnapshot(t) PROVE TypeInv'
    BY <1>8, FileTypes DEF TakeSnapshot
<1>9. ASSUME NEW t \in Thread, CreateFile(t) PROVE TypeInv'
    BY <1>9, FileTypes DEF CreateFile
<1>10. ASSUME NEW t \in Thread, WriteFile(t) PROVE TypeInv'
  <2>1. disk' \in {snap[t], TornFile}
    BY <1>10 DEF WriteFile
  <2> QED
    BY <1>10, <2>1, FileTypes DEF WriteFile
<1>11. ASSUME NEW t \in Thread, SaveFails(t) PROVE TypeInv'
  <2>1. disk' \in Files /\ snap' \in [Thread -> Files]
    BY <1>11, FileTypes DEF SaveFails
  <2> QED
    BY <1>11, <1>6, <2>1 DEF SaveFails
<1>12. ASSUME NEW t \in Thread, ClearDirty(t) PROVE TypeInv'
    BY <1>12, <1>6, FileTypes DEF ClearDirty
<1>13. ASSUME Crash PROVE TypeInv'
  <2>1. names' \in [Name -> Id \cup {None}] /\ reverse' \in [Id -> Name \cup {None}]
    BY <1>13 DEF Crash, NoNames, NoReverse
  <2>2. disk' \in Files /\ snap' \in [Thread -> Files]
    BY <1>13, FileTypes DEF Crash
  <2>3. crashes' \in 0..MaxCrashes
    BY <1>13, OpsAssumption DEF Crash
  <2> QED
    BY <1>13, <2>1, <2>2, <2>3 DEF Crash
<1>14. ASSUME Restart PROVE TypeInv'
    BY <1>14, FileTypes DEF Restart
<1>15. CASE UNCHANGED vars
    BY <1>15 DEF vars
<1> QED
    BY <1>1, <1>2, <1>3, <1>4, <1>5, <1>7, <1>8, <1>9, <1>10, <1>11, <1>12, <1>13, <1>14, <1>15
       DEF Next, Works, Call

\* So the types hold at all times.
LEMMA TypeInvariance == Spec => []TypeInv
BY TypeInvInit, TypeInvStep, PTL DEF Spec

\* The server's tables, flag and file, and the state of every thread, keep
\* their types through all calls, failures, crashes and restarts.
THEOREM StoreTyping == Spec => []TypeOK
BY TypeInvariance, PTL DEF TypeInv

----------------------------------------------------------------------------
(* Until the first upsert the reverse table is sound at every moment, in    *)
(* memory, in the texts being written and in the file, so no crash can      *)
(* break it.                                                                *)

Sound(n, r) == \A i \in Id : r[i] # None => n[r[i]] = i

\* A register between its two locks: its name is in the table.
Inserted == \A t \in Thread : pc[t] = "reverse" => names[req[t].name] = req[t].id

SoundInv ==
    /\ TypeInv /\ ~upserted
    /\ Sound(names, reverse)
    /\ Sound(disk.names, disk.reverse)
    /\ \A t \in Thread : Sound(snap[t].names, snap[t].reverse)
    /\ Inserted
    /\ \A t \in Thread : old[t] = None

\* The file's three tableless shapes are sound, and a saved table is what was saved.
LEMMA FileSound ==
    /\ Sound(NoFile.names, NoFile.reverse)
    /\ Sound(EmptyFile.names, EmptyFile.reverse)
    /\ Sound(TornFile.names, TornFile.reverse)
    /\ Sound(NoNames, NoReverse)
    /\ \A n, r : File("data", n, r).names = n /\ File("data", n, r).reverse = r
BY DEF Sound, NoFile, EmptyFile, TornFile, File, NoNames, NoReverse

\* Soundness everywhere is inductive as long as nobody calls upsert.
LEMMA SoundInvStep == SoundInv /\ [Next]_vars /\ ~upserted' => SoundInv'
<1> SUFFICES ASSUME SoundInv, [Next]_vars, ~upserted' PROVE SoundInv'
    OBVIOUS
<1>0. TypeInv'
    BY TypeInvStep DEF SoundInv
<1> USE DEF SoundInv, Inserted, Goto, tables
<1>1. ASSUME NEW t \in Thread, NEW n \in Name, NEW i \in Id, up, Register(t, n, i),
             req' = [req EXCEPT ![t] = [op |-> "register", name |-> n, id |-> i]]
      PROVE  SoundInv'
  <2> USE DEF TypeInv, TypeOK
  <2>1. Sound(names', reverse')
    BY <1>1, NamesAssumption DEF Register, Sound
  <2>2. Inserted'
    <3> SUFFICES ASSUME NEW u \in Thread, pc'[u] = "reverse"
                 PROVE  names'[req'[u].name] = req'[u].id
        OBVIOUS
    <3>1. CASE u = t
        BY <1>1, <3>1 DEF Register
    <3>2. CASE u # t
      <4>1. req'[u] = req[u] /\ pc[u] = "reverse" /\ req[u] \in Request
        BY <1>1, <3>2 DEF Register, CallsUnderWay
      <4>2. names[req[u].name] = req[u].id /\ req[u].id # None
        BY <4>1, NamesAssumption DEF Request
      <4> QED
        BY <1>1, <4>1, <4>2 DEF Register, Request
    <3> QED
        BY <3>1, <3>2
  <2> QED
    BY <1>0, <1>1, <2>1, <2>2 DEF Register
<1>2. ASSUME NEW t \in Thread, NEW n \in Name, NEW i \in Id, up, UpdateHeartbeat(t, n),
             req' = [req EXCEPT ![t] = [op |-> "heartbeat", name |-> n, id |-> i]]
      PROVE  SoundInv'
    BY <1>0, <1>2 DEF UpdateHeartbeat, TypeInv, TypeOK
<1>3. ASSUME NEW t \in Thread, UpdateReverse(t) PROVE SoundInv'
  <2>1. names[req[t].name] = req[t].id /\ old[t] = None /\ req[t].id \in Id
    BY <1>3 DEF UpdateReverse, TypeInv, CallsUnderWay, Request
  <2>2. Sound(names', reverse')
    BY <1>3, <2>1, NamesAssumption DEF UpdateReverse, Sound
  <2> QED
    BY <1>0, <1>3, <2>2 DEF UpdateReverse, TypeInv, TypeOK
<1>4. ASSUME NEW t \in Thread, MarkDirty(t) PROVE SoundInv'
    BY <1>0, <1>4 DEF MarkDirty, TypeInv, TypeOK
<1>5. ASSUME NEW t \in Thread, SaveIfDirty(t) PROVE SoundInv'
    BY <1>0, <1>5 DEF SaveIfDirty, Return, TypeInv, TypeOK
<1>6. ASSUME NEW t \in Thread, TakeSnapshot(t) PROVE SoundInv'
    BY <1>0, <1>6, FileSound DEF TakeSnapshot, TypeInv, TypeOK
<1>7. ASSUME NEW t \in Thread, CreateFile(t) PROVE SoundInv'
    BY <1>0, <1>7, FileSound DEF CreateFile, TypeInv, TypeOK
<1>8. ASSUME NEW t \in Thread, WriteFile(t) PROVE SoundInv'
  <2>1. disk' \in {snap[t], TornFile}
    BY <1>8 DEF WriteFile
  <2> QED
    BY <1>0, <1>8, <2>1, FileSound DEF WriteFile, TypeInv, TypeOK
<1>9. ASSUME NEW t \in Thread, SaveFails(t) PROVE SoundInv'
    BY <1>0, <1>9, FileSound DEF SaveFails, Return, TypeInv, TypeOK
<1>10. ASSUME NEW t \in Thread, ClearDirty(t) PROVE SoundInv'
    BY <1>0, <1>10, FileSound DEF ClearDirty, Return, TypeInv, TypeOK
<1>11. ASSUME Crash PROVE SoundInv'
    BY <1>0, <1>11, FileSound DEF Crash
<1>12. ASSUME Restart PROVE SoundInv'
  <2>1. \A t \in Thread : pc[t] = "idle"
    BY <1>12 DEF Restart, TypeInv, IdleWhenDown
  <2> QED
    BY <1>0, <1>12, <2>1 DEF Restart
<1>13. CASE UNCHANGED vars
    BY <1>0, <1>13 DEF vars
<1> QED
    BY <1>1, <1>2, <1>3, <1>4, <1>5, <1>6, <1>7, <1>8, <1>9, <1>10, <1>11, <1>12, <1>13
       DEF Next, Works, Call

\* Upserts and overlaps are never forgotten.
LEMMA PastKept ==
    ASSUME TypeInv, [Next]_vars
    PROVE  (~upserted' => ~upserted) /\ (~raced' => ~raced)
BY DEF TypeInv, TypeOK, Next, Call, vars, past

----------------------------------------------------------------------------
(* Until two calls overlap, a thread inside a call is alone in the server.  *)

Alone(t) == \A u \in Thread \ {t} : pc[u] = "idle"

AloneInv == TypeInv /\ (~raced => \A t \in Thread : pc[t] # "idle" => Alone(t))

\* The thread that acts is alone before and after its step.
LEMMA AloneActs ==
    ASSUME AloneInv, ~raced, ~raced', NEW t \in Thread, Call(t) \/ Works(t)
    PROVE  Alone(t) /\ Alone(t)'
<1>0. TypeInv
    BY DEF AloneInv
<1>1. Alone(t)
  <2>1. CASE Call(t)
    BY <1>0, <2>1 DEF Call, Alone, TypeInv, TypeOK
  <2>2. CASE Works(t)
    <3>1. pc[t] # "idle"
        BY <2>2 DEF Works, UpdateReverse, MarkDirty, SaveIfDirty, TakeSnapshot, CreateFile, WriteFile,
                    SaveFails, ClearDirty
    <3> QED
        BY <3>1 DEF AloneInv
  <2> QED
    BY <2>1, <2>2
<1>2. ASSUME NEW u \in Thread, u # t PROVE pc'[u] = pc[u]
    BY <1>0, <1>2 DEF TypeInv, TypeOK, Goto, Call, Register, Upsert, UpdateHeartbeat, Works, UpdateReverse,
       MarkDirty, SaveIfDirty, Return, TakeSnapshot, CreateFile, WriteFile, SaveFails, ClearDirty
<1> QED
    BY <1>1, <1>2 DEF Alone

\* So a thread inside a call is alone until two calls overlap.
LEMMA AloneInvStep == AloneInv /\ [Next]_vars => AloneInv'
<1> SUFFICES ASSUME AloneInv, [Next]_vars, ~raced', NEW v \in Thread, pc'[v] # "idle"
             PROVE  Alone(v)'
    BY TypeInvStep DEF AloneInv
<1>0. ~raced
    BY PastKept DEF AloneInv
<1>1. ASSUME NEW t \in Thread, Call(t) \/ Works(t) PROVE Alone(v)'
  <2>1. Alone(t)'
    BY <1>0, <1>1, AloneActs
  <2>2. v = t
    BY <2>1 DEF Alone
  <2> QED
    BY <2>1, <2>2
<1>2. CASE Crash
    BY <1>2 DEF Crash
<1>3. CASE Restart
    BY <1>3 DEF Restart, AloneInv, TypeInv, IdleWhenDown
<1>4. CASE UNCHANGED vars
    BY <1>0, <1>4 DEF vars, AloneInv, Alone
<1> QED
    BY <1>1, <1>2, <1>3, <1>4 DEF Next

----------------------------------------------------------------------------
(* Then upserts keep the reverse table sound, too: between the two locks of *)
(* an upsert only the entry of the NodeID it replaced is wrong.             *)

SoundAt(t) ==
    IF pc[t] = "reverse"
    THEN /\ names[req[t].name] = req[t].id
         /\ \A i \in Id : reverse[i] # None => names[reverse[i]] = i \/ i = old[t]
    ELSE Sound(names, reverse)

SavedSound ==
    /\ Sound(disk.names, disk.reverse)
    /\ \A t \in Thread : Sound(snap[t].names, snap[t].reverse)

SequentialInv ==
    /\ AloneInv
    /\ ~raced => SavedSound /\ \A t \in Thread : Alone(t) => SoundAt(t)

\* What the steps of a thread that is alone do to the tables and their copies.
LEMMA SoundAtStep ==
    ASSUME NEW t \in Thread, TypeInv, SoundAt(t), SavedSound, Call(t) \/ Works(t)
    PROVE  SoundAt(t)' /\ SavedSound'
<1> USE DEF SoundAt, SavedSound, Goto, tables, TypeInv, TypeOK
<1>1. ASSUME NEW n \in Name, NEW i \in Id, NEW o, pc[t] = "idle", Register(t, n, i) \/ Upsert(t, n, i),
             req' = [req EXCEPT ![t] = [op |-> o, name |-> n, id |-> i]]
      PROVE  SoundAt(t)' /\ SavedSound'
  <2>1. pc'[t] = "reverse" /\ req'[t].name = n /\ req'[t].id = i /\ names' = [names EXCEPT ![n] = i]
        /\ UNCHANGED <<reverse, disk, snap>> /\ Sound(names, reverse)
    BY <1>1 DEF Register, Upsert
  <2>2. ASSUME NEW j \in Id, reverse[j] # None PROVE names'[reverse[j]] = j \/ j = old'[t]
    <3>1. reverse[j] \in Name /\ names[reverse[j]] = j
        BY <2>1, <2>2 DEF Sound
    <3>2. CASE reverse[j] # n
        BY <2>1, <3>1, <3>2
    <3>3. CASE reverse[j] = n
      <4>1. names[n] = j /\ j # None
        BY <3>1, <3>3, NamesAssumption
      <4> QED
        BY <1>1, <4>1 DEF Register, Upsert
    <3> QED
        BY <3>2, <3>3
  <2> QED
    BY <2>1, <2>2
<1>2. ASSUME NEW n \in Name, UpdateHeartbeat(t, n), pc[t] = "idle" PROVE SoundAt(t)' /\ SavedSound'
    BY <1>2 DEF UpdateHeartbeat
<1>3. ASSUME UpdateReverse(t) PROVE SoundAt(t)' /\ SavedSound'
  <2>1. req[t].name \in Name /\ req[t].id \in Id
    BY <1>3 DEF UpdateReverse, CallsUnderWay, Request
  <2>2. Sound(names', reverse')
    BY <1>3, <2>1 DEF UpdateReverse, Sound
  <2> QED
    BY <1>3, <2>2 DEF UpdateReverse
<1>4. ASSUME MarkDirty(t) PROVE SoundAt(t)' /\ SavedSound'
    BY <1>4 DEF MarkDirty
<1>5. ASSUME SaveIfDirty(t) PROVE SoundAt(t)' /\ SavedSound'
    BY <1>5 DEF SaveIfDirty, Return
<1>6. ASSUME TakeSnapshot(t) PROVE SoundAt(t)' /\ SavedSound'
    BY <1>6, FileSound DEF TakeSnapshot
<1>7. ASSUME CreateFile(t) PROVE SoundAt(t)' /\ SavedSound'
    BY <1>7, FileSound DEF CreateFile
<1>8. ASSUME WriteFile(t) PROVE SoundAt(t)' /\ SavedSound'
  <2>1. disk' \in {snap[t], TornFile}
    BY <1>8 DEF WriteFile
  <2> QED
    BY <1>8, <2>1, FileSound DEF WriteFile
<1>9. ASSUME SaveFails(t) PROVE SoundAt(t)' /\ SavedSound'
    BY <1>9, FileSound DEF SaveFails, Return
<1>10. ASSUME ClearDirty(t) PROVE SoundAt(t)' /\ SavedSound'
    BY <1>10, FileSound DEF ClearDirty, Return
<1> QED
    BY <1>1, <1>2, <1>3, <1>4, <1>5, <1>6, <1>7, <1>8, <1>9, <1>10 DEF Works, Call

\* So the tables are sound whenever no call is between its locks.
LEMMA SequentialInvStep == SequentialInv /\ [Next]_vars => SequentialInv'
<1> SUFFICES ASSUME SequentialInv, [Next]_vars, ~raced'
             PROVE  SavedSound' /\ \A v \in Thread : Alone(v)' => SoundAt(v)'
    BY AloneInvStep DEF SequentialInv
<1>0. AloneInv /\ TypeInv /\ ~raced
    BY PastKept DEF SequentialInv, AloneInv
<1>1. ASSUME NEW t \in Thread, Call(t) \/ Works(t)
      PROVE  SavedSound' /\ \A v \in Thread : Alone(v)' => SoundAt(v)'
  <2>1. Alone(t) /\ Alone(t)'
    BY <1>0, <1>1, AloneActs
  <2>2. SoundAt(t)' /\ SavedSound'
    BY <1>0, <1>1, <2>1, SoundAtStep DEF SequentialInv
  <2>3. ASSUME NEW v \in Thread, v # t, Alone(v)' PROVE SoundAt(v)'
    <3>1. pc'[v] = "idle" /\ pc'[t] = "idle"
        BY <2>1, <2>3 DEF Alone
    <3> QED
        BY <2>2, <3>1 DEF SoundAt
  <2> QED
    BY <2>2, <2>3
<1>2. CASE Crash
    BY <1>0, <1>2, FileSound DEF Crash, SequentialInv, SavedSound, SoundAt
<1>3. CASE Restart
  <2>1. \A t \in Thread : pc'[t] = "idle"
    BY <1>0, <1>3 DEF Restart, TypeInv, IdleWhenDown
  <2> QED
    BY <1>0, <1>3, <2>1 DEF Restart, SequentialInv, SavedSound, SoundAt
<1>4. CASE UNCHANGED vars
    BY <1>0, <1>4 DEF vars, tables, SequentialInv, SavedSound, SoundAt, Alone
<1> QED
    BY <1>1, <1>2, <1>3, <1>4 DEF Next

\* The name reverse_lookup returns for a NodeID is registered for this NodeID,
\* as long as nobody calls upsert, whatever threads register at the same time,
\* or no two calls overlap, and wherever the process crashes.
THEOREM ReverseTableSound ==
    ASSUME Thread # {}
    PROVE  Spec => []ReverseSound
<1> DEFINE Inv == TypeInv /\ (~upserted => SoundInv) /\ SequentialInv
<1>1. Init => Inv
  <2> SUFFICES ASSUME Init PROVE Inv
      OBVIOUS
  <2>1. TypeInv
      BY TypeInvInit
  <2>2. SoundInv
      BY <2>1, FileSound DEF Init, SoundInv, Inserted
  <2>3. SequentialInv
      BY <2>1, FileSound DEF Init, SequentialInv, AloneInv, Alone, SavedSound, SoundAt
  <2> QED
      BY <2>1, <2>2, <2>3
<1>2. Inv /\ [Next]_vars => Inv'
    BY SoundInvStep, SequentialInvStep, TypeInvStep, PastKept
<1>3. Inv => ReverseSound
  <2> SUFFICES ASSUME Inv, TablesSettled, ~upserted \/ ~raced PROVE Sound(names, reverse)
      BY DEF ReverseSound, Sound
  <2>1. CASE ~upserted
      BY <2>1 DEF SoundInv
  <2>2. CASE ~raced
    <3>1. PICK t \in Thread : Alone(t)
        BY <2>2 DEF SequentialInv, AloneInv, Alone
    <3> QED
        BY <2>2, <3>1 DEF SequentialInv, SoundAt, TablesSettled
  <2> QED
      BY <2>1, <2>2
<1> QED
    BY <1>1, <1>2, <1>3, PTL DEF Spec

----------------------------------------------------------------------------
(* Until the first upsert or crash, Ok means the name is yours.            *)

\* Past its first lock, a register call finds its own entry in the table.
Owned ==
    \A t \in Thread : pc[t] # "idle" /\ req[t].op # "heartbeat" => names[req[t].name] = req[t].id

Kept == \A a \in acked : names[a[1]] = a[2]

OwnerInv == TypeInv /\ up /\ crashes = 0 /\ ~upserted /\ Owned /\ Kept

\* Register only fills free names, so no entry a caller relies on changes.
LEMMA OwnerInvStep ==
    OwnerInv /\ [Next]_vars /\ crashes' = 0 /\ ~upserted' => OwnerInv'
<1> SUFFICES ASSUME OwnerInv, [Next]_vars, crashes' = 0, ~upserted' PROVE OwnerInv'
    OBVIOUS
<1>0. TypeInv'
    BY TypeInvStep DEF OwnerInv
<1> USE DEF OwnerInv, Owned, Kept, Goto, tables
<1>1. ASSUME NEW t \in Thread, NEW n \in Name, NEW i \in Id, up, Register(t, n, i),
             req' = [req EXCEPT ![t] = [op |-> "register", name |-> n, id |-> i]]
      PROVE  OwnerInv'
  <2> USE DEF TypeInv, TypeOK
  <2>1. Kept'
    <3> SUFFICES ASSUME NEW a \in acked PROVE names'[a[1]] = a[2]
        BY <1>1 DEF Register
    <3>1. a[1] \in Name /\ a[2] \in Id /\ names[a[1]] = a[2]
        OBVIOUS
    <3> QED
        BY <1>1, <3>1, NamesAssumption DEF Register
  <2>2. Owned'
    <3> SUFFICES ASSUME NEW u \in Thread, pc'[u] # "idle", req'[u].op # "heartbeat"
                 PROVE  names'[req'[u].name] = req'[u].id
        OBVIOUS
    <3>1. CASE u = t
        BY <1>1, <3>1 DEF Register
    <3>2. CASE u # t
      <4>1. req'[u] = req[u] /\ pc[u] # "idle" /\ req[u] \in Request
        BY <1>1, <3>2 DEF Register, CallsUnderWay
      <4>2. names[req[u].name] = req[u].id /\ req[u].id # None
        BY <4>1, NamesAssumption DEF Request
      <4> QED
        BY <1>1, <4>1, <4>2 DEF Register, Request
    <3> QED
        BY <3>1, <3>2
  <2> QED
    BY <1>0, <1>1, <2>1, <2>2 DEF Register
<1>2. ASSUME NEW t \in Thread, NEW n \in Name, NEW i \in Id, up, UpdateHeartbeat(t, n),
             req' = [req EXCEPT ![t] = [op |-> "heartbeat", name |-> n, id |-> i]]
      PROVE  OwnerInv'
    BY <1>0, <1>2 DEF UpdateHeartbeat, TypeInv, TypeOK
<1>3. ASSUME NEW t \in Thread, pc[t] # "idle", Return(t), UNCHANGED <<names, up>>
      PROVE  Owned' /\ Kept'
  <2>1. Owned'
    BY <1>3 DEF Return, TypeInv, TypeOK
  <2>2. \A a \in acked' : names[a[1]] = a[2]
    <3>1. CASE req[t].op = "heartbeat"
        BY <1>3, <3>1 DEF Return
    <3>2. CASE req[t].op # "heartbeat"
      <4>1. names[req[t].name] = req[t].id
        BY <1>3, <3>2
      <4>2. acked' = acked \cup {<<req[t].name, req[t].id>>}
        BY <1>3, <3>2 DEF Return
      <4> QED
        BY <4>1, <4>2
    <3> QED
        BY <3>1, <3>2
  <2> QED
    BY <1>3, <2>1, <2>2
<1>4. ASSUME NEW t \in Thread, UpdateReverse(t) PROVE OwnerInv'
    BY <1>0, <1>4 DEF UpdateReverse, TypeInv, TypeOK
<1>5. ASSUME NEW t \in Thread, MarkDirty(t) PROVE OwnerInv'
    BY <1>0, <1>5 DEF MarkDirty, TypeInv, TypeOK
<1>6. ASSUME NEW t \in Thread, SaveIfDirty(t) PROVE OwnerInv'
  <2>1. CASE dirty
    BY <1>0, <1>6, <2>1 DEF SaveIfDirty, TypeInv, TypeOK
  <2>2. CASE ~dirty
    BY <1>0, <1>3, <1>6, <2>2 DEF SaveIfDirty
  <2> QED
    BY <2>1, <2>2
<1>7. ASSUME NEW t \in Thread, TakeSnapshot(t) PROVE OwnerInv'
    BY <1>0, <1>7 DEF TakeSnapshot, TypeInv, TypeOK
<1>8. ASSUME NEW t \in Thread, CreateFile(t) PROVE OwnerInv'
    BY <1>0, <1>8 DEF CreateFile, TypeInv, TypeOK
<1>9. ASSUME NEW t \in Thread, WriteFile(t) PROVE OwnerInv'
    BY <1>0, <1>9 DEF WriteFile, TypeInv, TypeOK
<1>10. ASSUME NEW t \in Thread, SaveFails(t) PROVE OwnerInv'
    BY <1>0, <1>3, <1>10 DEF SaveFails
<1>11. ASSUME NEW t \in Thread, ClearDirty(t) PROVE OwnerInv'
    BY <1>0, <1>3, <1>11 DEF ClearDirty
<1>12. ~Crash /\ ~Restart
    BY DEF Crash, Restart, TypeInv, TypeOK
<1>13. CASE UNCHANGED vars
    BY <1>0, <1>13 DEF vars
<1> QED
    BY <1>1, <1>2, <1>4, <1>5, <1>6, <1>7, <1>8, <1>9, <1>10, <1>11, <1>12, <1>13
       DEF Next, Works, Call

\* Crashes and upserts are never forgotten.
LEMMA PastCounted ==
    ASSUME TypeInv, [Next]_vars
    PROVE  crashes' = 0 /\ ~upserted' => crashes = 0 /\ ~upserted
<1>1. crashes' = 0 => crashes = 0
    BY DEF TypeInv, TypeOK, Next, Works, Call, Register, Upsert, UpdateHeartbeat, UpdateReverse,
           MarkDirty, SaveIfDirty, TakeSnapshot, CreateFile, WriteFile, SaveFails, ClearDirty,
           Crash, Restart, vars
<1>2. ~upserted' => ~upserted
    BY PastKept
<1> QED
    BY <1>1, <1>2

\* However many threads register concurrently, a name is granted to one NodeID
\* only, and until the process dies or upsert is called whoever was told Ok is
\* the one lookup returns.
THEOREM RegisterExclusive == Spec => []ExclusiveOwner
<1> DEFINE Inv == TypeInv /\ (crashes = 0 /\ ~upserted => OwnerInv)
<1>1. Init => Inv
    BY TypeInvInit DEF Init, OwnerInv, Owned, Kept
<1>2. Inv /\ [Next]_vars => Inv'
    BY OwnerInvStep, TypeInvStep, PastCounted
<1>3. Inv => ExclusiveOwner
    BY DEF OwnerInv, Kept, ExclusiveOwner
<1> QED
    BY <1>1, <1>2, <1>3, PTL DEF Spec

----------------------------------------------------------------------------
(* Under the same conditions no registered NodeID misses its reverse entry. *)

\* A NodeID that has a name has its reverse entry, or the register that gave it
\* the name is between its two locks.
Answered(i) == reverse[i] # None \/ \E t \in Thread : pc[t] = "reverse" /\ req[t].id = i

CompleteInv ==
    /\ OwnerInv
    /\ \A t \in Thread : old[t] = None
    /\ \A n \in Name : names[n] # None => Answered(names[n])

\* Only register adds names, and it goes on to add their reverse entries.
LEMMA CompleteInvStep ==
    CompleteInv /\ [Next]_vars /\ crashes' = 0 /\ ~upserted' => CompleteInv'
<1> SUFFICES ASSUME CompleteInv, [Next]_vars, crashes' = 0, ~upserted' PROVE CompleteInv'
    OBVIOUS
<1>0. OwnerInv'
    BY OwnerInvStep DEF CompleteInv
<1> USE DEF CompleteInv, Answered, Goto, tables, OwnerInv, TypeInv, TypeOK
<1>1. ASSUME NEW t \in Thread, NEW n \in Name, NEW i \in Id, pc[t] = "idle", Register(t, n, i),
             req' = [req EXCEPT ![t] = [op |-> "register", name |-> n, id |-> i]]
      PROVE  CompleteInv'
  <2>1. \A j \in Id : Answered(j) => Answered(j)'
    BY <1>1 DEF Register
  <2>2. Answered(i)'
    BY <1>1 DEF Register
  <2>3. \A m \in Name : names'[m] = IF m = n THEN i ELSE names[m]
    BY <1>1 DEF Register
  <2> QED
    BY <1>0, <1>1, <2>1, <2>2, <2>3 DEF Register
<1>2. ASSUME NEW t \in Thread, NEW n \in Name, NEW i \in Id, pc[t] = "idle", UpdateHeartbeat(t, n),
             req' = [req EXCEPT ![t] = [op |-> "heartbeat", name |-> n, id |-> i]]
      PROVE  CompleteInv'
    BY <1>0, <1>2 DEF UpdateHeartbeat
<1>3. ASSUME NEW t \in Thread, UpdateReverse(t) PROVE CompleteInv'
  <2>1. req[t].name \in Name /\ old[t] = None
    BY <1>3 DEF UpdateReverse, CallsUnderWay, Request
  <2>2. \A j \in Id : Answered(j) => Answered(j)'
    BY <1>3, <2>1, NamesAssumption DEF UpdateReverse
  <2> QED
    BY <1>0, <1>3, <2>2 DEF UpdateReverse
<1>4. ASSUME NEW t \in Thread, pc[t] # "reverse", UNCHANGED <<tables, old>>,
             \/ UNCHANGED req /\ \E s \in Step \ {"reverse"} : pc' = [pc EXCEPT ![t] = s]
             \/ Return(t)
      PROVE  CompleteInv'
    BY <1>0, <1>4 DEF Return, Step
<1>5. ASSUME NEW t \in Thread, MarkDirty(t) \/ SaveIfDirty(t) \/ TakeSnapshot(t) \/ CreateFile(t)
                               \/ WriteFile(t) \/ SaveFails(t) \/ ClearDirty(t)
      PROVE  CompleteInv'
    BY <1>4, <1>5 DEF MarkDirty, SaveIfDirty, TakeSnapshot, CreateFile, WriteFile, SaveFails, ClearDirty, Step
<1>6. ~Crash /\ ~Restart
    BY DEF Crash, Restart
<1>7. CASE UNCHANGED vars
    BY <1>0, <1>7 DEF vars
<1>8. ASSUME NEW t \in Thread, Call(t) PROVE CompleteInv'
  <2>1. PICK o \in Ops, n \in Name, i \in Id :
           /\ req' = [req EXCEPT ![t] = [op |-> o, name |-> n, id |-> i]]
           /\ upserted' = (upserted \/ o = "upsert")
           /\ \/ o = "register" /\ Register(t, n, i)
              \/ o = "upsert" /\ Upsert(t, n, i)
              \/ o = "heartbeat" /\ UpdateHeartbeat(t, n)
    BY <1>8 DEF Call
  <2>2. o # "upsert" /\ pc[t] = "idle"
    BY <1>8, <2>1 DEF Call
  <2> QED
    BY <1>1, <1>2, <2>1, <2>2
<1> QED
    BY <1>3, <1>5, <1>6, <1>7, <1>8 DEF Next, Works

\* However many threads register concurrently, every NodeID that has a name can
\* be looked up in reverse once they are past their second lock, until the
\* process dies or upsert is called.
THEOREM RegisterReverseComplete == Spec => []ReverseComplete
<1> DEFINE Inv == TypeInv /\ (crashes = 0 /\ ~upserted => CompleteInv)
<1>1. Init => Inv
    BY TypeInvInit DEF Init, OwnerInv, Owned, Kept, CompleteInv, NoNames
<1>2. Inv /\ [Next]_vars => Inv'
    BY CompleteInvStep, TypeInvStep, PastCounted
<1>3. Inv => ReverseComplete
    BY DEF CompleteInv, Answered, ReverseComplete, TablesSettled
<1> QED
    BY <1>1, <1>2, <1>3, PTL DEF Spec

----------------------------------------------------------------------------
(* As long as calls do not overlap the dirty flag tells the truth.          *)

\* What the file is worth at each step of a call.
SavedAt(t) ==
    /\ pc[t] = "idle" /\ up /\ ~dirty => disk.names = names /\ disk.reverse = reverse
    /\ pc[t] \in {"check", "snapshot", "create", "write", "clear"} => dirty
    /\ pc[t] \in {"create", "write", "clear"} => snap[t] = File("data", names, reverse)
    /\ pc[t] = "write" => disk = EmptyFile
    /\ pc[t] = "clear" => disk = snap[t]

SavedInv == AloneInv /\ (~raced => \A t \in Thread : Alone(t) => SavedAt(t))

\* A thread alone in the server saves the table it copied, which nobody else has
\* changed since.
LEMMA SavedAtStep ==
    ASSUME NEW t \in Thread, TypeInv, SavedAt(t), Call(t) \/ Works(t)
    PROVE  SavedAt(t)'
<1> USE DEF SavedAt, Goto, tables, TypeInv, TypeOK
<1>1. ASSUME NEW n \in Name, NEW i \in Id,
             Register(t, n, i) \/ Upsert(t, n, i) \/ UpdateHeartbeat(t, n)
      PROVE  SavedAt(t)'
    BY <1>1 DEF Register, Upsert, UpdateHeartbeat
<1>2. ASSUME UpdateReverse(t) PROVE SavedAt(t)'
    BY <1>2 DEF UpdateReverse
<1>3. ASSUME MarkDirty(t) PROVE SavedAt(t)'
    BY <1>3 DEF MarkDirty
<1>4. ASSUME SaveIfDirty(t) PROVE SavedAt(t)'
    BY <1>4 DEF SaveIfDirty
<1>5. ASSUME TakeSnapshot(t) PROVE SavedAt(t)'
    BY <1>5 DEF TakeSnapshot
<1>6. ASSUME CreateFile(t) PROVE SavedAt(t)'
    BY <1>6 DEF CreateFile
<1>7. ASSUME WriteFile(t) PROVE SavedAt(t)'
  <2>1. Covers(t)
    BY <1>7 DEF WriteFile, Covers, EmptyFile, File
  <2> QED
    BY <1>7, <2>1 DEF WriteFile
<1>8. ASSUME SaveFails(t) PROVE SavedAt(t)'
    BY <1>8 DEF SaveFails, Return
<1>9. ASSUME ClearDirty(t) PROVE SavedAt(t)'
    BY <1>9 DEF ClearDirty, Return, File
<1> QED
    BY <1>1, <1>2, <1>3, <1>4, <1>5, <1>6, <1>7, <1>8, <1>9 DEF Works, Call

\* The invariant is inductive: a call that begins alone stays alone unless raced
\* says otherwise.
LEMMA SavedInvStep == SavedInv /\ [Next]_vars => SavedInv'
<1> SUFFICES ASSUME SavedInv, [Next]_vars, ~raced', NEW v \in Thread, Alone(v)'
             PROVE  SavedAt(v)'
    BY AloneInvStep DEF SavedInv
<1>0. AloneInv /\ TypeInv /\ ~raced
    BY PastKept DEF SavedInv, AloneInv
<1>1. ASSUME NEW t \in Thread, Call(t) \/ Works(t) PROVE SavedAt(v)'
  <2>1. Alone(t) /\ Alone(t)'
    BY <1>0, <1>1, AloneActs
  <2>2. SavedAt(t)'
    BY <1>0, <1>1, <2>1, SavedAtStep DEF SavedInv
  <2>3. v # t => pc'[v] = "idle" /\ pc'[t] = "idle"
    BY <2>1 DEF Alone
  <2> QED
    BY <2>2, <2>3 DEF SavedAt
<1>2. CASE Crash
    BY <1>2 DEF Crash, SavedAt
<1>3. CASE Restart
  <2>1. \A t \in Thread : pc'[t] = "idle"
    BY <1>0, <1>3 DEF Restart, TypeInv, IdleWhenDown
  <2> QED
    BY <1>3, <2>1 DEF Restart, SavedAt
<1>4. CASE UNCHANGED vars
    BY <1>0, <1>4 DEF vars, tables, SavedInv, Alone, SavedAt
<1> QED
    BY <1>1, <1>2, <1>3, <1>4 DEF Next

\* As long as no two calls overlap, the server keeps the promise of its dirty
\* flag: when it is down between two calls the file holds the table, although
\* saves may fail and the process may crash at any step.
THEOREM SequentialSaved ==
    ASSUME Thread # {}
    PROVE  Spec => []CleanMeansSaved
<1>1. Init => SavedInv
    BY TypeInvInit DEF Init, SavedInv, AloneInv, SavedAt, Alone, NoFile, File
<1>2. SavedInv /\ [Next]_vars => SavedInv'
    BY SavedInvStep
<1>3. SavedInv => CleanMeansSaved
    BY DEF SavedInv, SavedAt, Alone, CleanMeansSaved, Quiescent
<1> QED
    BY <1>1, <1>2, <1>3, PTL DEF Spec

\* Both at once: reverse_lookup undoes lookup and leaves no id out.
THEOREM ReverseTableExact ==
    ASSUME Thread # {}
    PROVE  Spec => []ReverseExact
<1>1. ReverseSound /\ ReverseComplete => ReverseExact
    BY DEF ReverseExact
<1> QED
    BY <1>1, ReverseTableSound, RegisterReverseComplete, PTL

----------------------------------------------------------------------------
(* The server implements a table of names.  A register or upsert takes      *)
(* effect at its first lock; every later step is one of the saves, of the   *)
(* answer, of both, or none.                                                *)

\* The abstract table's calls and copies.
Calls == [t \in Thread |-> Updating(t)]
Copies == [t \in Thread |-> Saving(t)]

\* The definitions that NameTable's actions are instantiated to, by one name each.
LEMMA TableActions ==
    /\ Table!Nothing = NoNames /\ Table!NoCaller = [t \in Thread |-> {}]
    /\ \A t \in Thread : Table!Copy(t) \/ Table!Proceed(t) => Table!Next
    /\ \A t \in Thread, o \in {"register", "upsert"}, n \in Name, i \in Id : Table!Update(t, o, n, i) => Table!Next
    /\ Table!Crash \/ Table!Restart => Table!Next
BY DEF Table!Nothing, NoNames, Table!NoCaller, Table!Next

\* A step of the abstract table that leaves its names alone.
LEMMA ProceedIs ==
    ASSUME NEW t \in Thread, up, UNCHANGED <<names, up>>,
           Table!Store(t) \/ UNCHANGED <<Copies, disk.names>>, Table!Answer(t) \/ UNCHANGED <<Calls, acked>>
    PROVE  Table!Next
<1>1. Table!Proceed(t)
    BY DEF Table!Proceed, Calls, Copies
<1> QED
    BY <1>1, TableActions

\* Returning answers the update, if the call made one.
LEMMA ReturnAnswers ==
    ASSUME TypeInv, NEW t \in Thread, pc[t] # "idle", Return(t)
    PROVE  /\ Table!Answer(t)
           /\ \A u \in Thread : u # t => Updating(u)' = Updating(u) /\ pc'[u] = pc[u]
<1>0. pc \in [Thread -> Step] /\ req \in [Thread -> Request \cup {None}] /\ req[t] \in Request
    BY DEF TypeInv, TypeOK, CallsUnderWay
<1>1. /\ pc' = [pc EXCEPT ![t] = "idle"] /\ req' = [req EXCEPT ![t] = None]
      /\ acked' = IF req[t].op = "heartbeat" THEN acked ELSE acked \cup {<<req[t].name, req[t].id>>}
    BY DEF Return, Goto
<1>2. \A u \in Thread : u # t => pc'[u] = pc[u] /\ req'[u] = req[u]
    BY <1>0, <1>1
<1>3. pc'[t] = "idle"
    BY <1>0, <1>1
<1>4. Updating(t)' = {} /\ \A u \in Thread : u # t => Updating(u)' = Updating(u)
    BY <1>2, <1>3 DEF Updating
<1>5. Calls' = [Calls EXCEPT ![t] = {}]
    BY <1>4 DEF Calls
<1>6. Calls[t] = IF req[t].op = "heartbeat" THEN {} ELSE {req[t]}
    BY DEF Calls, Updating
<1>7. acked' = acked \cup {<<r.name, r.id>> : r \in Calls[t]}
    BY <1>1, <1>6
<1>8. Table!Answer(t)
    BY <1>5, <1>7 DEF Table!Answer, Calls
<1> QED
    BY <1>2, <1>4, <1>8

\* The steps of a call after its first one.
LEMMA WorksIs ==
    ASSUME TypeInv, NEW t \in Thread, Works(t)
    PROVE  Table!Next \/ UNCHANGED <<names, Calls, acked, Copies, disk.names, up>>
<1>0. /\ pc \in [Thread -> Step] /\ req \in [Thread -> Request \cup {None}]
      /\ snap \in [Thread -> Files] /\ disk \in Files
    BY DEF TypeInv, TypeOK
<1>1. pc[t] # "idle" /\ up
  <2>1. pc[t] # "idle"
    BY DEF Works, UpdateReverse, MarkDirty, SaveIfDirty, TakeSnapshot, CreateFile, WriteFile, SaveFails, ClearDirty
  <2> QED
    BY <2>1 DEF TypeInv, IdleWhenDown
<1>2. ASSUME NEW s \in Step \ {"idle"}, pc' = [pc EXCEPT ![t] = s], req' = req
      PROVE  /\ UNCHANGED Calls /\ pc'[t] = s
             /\ \A u \in Thread : u # t => pc'[u] = pc[u]
  <2>1. pc'[t] = s /\ \A u \in Thread : u # t => pc'[u] = pc[u]
    BY <1>0, <1>2
  <2>2. \A u \in Thread : Updating(u)' = Updating(u)
    BY <1>1, <1>2, <2>1 DEF Updating
  <2> QED
    BY <2>1, <2>2 DEF Calls
<1>3. CASE UpdateReverse(t) \/ MarkDirty(t) \/ (SaveIfDirty(t) /\ dirty)
  <2>1. PICK s \in {"mark", "check", "snapshot"} : pc' = [pc EXCEPT ![t] = s] /\ req' = req
    BY <1>3 DEF UpdateReverse, MarkDirty, SaveIfDirty, Goto
  <2>2. pc[t] \in {"reverse", "mark", "check"} /\ UNCHANGED <<names, acked, disk, up, snap>>
    BY <1>3 DEF UpdateReverse, MarkDirty, SaveIfDirty, tables
  <2>3. UNCHANGED Calls /\ pc'[t] = s /\ \A u \in Thread : u # t => pc'[u] = pc[u]
    BY <1>2, <2>1 DEF Step
  <2>4. \A u \in Thread : Saving(u)' = Saving(u)
    BY <2>1, <2>2, <2>3 DEF Saving
  <2>5. UNCHANGED Copies
    BY <2>4 DEF Copies
  <2> QED
    BY <2>2, <2>3, <2>5
<1>4. CASE SaveIfDirty(t) /\ ~dirty
  <2>1. Return(t) /\ pc[t] = "check" /\ UNCHANGED <<names, disk, up, snap>>
    BY <1>4 DEF SaveIfDirty, tables
  <2>2. Table!Answer(t) /\ \A u \in Thread : u # t => pc'[u] = pc[u]
    BY <1>1, <2>1, ReturnAnswers
  <2>3. pc'[t] = "idle"
    BY <1>0, <2>1 DEF Return, Goto
  <2>4. \A u \in Thread : Saving(u)' = Saving(u)
    BY <2>1, <2>2, <2>3 DEF Saving
  <2>5. UNCHANGED Copies
    BY <2>4 DEF Copies
  <2> QED
    BY <1>1, <2>1, <2>2, <2>5, ProceedIs
<1>5. CASE TakeSnapshot(t)
  <2>1. /\ snap' = [snap EXCEPT ![t] = File("data", names, reverse)]
        /\ pc' = [pc EXCEPT ![t] = "create"] /\ UNCHANGED <<names, acked, disk, up, req>>
    BY <1>5 DEF TakeSnapshot, Goto, tables
  <2>2. UNCHANGED Calls /\ pc'[t] = "create" /\ \A u \in Thread : u # t => pc'[u] = pc[u]
    BY <1>2, <2>1 DEF Step
  <2>3. snap'[t].names = names /\ \A u \in Thread : u # t => snap'[u] = snap[u]
    BY <1>0, <2>1, FileSound
  <2>4. Saving(t)' = {names} /\ \A u \in Thread : u # t => Saving(u)' = Saving(u)
    BY <2>2, <2>3 DEF Saving
  <2>5. Copies' = [Copies EXCEPT ![t] = {names}]
    BY <2>4 DEF Copies
  <2>6. Table!Copy(t)
    BY <1>1, <2>1, <2>2, <2>5 DEF Table!Copy, Calls, Copies
  <2> QED
    BY <2>6, TableActions
<1>6. NoFile.names = NoNames /\ EmptyFile.names = NoNames /\ TornFile.names = NoNames
    BY DEF NoFile, EmptyFile, TornFile, File
<1>7. ASSUME NEW x, disk' = x, x.names \in {disk.names, NoNames} \cup Saving(t), pc[t] \in {"create", "write"},
             Copies' = Copies \/ Copies' = [Copies EXCEPT ![t] = {}]
      PROVE  Table!Store(t)
  <2>1. Copies[t] = Saving(t) /\ Saving(t) = {snap[t].names}
    BY <1>7 DEF Copies, Saving
  <2>2. (disk.names)' \in {disk.names, NoNames} \cup Saving(t)
    BY <1>7
  <2> QED
    BY <1>7, <2>1, <2>2, TableActions DEF Table!Store, Copies
<1>8. CASE CreateFile(t)
  <2>1. /\ disk' = EmptyFile /\ pc[t] = "create"
        /\ pc' = [pc EXCEPT ![t] = "write"] /\ UNCHANGED <<names, acked, up, req, snap>>
    BY <1>8 DEF CreateFile, Goto, tables
  <2>2. UNCHANGED Calls /\ pc'[t] = "write" /\ \A u \in Thread : u # t => pc'[u] = pc[u]
    BY <1>2, <2>1 DEF Step
  <2>3. \A u \in Thread : Saving(u)' = Saving(u)
    BY <2>1, <2>2 DEF Saving
  <2>4. Copies' = Copies
    BY <2>3 DEF Copies
  <2>5. Table!Store(t)
    BY <1>6, <1>7, <2>1, <2>4
  <2> QED
    BY <1>1, <2>1, <2>2, <2>5, ProceedIs
<1>9. CASE WriteFile(t)
  <2>1. /\ disk' \in {snap[t], TornFile} /\ pc[t] = "write"
        /\ pc' = [pc EXCEPT ![t] = "clear"] /\ UNCHANGED <<names, acked, up, req, snap>>
    BY <1>9 DEF WriteFile, Goto, tables
  <2>2. UNCHANGED Calls /\ pc'[t] = "clear" /\ \A u \in Thread : u # t => pc'[u] = pc[u]
    BY <1>2, <2>1 DEF Step
  <2>3. Saving(t)' = {} /\ \A u \in Thread : u # t => Saving(u)' = Saving(u)
    BY <2>1, <2>2 DEF Saving
  <2>4. Copies' = [Copies EXCEPT ![t] = {}]
    BY <2>3 DEF Copies
  <2>5. PICK x \in {snap[t], TornFile} : disk' = x
    BY <2>1
  <2>6. x.names \in {disk.names, NoNames} \cup Saving(t)
    BY <1>6, <2>1, <2>5 DEF Saving
  <2>7. Table!Store(t)
    BY <1>7, <2>1, <2>4, <2>5, <2>6
  <2> QED
    BY <1>1, <2>1, <2>2, <2>7, ProceedIs
<1>10. CASE SaveFails(t)
  <2>1. /\ disk' \in {disk, TornFile} /\ pc[t] \in {"create", "write"} /\ Return(t)
        /\ snap' = [snap EXCEPT ![t] = EmptyFile] /\ UNCHANGED <<names, up>>
    BY <1>10 DEF SaveFails, tables
  <2>2. Table!Answer(t) /\ \A u \in Thread : u # t => pc'[u] = pc[u]
    BY <1>1, <2>1, ReturnAnswers
  <2>3. pc'[t] = "idle" /\ \A u \in Thread : u # t => snap'[u] = snap[u]
    BY <1>0, <2>1 DEF Return, Goto
  <2>4. Saving(t)' = {} /\ \A u \in Thread : u # t => Saving(u)' = Saving(u)
    BY <2>2, <2>3 DEF Saving
  <2>5. Copies' = [Copies EXCEPT ![t] = {}]
    BY <2>4 DEF Copies
  <2>6. PICK x \in {disk, TornFile} : disk' = x
    BY <2>1
  <2>7. Table!Store(t)
    BY <1>6, <1>7, <2>1, <2>5, <2>6
  <2> QED
    BY <1>1, <2>1, <2>2, <2>7, ProceedIs
<1>11. CASE ClearDirty(t)
  <2>1. /\ pc[t] = "clear" /\ Return(t) /\ snap' = [snap EXCEPT ![t] = EmptyFile] /\ UNCHANGED <<names, disk, up>>
    BY <1>11 DEF ClearDirty, tables
  <2>2. Table!Answer(t) /\ \A u \in Thread : u # t => pc'[u] = pc[u]
    BY <1>1, <2>1, ReturnAnswers
  <2>3. pc'[t] = "idle" /\ \A u \in Thread : u # t => snap'[u] = snap[u]
    BY <1>0, <2>1 DEF Return, Goto
  <2>4. \A u \in Thread : Saving(u)' = Saving(u)
    BY <2>1, <2>2, <2>3 DEF Saving
  <2>5. UNCHANGED Copies
    BY <2>4 DEF Copies
  <2> QED
    BY <1>1, <2>1, <2>2, <2>5, ProceedIs
<1> QED
    BY <1>3, <1>4, <1>5, <1>8, <1>9, <1>10, <1>11 DEF Works

\* The first step of a call: an update of the table, or nothing to it.
LEMMA CallIs ==
    ASSUME TypeInv, NEW t \in Thread, Call(t)
    PROVE  Table!Next \/ UNCHANGED <<names, Calls, acked, Copies, disk.names, up>>
<1>0. pc \in [Thread -> Step] /\ req \in [Thread -> Request \cup {None}] /\ up /\ pc[t] = "idle"
    BY DEF TypeInv, TypeOK, Call
<1>1. PICK o \in Ops, n \in Name, i \in Id :
           /\ req' = [req EXCEPT ![t] = [op |-> o, name |-> n, id |-> i]]
           /\ \/ o = "register" /\ Register(t, n, i)
              \/ o = "upsert" /\ Upsert(t, n, i)
              \/ o = "heartbeat" /\ UpdateHeartbeat(t, n)
    BY DEF Call
<1>2. PICK r : r = [op |-> o, name |-> n, id |-> i]
    OBVIOUS
<1>3. PICK s \in {"reverse", "mark"} : pc' = [pc EXCEPT ![t] = s]
    BY <1>1 DEF Register, Upsert, UpdateHeartbeat, Goto
<1>4. UNCHANGED <<acked, disk, up, snap>>
    BY <1>1 DEF Register, Upsert, UpdateHeartbeat, tables
<1>5. /\ pc'[t] = s /\ req'[t] = r /\ r.op = o
      /\ \A u \in Thread : u # t => pc'[u] = pc[u] /\ req'[u] = req[u]
    BY <1>0, <1>1, <1>2, <1>3
<1>6. /\ Updating(t) = {} /\ Updating(t)' = (IF o = "heartbeat" THEN {} ELSE {r})
      /\ \A u \in Thread : u # t => Updating(u)' = Updating(u)
    BY <1>0, <1>5 DEF Updating
<1>7. \A u \in Thread : Saving(u)' = Saving(u)
    BY <1>0, <1>4, <1>5 DEF Saving
<1>8. Copies' = Copies
    BY <1>7 DEF Copies
<1>9. CASE o = "heartbeat"
  <2>1. Calls' = Calls
    BY <1>6, <1>9 DEF Calls
  <2>2. names' = names
    BY <1>1, <1>9 DEF UpdateHeartbeat, tables
  <2> QED
    BY <1>4, <1>8, <2>1, <2>2
<1>10. CASE o # "heartbeat"
  <2>1. o \in {"register", "upsert"} /\ names' = [names EXCEPT ![n] = i] /\ (o = "register" => names[n] = None)
    BY <1>1, <1>10 DEF Register, Upsert
  <2>2. Calls[t] = {} /\ Calls' = [Calls EXCEPT ![t] = {[op |-> o, name |-> n, id |-> i]}]
    BY <1>2, <1>6, <1>10 DEF Calls
  <2>3. Table!Update(t, o, n, i)
    BY <1>0, <1>4, <1>8, <2>1, <2>2 DEF Table!Update, Calls, Copies
  <2> QED
    BY <2>1, <2>3, TableActions
<1> QED
    BY <1>9, <1>10

\* Crashes and restarts.
LEMMA CrashIs ==
    ASSUME TypeInv, Crash \/ Restart
    PROVE  Table!Next
<1>1. CASE Crash
  <2>1. /\ up /\ up' = FALSE /\ names' = NoNames /\ acked' = acked
        /\ pc' = [t \in Thread |-> "idle"]
        /\ \/ disk' = disk
           \/ \E t \in Thread : pc[t] = "write" /\ disk' = TornFile
    BY <1>1 DEF Crash
  <2>2. \A t \in Thread : Updating(t)' = {} /\ Saving(t)' = {}
    BY <2>1 DEF Updating, Saving
  <2>3. Calls' = [t \in Thread |-> {}] /\ Copies' = [t \in Thread |-> {}]
    BY <2>2 DEF Calls, Copies
  <2>4. ASSUME NEW t \in Thread, pc[t] = "write", disk' = TornFile
        PROVE  (disk.names)' = NoNames /\ Copies # [u \in Thread |-> {}]
    <3>1. Copies[t] # {}
      BY <2>4 DEF Copies, Saving
    <3> QED
      BY <2>4, <3>1 DEF TornFile, File
  <2>5. (disk.names)' = disk.names \/ ((disk.names)' = NoNames /\ Copies # [u \in Thread |-> {}])
    BY <2>1, <2>4
  <2>6. Table!Crash
    BY <2>1, <2>3, <2>5, TableActions DEF Table!Crash, Calls, Copies
  <2> QED
    BY <2>6, TableActions
<1>2. CASE Restart
  <2>1. ~up /\ up' = TRUE /\ names' = disk.names /\ UNCHANGED <<disk, pc, req, snap, acked>>
    BY <1>2 DEF Restart
  <2>2. Calls' = Calls /\ Copies' = Copies
    BY <2>1 DEF Calls, Copies, Updating, Saving
  <2>3. Table!Restart
    BY <2>1, <2>2 DEF Table!Restart, Calls, Copies
  <2> QED
    BY <2>3, TableActions
<1> QED
    BY <1>1, <1>2

\* For any number of threads, names and NodeIDs, and wherever the process crashes:
\* a register or upsert takes effect at once, between its call and its answer,
\* register only on a free name; Ok is for an update that took effect; and what a
\* restart loads is a table that was copied as a whole, or an empty one.
THEOREM StoreIsNameTable == Spec => IsNameTable
<1>1. Init => Table!Init
  <2> SUFFICES ASSUME Init PROVE Table!Init
    OBVIOUS
  <2>1. \A t \in Thread : Updating(t) = {} /\ Saving(t) = {}
    BY DEF Init, Updating, Saving
  <2>2. disk.names = NoNames
    BY DEF Init, NoFile, File
  <2> QED
    BY <2>1, <2>2, TableActions DEF Init, Table!Init
<1>2. TypeInv /\ [Next]_vars => [Table!Next]_<<names, Calls, acked, Copies, disk.names, up>>
  <2> SUFFICES ASSUME TypeInv, [Next]_vars
               PROVE  Table!Next \/ UNCHANGED <<names, Calls, acked, Copies, disk.names, up>>
    OBVIOUS
  <2>1. CASE UNCHANGED vars
    BY <2>1 DEF vars, tables, Calls, Copies, Updating, Saving
  <2> QED
    BY <2>1, CallIs, WorksIs, CrashIs DEF Next
<1>3. TypeInv /\ [Next]_vars => [Table!Next]_<<names, [t \in Thread |-> Updating(t)], acked, [t \in Thread |-> Saving(t)], disk.names, up>>
    BY <1>2 DEF Calls, Copies
<1> QED
    BY <1>1, <1>3, TypeInvariance, PTL DEF Spec, IsNameTable, Table!Spec
=============================================================================
