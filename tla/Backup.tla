------------------------------- MODULE Backup -------------------------------
(***************************************************************************)
(* The storage commands of `ll` (execute_backup, execute_restore,            *)
(* execute_storage_gc/prune/stats, execute_increment and execute_version in  *)
(* vpn/command.rs) with the stores they use: VersionManager                  *)
(* (storage/version.rs), GarbageCollector (storage/gc.rs) and the file of    *)
(* MetadataStore (storage/metadata.rs).  Every command is a process of its   *)
(* own; the processes of one directory share metadata_store.json and         *)
(* version_store.json.  fs::write truncates a file before it fills it, so    *)
(* others, and a process that dies, can see or leave it empty or cut off.    *)
(*                                                                         *)
(* The node that keeps the data is external: it stores each chunk and each   *)
(* manifest it is sent, and, as a request for a chunk does not say which     *)
(* one, answers it with any chunk of the file.                               *)
(***************************************************************************)
EXTENDS Chunks, FiniteSets

CONSTANTS
    Proc,           \* processes
    File,           \* file names
    BkData,         \* contents of files
    Keep,           \* versions `ll storage prune` is told to keep
    Torn,           \* a file that was cut off in the middle
    BkFaults,       \* may sends, writes and processes fail?
    MaxCommands,    \* bound on the commands run and files edited
    MaxSecs         \* bound on the clock

ASSUME BkAssumption ==
    /\ BkFaults \in BOOLEAN /\ {MaxCommands, MaxSecs, Keep} \subseteq Nat
    /\ IsFiniteSet(File)
    /\ BkData \subseteq Seq(Nat) /\ \E d \in BkData : \A e \in BkData : Len(e) <= Len(d)

VARIABLES
    disk,           \* the users' files
    metaDb,         \* metadata_store.json: the manifest registered for each file
    verDb,          \* version_store.json: the versions of each file, newest first
    kept,           \* the remote node: chunks and manifest of each file
    cmd,            \* the command each process runs
    secs,           \* now_secs
    count,          \* commands and edits so far
    sent,           \* history: contents whose manifest was sent, by file
    restored,       \* history: contents written by restores, by file
    acked,          \* history: versions that increments reported, newest first
    backups,        \* history: the files and contents whose backup was reported
    calm            \* history: no two commands overlapped, nothing failed or died

bkVars == <<disk, metaDb, verDb, kept, cmd, secs, count, sent, restored, acked, backups, calm>>
bkPast == <<sent, restored, acked, backups>>

None == <<-2>>              \* no manifest, no chunk, no file
Cipher == <<-3>>            \* what an encrypted chunk looks like without its key
NoVersions == [f \in File |-> <<>>]
NoEntries == [f \in File |-> None]
Version == [secs : 0..MaxSecs, seq : {0}, data : BkData]
BkOp == {"none", "backup", "restore", "gc", "prune", "stats", "increment", "version"}
IdleCmd == [op |-> "none", step |-> "idle", file |-> None, data |-> None, got |-> <<>>, db |-> None,
            refs |-> {}, unused |-> 0]
ChunkIndex == 0..Max({NumChunks(d) : d \in BkData}) - 1

BkInit ==
    /\ disk \in [File -> BkData]
    /\ metaDb = NoEntries /\ verDb = NoVersions
    /\ kept = [f \in File |-> [manifest |-> None, chunks |-> [i \in ChunkIndex |-> None]]]
    /\ cmd = [p \in Proc |-> IdleCmd]
    /\ secs = 0 /\ count = 0
    /\ sent = {} /\ restored = {} /\ acked = NoVersions /\ backups = <<>>
    /\ calm = TRUE

Busy(p) == cmd[p].step \notin {"idle", "hung"}

\* The first step of a command: those that store a file read it.
Start(p, op, first, f) ==
    /\ count < MaxCommands /\ count' = count + 1
    /\ cmd[p] = IdleCmd
    /\ cmd' = [cmd EXCEPT ![p] = [IdleCmd EXCEPT !.op = op, !.step = first, !.file = f,
                                    !.data = IF first = "send" THEN disk[f] ELSE None]]
    /\ calm' = (calm /\ \A q \in Proc : ~Busy(q))
    /\ UNCHANGED <<disk, metaDb, verDb, kept, secs, bkPast>>

Commands(p) ==
    \/ \E f \in File : \/ Start(p, "backup", "send", f) \/ Start(p, "increment", "send", f)
                       \/ Start(p, "restore", "meta", f)
                       \/ Start(p, "version", "load", f)
    \/ \E f \in {None} : \/ Start(p, "prune", "load", f)
                         \/ Start(p, "gc", "load", f) \/ Start(p, "stats", "load", f)

Become(p, step) == cmd' = [cmd EXCEPT ![p].step = step]
End(p) == cmd' = [cmd EXCEPT ![p] = IdleCmd]

\* A command that reports an error.
Err(p) == End(p) /\ calm' = FALSE

----------------------------------------------------------------------------
(* Sending a file: backups encrypt its chunks, increments do not. *)

SendChunk(p, chunk) ==
    LET c == cmd[p]
        i == Len(c.got)
    IN
    /\ c.step = "send" /\ i < NumChunks(c.data)
    /\ kept' = [kept EXCEPT ![c.file].chunks[i] = chunk]
    /\ cmd' = [cmd EXCEPT ![p].got = Append(@, i)]
    /\ UNCHANGED <<disk, metaDb, verDb, secs, count, bkPast, calm>>

BackupChunk(p) == cmd[p].op = "backup" /\ SendChunk(p, Cipher)
IncrementBlock(p) == cmd[p].op = "increment" /\ SendChunk(p, ChunkAt(cmd[p].data, Len(cmd[p].got)))

PutManifest(p, next, db) ==
    LET c == cmd[p] IN
    /\ c.step = "send" /\ Len(c.got) = NumChunks(c.data)
    /\ kept' = [kept EXCEPT ![c.file].manifest = c.data]
    /\ sent' = sent \cup {<<c.file, c.data>>}
    /\ cmd' = [cmd EXCEPT ![p].step = next, ![p].db = db]
    /\ UNCHANGED <<disk, metaDb, verDb, secs, count, restored, acked, backups, calm>>

\* A backup registers the file in a store of its own, which starts empty; an
\* increment loads the version store.
BackupMeta(p) ==
    cmd[p].op = "backup" /\ PutManifest(p, "truncate", [NoEntries EXCEPT ![cmd[p].file] = cmd[p].data])
IncrementManifest(p) == cmd[p].op = "increment" /\ PutManifest(p, "load", None)

SendFails(p) ==
    /\ BkFaults /\ cmd[p].step \in {"send", "meta", "chunks"} /\ Err(p)
    /\ UNCHANGED <<disk, metaDb, verDb, kept, secs, count, bkPast>>

----------------------------------------------------------------------------
(* Version store and garbage collection. *)

\* VersionManager::load_from_file; a file that cannot be parsed ends the command.
LoadVersions(p) ==
    /\ cmd[p].step = "load"
    /\ IF verDb = Torn THEN Err(p)
       ELSE cmd' = [cmd EXCEPT ![p].db = verDb, ![p].step = "loaded"] /\ UNCHANGED calm
    /\ UNCHANGED <<disk, metaDb, verDb, kept, secs, count, bkPast>>

\* `ll version` only shows what it read.
ShowVersions(p) ==
    /\ cmd[p].op = "version" /\ cmd[p].step = "loaded" /\ End(p)
    /\ UNCHANGED <<disk, metaDb, verDb, kept, secs, count, bkPast, calm>>

SnapshotSeqMutant(db, f, data) ==
    [db EXCEPT ![f] = <<[secs |-> secs, seq |-> Len(@), data |-> data]>> \o @]

\* The entry create_snapshot puts in front; the sequence number counts the
\* snapshots of the process, of which there is one.
Snapshot(db, f, data) ==
    [db EXCEPT ![f] = <<[secs |-> secs, seq |-> 0, data |-> data]>> \o @]

CreateSnapshotMutant(p) ==
    LET c == cmd[p] IN
    /\ c.op = "increment" /\ c.step = "loaded"
    /\ cmd' = [cmd EXCEPT ![p].db = Snapshot(NoVersions, c.file, c.data), ![p].step = "truncate"]
    /\ UNCHANGED <<disk, metaDb, verDb, kept, secs, count, bkPast, calm>>

\* create_snapshot saves the store, and execute_increment then saves it again.
CreateSnapshot(p) ==
    LET c == cmd[p] IN
    /\ c.op = "increment" /\ c.step = "loaded"
    /\ cmd' = [cmd EXCEPT ![p].db = Snapshot(c.db, c.file, c.data), ![p].step = "truncate"]
    /\ UNCHANGED <<disk, metaDb, verDb, kept, secs, count, bkPast, calm>>

\* FileVersions::prune, for every file in VersionStore::prune_all.
Pruned(list) == SubSeq(list, 1, Min({Len(list), Keep}))
PruneAll(db) == [f \in File |-> Pruned(db[f])]

\* prune_all_versions calls save_if_dirty with the write guard of `dirty` still
\* held: when there was something to prune, reading `dirty` there waits for ever.
\* When there was not, execute_storage_prune writes back what it loaded.
Prune(p) ==
    /\ cmd[p].op = "prune" /\ cmd[p].step = "loaded"
    /\ Become(p, IF PruneAll(cmd[p].db) # cmd[p].db THEN "hung" ELSE "truncate")
    /\ UNCHANGED <<disk, metaDb, verDb, kept, secs, count, bkPast, calm>>

Referenced(db) == UNION {UNION {ToSet(ChunkData(v.data)) : v \in ToSet(db[f])} : f \in File}
AllBlocks(db) == UNION {ToSet(ChunkData(db[f])) : f \in {g \in File : db[g] # None}}

\* collect: the blocks of registered files that no version has.
Collect(versions, db) == AllBlocks(db) \ Referenced(versions)

\* storage_stats only subtracts the numbers of blocks, and stops at zero: blocks
\* of versions whose file is not registered hide unreferenced ones.
StorageStats(versions, db) ==
    Max({0, Cardinality(AllBlocks(db)) - Cardinality(Referenced(versions))})

\* gc and stats read the versions first and the metadata then.
LoadMetadata(p) ==
    /\ cmd[p].op \in {"gc", "stats"} /\ cmd[p].step = "loaded"
    /\ IF metaDb = Torn THEN Err(p)
       ELSE LET refs == IF cmd[p].op = "gc" THEN Collect(cmd[p].db, metaDb) ELSE {} IN
            /\ cmd' = [cmd EXCEPT ![p].refs = refs, ![p].step = "report",
                          ![p].unused = IF cmd[p].op = "gc" THEN Cardinality(refs) ELSE StorageStats(cmd[p].db, metaDb)]
            /\ UNCHANGED calm
    /\ UNCHANGED <<disk, metaDb, verDb, kept, secs, count, bkPast>>

Report(p) ==
    /\ cmd[p].step = "report" /\ End(p)
    /\ UNCHANGED <<disk, metaDb, verDb, kept, secs, count, bkPast, calm>>

----------------------------------------------------------------------------
(* Saving: VersionManager::save and MetadataStore::save_to_file. *)

\* What fs::write does to the file first: empty, or filled in part.
Truncate(p) ==
    /\ cmd[p].step \in {"truncate", "again"}
    /\ IF cmd[p].op = "backup" THEN metaDb' \in {NoEntries, Torn} /\ UNCHANGED verDb
                               ELSE verDb' \in {NoVersions, Torn} /\ UNCHANGED metaDb
    /\ Become(p, IF cmd[p].step = "truncate" THEN "fill" ELSE "refill")
    /\ UNCHANGED <<disk, kept, secs, count, bkPast, calm>>

FillMetadata(p) ==
    /\ cmd[p].step = "fill" /\ cmd[p].op = "backup"
    /\ metaDb' = cmd[p].db
    /\ backups' = Append(backups, <<cmd[p].file, cmd[p].data>>)
    /\ End(p)
    /\ UNCHANGED <<disk, verDb, kept, secs, count, sent, restored, acked, calm>>

\* An increment saves twice, then reports its version.
FillVersions(p) ==
    /\ cmd[p].step \in {"fill", "refill"} /\ cmd[p].op \in {"increment", "prune"}
    /\ verDb' = cmd[p].db
    /\ IF cmd[p].op = "increment" /\ cmd[p].step = "fill"
       THEN Become(p, "again") /\ UNCHANGED acked
       ELSE /\ End(p)
            /\ acked' = IF cmd[p].op = "increment"
                        THEN [acked EXCEPT ![cmd[p].file] = <<Head(cmd[p].db[cmd[p].file])>> \o @] ELSE acked
    /\ UNCHANGED <<disk, metaDb, kept, secs, count, sent, restored, backups, calm>>

\* A write that fails is only logged by save_if_dirty: a backup reports success,
\* an increment tries again with flush, whose error it reports.
WriteFails(p) ==
    /\ BkFaults /\ cmd[p].step \in {"fill", "refill"}
    /\ IF cmd[p].op = "increment" /\ cmd[p].step = "fill" THEN Become(p, "again") ELSE End(p)
    /\ calm' = FALSE
    /\ backups' = IF cmd[p].op = "backup" THEN Append(backups, <<cmd[p].file, cmd[p].data>>) ELSE backups
    /\ UNCHANGED <<disk, metaDb, verDb, kept, secs, count, sent, restored, acked>>

----------------------------------------------------------------------------
(* execute_restore *)

RestoreMeta(p) ==
    LET c == cmd[p] IN
    /\ c.step = "meta" /\ kept[c.file].manifest # None
    /\ cmd' = [cmd EXCEPT ![p].data = kept[c.file].manifest, ![p].step = "chunks"]
    /\ UNCHANGED <<disk, metaDb, verDb, kept, secs, count, bkPast, calm>>

\* The remote node has nothing to answer with.
RestoreTimeout(p) ==
    /\ cmd[p].step = "meta" /\ kept[cmd[p].file].manifest = None
    /\ Err(p)
    /\ UNCHANGED <<disk, metaDb, verDb, kept, secs, count, bkPast>>

\* The request names the file, not the chunk; what comes is not decrypted.
RestoreChunk(p) ==
    LET c == cmd[p] IN
    /\ c.step = "chunks" /\ Len(c.got) < NumChunks(c.data)
    /\ \E i \in ChunkIndex :
          /\ kept[c.file].chunks[i] # None
          /\ cmd' = [cmd EXCEPT ![p].got = Append(@, kept[c.file].chunks[i])]
    /\ UNCHANGED <<disk, metaDb, verDb, kept, secs, count, bkPast, calm>>

RestoreWriteMutant(p) ==
    LET c == cmd[p] IN
    /\ c.step = "chunks" /\ Len(c.got) = NumChunks(c.data)
    /\ disk' = [disk EXCEPT ![c.file] = FlattenSeq(c.got)]
    /\ restored' = restored \cup {<<c.file, FlattenSeq(c.got)>>}
    /\ End(p)
    /\ UNCHANGED <<metaDb, verDb, kept, secs, count, sent, acked, backups, calm>>

\* reassemble, and the local file is written.
RestoreWrite(p) ==
    LET c == cmd[p] IN
    /\ c.step = "chunks" /\ Len(c.got) = NumChunks(c.data)
    /\ IF Reassemble(Manifest(c.data), c.got)
       THEN /\ disk' = [disk EXCEPT ![c.file] = FlattenSeq(c.got)]
            /\ restored' = restored \cup {<<c.file, FlattenSeq(c.got)>>}
            /\ End(p) /\ UNCHANGED calm
       ELSE Err(p) /\ UNCHANGED <<disk, restored>>
    /\ UNCHANGED <<metaDb, verDb, kept, secs, count, sent, acked, backups>>

----------------------------------------------------------------------------

Die(p) ==
    /\ BkFaults /\ cmd[p] # IdleCmd
    /\ End(p) /\ calm' = FALSE
    /\ UNCHANGED <<disk, metaDb, verDb, kept, secs, count, bkPast>>

EditFile(f) ==
    /\ count < MaxCommands /\ count' = count + 1
    /\ \E d \in BkData \ {disk[f]} : disk' = [disk EXCEPT ![f] = d]
    /\ UNCHANGED <<metaDb, verDb, kept, cmd, secs, bkPast, calm>>

Second ==
    /\ secs < MaxSecs /\ secs' = secs + 1
    /\ UNCHANGED <<disk, metaDb, verDb, kept, cmd, count, bkPast, calm>>

\* What the process does by itself once its command was started.
Works(p) ==
    \/ BackupChunk(p) \/ BackupMeta(p) \/ IncrementBlock(p) \/ IncrementManifest(p)
    \/ LoadVersions(p) \/ ShowVersions(p) \/ CreateSnapshot(p) \/ Prune(p) \/ LoadMetadata(p) \/ Report(p)
    \/ Truncate(p) \/ FillMetadata(p) \/ FillVersions(p)
    \/ RestoreMeta(p) \/ RestoreTimeout(p) \/ RestoreChunk(p) \/ RestoreWrite(p)

BkNext ==
    \/ \E p \in Proc : Commands(p) \/ Works(p) \/ SendFails(p) \/ WriteFails(p) \/ Die(p)
    \/ \E f \in File : EditFile(f)
    \/ Second

BkSpec == BkInit /\ [][BkNext]_bkVars

BkFairness == \A p \in Proc : WF_bkVars(Works(p))

----------------------------------------------------------------------------
(* Properties. *)

\* The variables have their types.
BkTypeOK ==
    /\ DOMAIN disk = File /\ \A p \in Proc : cmd[p].op \in BkOp
    /\ metaDb = Torn \/ metaDb \in [File -> BkData \cup {None}]
    /\ verDb = Torn \/ \A f \in File : \A k \in 1..Len(verDb[f]) : verDb[f][k] \in Version
    /\ kept \in [File -> [manifest : BkData \cup {None},
                          chunks : [ChunkIndex -> {None, Cipher} \cup {ChunkAt(d, i) : d \in BkData, i \in ChunkIndex}]]]
    /\ secs \in 0..MaxSecs /\ count \in 0..MaxCommands /\ calm \in BOOLEAN

\* A restore that reports success wrote a content of that file that some backup
\* or increment had sent as a whole: never a mixture, never an encrypted chunk,
\* although chunks are asked for without saying which.
RestoredWasSent == restored \subseteq sent

\* The history is ordered, newest first, whatever commands overlap or die.
NewestFirst ==
    verDb # Torn => \A f \in File : \A k \in 1..Len(verDb[f]) - 1 : verDb[f][k].secs >= verDb[f][k + 1].secs

\* With one command at a time, and none that fails or dies, the version store
\* holds the versions reported, and the metadata store the last backup.
HistoryKept ==
    calm /\ (\A p \in Proc : ~Busy(p)) =>
        /\ verDb = acked
        /\ backups # <<>> => metaDb[Last(backups)[1]] = Last(backups)[2]

\* Likewise, gc never reports a block that a version of a file still has, and
\* stats reports at most as many blocks as can be collected.
GcSpares ==
    \A p \in Proc : calm /\ cmd[p].step = "report" =>
        /\ cmd[p].refs \cap Referenced(verDb) = {}
        /\ cmd[p].unused <= Cardinality(AllBlocks(metaDb) \ Referenced(verDb))

\* The stores keep what commands reported: ordered, complete, and spared by gc.
StoresKept == NewestFirst /\ HistoryKept /\ GcSpares

\* Violated.  Every file whose backup was reported is in the metadata store.
BackupsKept ==
    calm /\ (\A p \in Proc : ~Busy(p)) => \A b \in ToSet(backups) : metaDb[b[1]] # None

\* Violated.  `ll storage prune` comes to an end.
PruneReturns == \A p \in Proc : (cmd[p].op = "prune") ~> (cmd[p] = IdleCmd)
=============================================================================
