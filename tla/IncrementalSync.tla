--------------------------- MODULE IncrementalSync ---------------------------
(***************************************************************************)
(* IncrementalSync (src/src/storage/incremental.rs): clients keep copies of  *)
(* one file on remote nodes by sending the blocks that changed and then the  *)
(* new manifest, and fetch it back.  Messages are sent without an answer, so *)
(* they may be lost unnoticed; sending may also fail, which ends the call.   *)
(* Requests carry a random tag, so that a late answer is never taken for the *)
(* answer of another request; not to get one in time ends the call.          *)
(*                                                                         *)
(* The remote side is a stub in main.rs.  It is modelled as what the         *)
(* messages ask for: blocks and manifest are stored as they come.            *)
(***************************************************************************)
EXTENDS Chunks, FiniteSets

CONSTANTS
    Client,         \* IncrementalSync instances
    Target,         \* remote nodes
    NoTarget, NoData,
    Data,           \* contents of the file explored
    SendFaults,     \* may messages fail or be lost?
    MaxEdits        \* bound on the edits of the local files

ASSUME SyAssumption ==
    /\ NoTarget \notin Target /\ NoData \notin Data /\ MaxEdits \in Nat /\ SendFaults \in BOOLEAN
    /\ Data \subseteq Seq(Nat) /\ \E d \in Data : \A e \in Data : Len(e) <= Len(d)

VARIABLES
    local,          \* the local file of each client
    state,          \* SyncStateStore: last_synced_hash of the file
    manifests,      \* manifest each remote node holds
    stored,         \* blocks each remote node holds
    job,            \* the call each client is in
    edits,
    authored,       \* history: contents the users gave the file
    syncedTo,       \* history: the remote the last sync of a client went to
    unsettled       \* history: a message was lost or failed, or two clients used one
                    \* remote, or one client used two

syVars == <<local, state, manifests, stored, job, edits, authored, syncedTo, unsettled>>

SyStep == {"idle", "manifest", "diff", "blocks", "done", "compare", "getBlocks"}
NoJob == [step |-> "idle", target |-> NoTarget, data |-> NoData, manifest |-> EmptyManifest,
          todo |-> {}, have |-> <<>>]
Index == 0..Max({NumChunks(d) : d \in Data}) - 1
NoBlock == <<>>     \* chunks are never empty

SyInit ==
    /\ local \in [Client -> Data]
    /\ authored = {local[c] : c \in Client}
    /\ state = [c \in Client |-> NoData]
    /\ manifests = [t \in Target |-> EmptyManifest]
    /\ stored = [t \in Target |-> [i \in Index |-> NoBlock]]
    /\ job = [c \in Client |-> NoJob]
    /\ edits = 0
    /\ syncedTo = [c \in Client |-> NoTarget]
    /\ unsettled = FALSE

Edit(c) ==
    /\ edits < MaxEdits /\ edits' = edits + 1
    /\ \E d \in Data \ {local[c]} : local' = [local EXCEPT ![c] = d] /\ authored' = authored \cup {d}
    /\ UNCHANGED <<state, manifests, stored, job, syncedTo, unsettled>>

\* SyncStateStore::upsert
Remember(c, hash) == state' = [state EXCEPT ![c] = hash]

\* Another client has used a remote or is about to, or c has used another one.
Shared(c, t) ==
    \/ \E o \in Client \ {c} : syncedTo[o] # NoTarget \/ job[o] # NoJob
    \/ syncedTo[c] \notin {t, NoTarget}

Goto(c, s) == job' = [job EXCEPT ![c].step = s]
Fail(c) == job' = [job EXCEPT ![c] = NoJob] /\ unsettled' = TRUE

\* A message that changes the remote side: it arrives, is lost, or cannot be
\* sent, which ends the call with an error.
Sends(c, arrives, next, lost) ==
    \/ arrives /\ next /\ UNCHANGED unsettled
    \/ SendFaults /\ lost /\ next /\ unsettled' = TRUE
    \/ SendFaults /\ lost /\ Fail(c)

----------------------------------------------------------------------------
(* sync_file *)

\* The file is read, and the call returns at once when its digest is the one
\* last synced under this name, to whatever node that was.
SyncFile(c, t) ==
    /\ job[c] = NoJob
    /\ unsettled' = (unsettled \/ Shared(c, t))
    /\ syncedTo' = [syncedTo EXCEPT ![c] = t]
    /\ IF state[c] = local[c]
       THEN UNCHANGED job
       ELSE job' = [job EXCEPT ![c] = [NoJob EXCEPT !.step = "manifest", !.target = t, !.data = local[c]]]
    /\ UNCHANGED <<local, state, manifests, stored, edits, authored>>

\* request_remote_manifest
RequestManifest(c) ==
    /\ job[c].step = "manifest"
    /\ \/ /\ job' = [job EXCEPT ![c].step = "diff", ![c].manifest = manifests[job[c].target]]
          /\ UNCHANGED unsettled
       \/ SendFaults /\ Fail(c)
    /\ UNCHANGED <<local, state, manifests, stored, edits, authored, syncedTo>>

Diff(c) ==
    /\ job[c].step = "diff"
    /\ job' = [job EXCEPT ![c].step = "blocks", ![c].todo = ToTransfer(job[c].manifest, job[c].data)]
    /\ UNCHANGED <<local, state, manifests, stored, edits, authored, syncedTo, unsettled>>

SendBlock(c) ==
    LET t == job[c].target
        i == Min(job[c].todo)
    IN
    /\ job[c].step = "blocks" /\ job[c].todo # {}
    /\ Sends(c, stored' = [stored EXCEPT ![t][i] = ChunkAt(job[c].data, i)],
                job' = [job EXCEPT ![c].todo = @ \ {i}], UNCHANGED stored)
    /\ UNCHANGED <<local, state, manifests, edits, authored, syncedTo>>

SendManifest(c) ==
    /\ job[c].step = "blocks" /\ job[c].todo = {}
    /\ Sends(c, manifests' = [manifests EXCEPT ![job[c].target] = Manifest(job[c].data)],
                Goto(c, "done"), UNCHANGED manifests)
    /\ UNCHANGED <<local, state, stored, edits, authored, syncedTo>>

SyncDone(c) ==
    /\ job[c].step = "done"
    /\ Remember(c, job[c].data)
    /\ job' = [job EXCEPT ![c] = NoJob]
    /\ UNCHANGED <<local, manifests, stored, edits, authored, syncedTo, unsettled>>

----------------------------------------------------------------------------
(* download_file *)

DownloadFile(c, t) ==
    /\ job[c] = NoJob
    /\ \/ /\ job' = [job EXCEPT ![c] = [NoJob EXCEPT !.step = "compare", !.target = t, !.manifest = manifests[t]]]
          /\ UNCHANGED unsettled
       \/ SendFaults /\ Fail(c)
    /\ UNCHANGED <<local, state, manifests, stored, edits, authored, syncedTo>>

\* The local blocks that have the digest of the remote block are kept.
Compare(c) ==
    LET wanted == job[c].manifest.chunks
        mine == ChunkData(local[c])
    IN
    /\ job[c].step = "compare"
    /\ job' = [job EXCEPT ![c].step = "getBlocks",
                          ![c].have = [k \in 1..Len(wanted) |->
                                         IF k <= Len(mine) /\ mine[k] = wanted[k] THEN mine[k] ELSE NoBlock],
                          ![c].todo = {k - 1 : k \in {j \in 1..Len(wanted) : ~(j <= Len(mine) /\ mine[j] = wanted[j])}}]
    /\ UNCHANGED <<local, state, manifests, stored, edits, authored, syncedTo, unsettled>>

\* request_block: the remote sends the block it holds now; it has none after a
\* message was lost, and then does not answer.
RequestBlock(c) ==
    LET i == Min(job[c].todo)
        block == stored[job[c].target][i]
    IN
    /\ job[c].step = "getBlocks" /\ job[c].todo # {}
    /\ \/ /\ block # NoBlock
          /\ job' = [job EXCEPT ![c].have[i + 1] = block, ![c].todo = @ \ {i}]
          /\ UNCHANGED unsettled
       \/ (SendFaults \/ block = NoBlock) /\ Fail(c)
    /\ UNCHANGED <<local, state, manifests, stored, edits, authored, syncedTo>>

\* The file is written and the sync state updated only when the blocks make up
\* the file of the manifest.
Assemble(c) ==
    /\ job[c].step = "getBlocks" /\ job[c].todo = {}
    /\ job' = [job EXCEPT ![c] = NoJob]
    /\ IF Reassemble(job[c].manifest, job[c].have)
       THEN /\ local' = [local EXCEPT ![c] = FlattenSeq(job[c].have)]
            /\ Remember(c, job[c].manifest.file)
            /\ syncedTo' = [syncedTo EXCEPT ![c] = job[c].target]
            /\ unsettled' = (unsettled \/ Shared(c, job[c].target))
       ELSE UNCHANGED <<local, state, syncedTo, unsettled>>
    /\ UNCHANGED <<manifests, stored, edits, authored>>

SyNext ==
    \E c \in Client :
        \/ Edit(c)
        \/ \E t \in Target : SyncFile(c, t) \/ DownloadFile(c, t)
        \/ RequestManifest(c) \/ Diff(c) \/ SendBlock(c) \/ SendManifest(c) \/ SyncDone(c)
        \/ Compare(c) \/ RequestBlock(c) \/ Assemble(c)

SySpec == SyInit /\ [][SyNext]_syVars

----------------------------------------------------------------------------
(* Properties. *)

\* The variables have their types.
SyTypeOK ==
    /\ \A c \in Client : /\ local[c] \in Seq(Int) /\ state[c] \in Seq(Int) \cup {NoData}
                         /\ job[c].step \in SyStep /\ job[c].target \in Target \cup {NoTarget}
                         /\ job[c].todo \subseteq Index
    /\ DOMAIN stored = Target /\ DOMAIN manifests = Target
    /\ edits \in 0..MaxEdits
    /\ unsettled \in BOOLEAN

\* What a remote node holds can be fetched back: the blocks of its manifest are
\* there and make up the file.
Readable(t) ==
    LET m == manifests[t] IN Reassemble(m, [k \in 1..Len(m.chunks) |-> stored[t][k - 1]])

\* No download ever leaves a file that no user wrote, however the blocks of
\* several versions and several clients are mixed up on the remote side.
NoMixture == \A c \in Client : local[c] \in authored

\* The blocks found by diff_files are enough: when sync_file has returned, the
\* remote holds exactly this version, for files that grow, shrink and change in
\* any block.  (One client, one remote and no lost message: otherwise the code
\* takes files for synced that are not.)
SyncedIsStored ==
    ~unsettled => \A c \in Client :
        job[c] = NoJob /\ state[c] # NoData =>
            manifests[syncedTo[c]].file = state[c] /\ Readable(syncedTo[c])
=============================================================================
