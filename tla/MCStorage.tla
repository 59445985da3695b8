------------------------------ MODULE MCStorage ------------------------------
(***************************************************************************)
(* The parts of the storage layer side by side.  They share no state; each   *)
(* behaviour is one of one part, named by focus.                             *)
(***************************************************************************)
EXTENDS Download, IncrementalSync, Backup, MetadataSync

CONSTANTS m1, m2, q1, q2

VARIABLE focus

MCData == {<<>>, <<1>>, <<1, 2>>, <<1, 2, 1>>, <<2, 2, 1>>}
MCBkData == {<<1>>, <<1, 2, 1>>}
\* The workers, clients, processes and stores are {m1, m2}, the nodes and files {q1, q2}.
MCSymmetry == Permutations({m1, m2}) \cup Permutations({q1, q2})

storageVars == <<dlVars, syVars, bkVars, meVars, focus>>

StorageInit ==
    /\ DlInit /\ SyInit /\ BkInit /\ MeInit
    /\ focus \in {"download", "sync", "backup", "metadata"}
    /\ focus # "sync" => local = [c \in Client |-> <<>>]
    /\ focus # "backup" => disk = [f \in File |-> <<1>>]

StorageNext ==
    /\ focus' = focus
    /\ \/ focus = "download" /\ DlNext /\ UNCHANGED <<syVars, bkVars, meVars>>
       \/ focus = "sync" /\ SyNext /\ UNCHANGED <<dlVars, bkVars, meVars>>
       \/ focus = "backup" /\ BkNext /\ UNCHANGED <<dlVars, syVars, meVars>>
       \/ focus = "metadata" /\ MeNext /\ UNCHANGED <<dlVars, syVars, bkVars>>

StorageSpec == StorageInit /\ [][StorageNext]_storageVars

\* The runs of one part alone.
BackupSpec == StorageInit /\ focus = "backup" /\ [][StorageNext]_storageVars /\ BkFairness
MetadataSpec == StorageInit /\ focus = "metadata" /\ [][StorageNext]_storageVars

\* The variables of every part have their types.
StorageTypeOK == DlTypeOK /\ SyTypeOK /\ BkTypeOK /\ MeTypeOK
=============================================================================
