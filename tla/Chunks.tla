------------------------------- MODULE Chunks -------------------------------
(***************************************************************************)
(* The pure part of the storage layer: Chunker (storage/chunk.rs) and       *)
(* BlockDiffEngine (storage/diff.rs).                                        *)
(* File data is a sequence of bytes.  A SHA-256 digest is represented by the *)
(* data it is taken of, so two digests agree exactly when the data does.     *)
(***************************************************************************)
EXTENDS Integers, Sequences, FiniteSetsExt, SequencesExt

CONSTANT ChunkSize      \* bytes per chunk

ASSUME ChunkAssumption == ChunkSize \in Nat \ {0}

NumChunks(data) == (Len(data) + ChunkSize - 1) \div ChunkSize

\* The chunk with the zero-based index i; the last one may be shorter.
ChunkAt(data, i) == SubSeq(data, i * ChunkSize + 1, Min({(i + 1) * ChunkSize, Len(data)}))

\* chunk_data: the chunks and the manifest, which names the digest of the file
\* and of each chunk.
ChunkData(data) == [k \in 1..NumChunks(data) |-> ChunkAt(data, k - 1)]
Manifest(data) == [file |-> data, chunks |-> ChunkData(data)]

\* What request_remote_manifest makes up for a file the remote does not have: its
\* file digest is all zeros, which is no file's.
ZeroHash == <<-1>>
EmptyManifest == [file |-> ZeroHash, chunks |-> <<>>]

ReassembleMutant(manifest, chunks) ==
    /\ Len(chunks) = Len(manifest.chunks)
    /\ \A k \in 1..Len(chunks) : Len(chunks[k]) = Len(manifest.chunks[k])

\* reassemble succeeds: the number and the sizes of the chunks fit and the
\* digest of the whole is the manifest's.
Reassemble(manifest, chunks) ==
    /\ Len(chunks) = Len(manifest.chunks)
    /\ \A k \in 1..Len(chunks) : Len(chunks[k]) = Len(manifest.chunks[k])
    /\ FlattenSeq(chunks) = manifest.file

DiffStatusMutant(manifest, data, i) ==
    LET hasRemote == i < Len(manifest.chunks)
        hasLocal == i < NumChunks(data)
    IN CASE hasRemote /\ hasLocal -> IF Len(manifest.chunks[i + 1]) = Len(ChunkAt(data, i)) THEN "Unchanged" ELSE "Modified"
         [] hasRemote /\ ~hasLocal -> "Deleted"
         [] ~hasRemote -> "Added"

\* diff_files, block by block.
DiffStatus(manifest, data, i) ==
    LET hasRemote == i < Len(manifest.chunks)
        hasLocal == i < NumChunks(data)
    IN CASE hasRemote /\ hasLocal -> IF manifest.chunks[i + 1] = ChunkAt(data, i) THEN "Unchanged" ELSE "Modified"
         [] hasRemote /\ ~hasLocal -> "Deleted"
         [] ~hasRemote -> "Added"

\* The blocks of changed_blocks that have to be transferred: none when the file
\* digests agree.
ToTransfer(manifest, data) ==
    IF manifest.file = data THEN {}
    ELSE {i \in 0..Max({Len(manifest.chunks), NumChunks(data)}) - 1 :
             DiffStatus(manifest, data, i) \in {"Added", "Modified"}}
=============================================================================
