--------------------------- MODULE StorageService ----------------------------
(***************************************************************************)
(* The storage service of a node (pkg/grpc/storage, pkg/api/node) over the *)
(* part of the chain state it reads: chunks, looked up by commitment, and  *)
(* manifests, looked up by identifier.  The node accepts more of them      *)
(* while it serves and removes none.                                       *)
(*                                                                         *)
(* Data is a sequence of bytes, of which only the difference matters, and  *)
(* a hash is the term of what is hashed.  A call answers with {} for an    *)
(* error and with the set of its one result otherwise.                     *)
(***************************************************************************)
EXTENDS Integers, Sequences, FiniteSets

CONSTANTS
    ChunkData,       \* ChunkData[c]: the data of the chunk with commitment c
    FileManifest,    \* FileManifest[f]: [chunks, size, hash] of the manifest with identifier f
    DirManifest,     \* DirManifest[d]: its files [path, id], in order
    MaxBatch         \* manifests in one BatchGetFileManifest: 1000

HashBytes(data) == [hash |-> data]

Elements(s) == {s[i] : i \in DOMAIN s}

(* The data of chunks in a row. *)
Concat[cs \in Seq(DOMAIN ChunkData)] ==
    IF cs = <<>> THEN <<>> ELSE ChunkData[Head(cs)] \o Concat[Tail(cs)]

ASSUME BatchAssumption == MaxBatch \in Nat \ {0}
ASSUME ManifestAssumption ==
    /\ \A f \in DOMAIN FileManifest :
         LET hashed == FileManifest[f].hash.hash IN
         FileManifest[f].chunks \in Seq(DOMAIN ChunkData) /\ hashed \in Seq(Elements(hashed))
    \* A path is a sequence of names, and a name a number.
    /\ \A d \in DOMAIN DirManifest :
         /\ DirManifest[d] \in Seq(Elements(DirManifest[d]))
         /\ \A i \in DOMAIN DirManifest[d] : DirManifest[d][i].path \in Seq(Nat)
    \* An identifier is of one blob.
    /\ DOMAIN FileManifest \cap DOMAIN DirManifest = {}

VARIABLES
    chunks,          \* commitments of the chunks in the chain state
    fileManifests,   \* identifiers of its file manifests
    dirManifests     \* identifiers of its directory manifests

stored == <<chunks, fileManifests, dirManifests>>

StoreInit == chunks = {} /\ fileManifests = {} /\ dirManifests = {}

-----------------------------------------------------------------------------
(* What the node accepts: SyncChunk, SyncFileManifest, SyncDirectoryManifest. *)

SyncChunk ==
    /\ \E c \in DOMAIN ChunkData \ chunks : chunks' = chunks \cup {c}
    /\ UNCHANGED <<fileManifests, dirManifests>>

SyncFileManifest ==
    /\ \E f \in DOMAIN FileManifest \ fileManifests :
         LET manifest == FileManifest[f] IN
         /\ Elements(manifest.chunks) \subseteq chunks
         /\ Len(Concat[manifest.chunks]) = manifest.size
         /\ HashBytes(Concat[manifest.chunks]) = manifest.hash
         /\ fileManifests' = fileManifests \cup {f}
    /\ UNCHANGED <<chunks, dirManifests>>

SyncDirectoryManifest ==
    /\ \E d \in DOMAIN DirManifest \ dirManifests :
         /\ \A i \in DOMAIN DirManifest[d] : DirManifest[d][i].id \in fileManifests
         /\ dirManifests' = dirManifests \cup {d}
    /\ UNCHANGED <<chunks, fileManifests>>

Sync == SyncChunk \/ SyncFileManifest \/ SyncDirectoryManifest

-----------------------------------------------------------------------------
(* The calls. *)

GetChunkData(c) == IF c \in chunks THEN {ChunkData[c]} ELSE {}

GetFileManifest(f) == IF f \in fileManifests THEN {FileManifest[f]} ELSE {}

GetDirectoryManifest(d) == IF d \in dirManifests THEN {DirManifest[d]} ELSE {}

(* The chunks in order, if all are there and length and hash are the manifest's. *)
GetFileData(f) ==
    {data \in {Concat[manifest.chunks] :
                 manifest \in {m \in GetFileManifest(f) :
                                 \A i \in DOMAIN m.chunks : GetChunkData(m.chunks[i]) # {}}} :
        /\ Len(data) = FileManifest[f].size
        /\ HashBytes(data) = FileManifest[f].hash}

(* All of the manifests, or none if one cannot be had. *)
BatchGetFileManifest(fs) ==
    IF Len(fs) > MaxBatch \/ \E i \in DOMAIN fs : GetFileManifest(fs[i]) = {} THEN {}
    ELSE {[f \in Elements(fs) |-> FileManifest[f]]}
=============================================================================
