------------------------------ MODULE Envelopes ------------------------------
(***************************************************************************)
(* The vocabulary shared by the modules of the rollup: blobs and the       *)
(* envelopes they carry, blob identifiers, blocks, and the hash functions. *)
(*                                                                         *)
(* A blob is named by its Celestia share commitment, which is determined   *)
(* by its contents; Envelope gives what the blob decodes to.  Hashes are   *)
(* symbolic terms, equal exactly when their arguments are (blake3 without  *)
(* collisions), so a root or a block hash shows what it commits to.        *)
(***************************************************************************)
EXTENDS Integers, Sequences

CONSTANTS
  Blob,       \* the blobs of the namespace, each named by its commitment
  Envelope,   \* what each blob decodes to (proto.Unmarshal)
  Offset      \* celestiaHeightOffset: Celestia height of the genesis block

(***************************************************************************)
(* The payload kinds of a BlobcastEnvelope; "invalid" stands for a blob    *)
(* that does not unmarshal and for a payload of no known type.             *)
(***************************************************************************)
Kinds == {"chunk", "file", "dir", "invalid"}

(***************************************************************************)
(* types.BlobIdentifier: the Celestia height at which a blob was included, *)
(* and its commitment.                                                     *)
(***************************************************************************)
BlobIdentifier == [height : Nat, commitment : Blob]

\* What the chunk references of a file manifest and the file references of a
\* directory manifest point to.
Commitments(refs) == {refs[i].commitment : i \in DOMAIN refs}

FileIds(refs) == {refs[i].id : i \in DOMAIN refs}

\* What a manifest may say, whoever wrote it: the references need not exist
\* and the sizes and hashes need not be right.
EnvelopeOK(e) ==
  /\ e.kind \in Kinds
  /\ e.kind = "chunk" => e.data \in Seq(Int)
  /\ e.kind = "file" => e.size \in Nat /\ Commitments(e.chunks) \subseteq Blob
  /\ e.kind = "dir" => FileIds(e.files) \subseteq BlobIdentifier

ASSUME OffsetAssumption == Offset \in Nat \ {0}

ASSUME EnvelopeAssumption ==
  /\ DOMAIN Envelope = Blob
  /\ \A b \in Blob : EnvelopeOK(Envelope[b])

-----------------------------------------------------------------------------
(* Hashes. *)

ZeroHash == <<>>

HashBytes(x) == <<"blake3", x>>

\* merkle.CalculateMerkleRoot: the zero hash for no leaves; otherwise every
\* leaf is hashed with its index, so the root fixes the whole list.
CalculateMerkleRoot(leaves) ==
  IF leaves = <<>> THEN ZeroHash ELSE <<"merkle", leaves>>

\* MMR.Root of a mountain range holding these leaves: the zero hash when it
\* is empty; otherwise every node is hashed with its position and the size.
MMRRoot(leaves) ==
  IF leaves = <<>> THEN ZeroHash ELSE <<"mmr", leaves>>

\* The leaves that a state root commits to.
RootLeaves(r) == IF r = ZeroHash THEN <<>> ELSE r[2]

-----------------------------------------------------------------------------
(* Manifests against what they refer to. *)

Concat(parts) ==
  LET cat[i \in 0..Len(parts)] ==
        IF i = 0 THEN <<>> ELSE cat[i - 1] \o parts[i]
  IN  cat[Len(parts)]

\* The checks of SyncFileManifest on the chunks it found: each has the hash
\* the manifest gives it, and together they have its size and its hash.
FileMatches(f) ==
  LET refs == Envelope[f].chunks
      data == Concat([i \in DOMAIN refs |-> Envelope[refs[i].commitment].data])
  IN  /\ \A i \in DOMAIN refs :
           HashBytes(Envelope[refs[i].commitment].data) = refs[i].hash
      /\ Len(data) = Envelope[f].size
      /\ HashBytes(data) = Envelope[f].hash

\* The check of SyncDirectoryManifest on the file manifests it found: the
\* Merkle root over (relative path, file hash) is the directory's hash.
DirMatches(d) ==
  LET refs == Envelope[d].files
  IN  CalculateMerkleRoot(
        [i \in DOMAIN refs |->
           HashBytes(<<refs[i].path, Envelope[refs[i].id.commitment].hash>>)])
      = Envelope[d].hash

-----------------------------------------------------------------------------
(* Blocks. *)

\* types.NewBlock: the body, and a header holding the roots of its lists.
NewBlock(dirs, files, chunks) ==
  [ height         |-> 0,
    celestiaHeight |-> 0,
    parentHash     |-> ZeroHash,
    dirsRoot       |-> CalculateMerkleRoot(dirs),
    filesRoot      |-> CalculateMerkleRoot(files),
    chunksRoot     |-> CalculateMerkleRoot(chunks),
    stateRoot      |-> ZeroHash,
    dirs           |-> dirs,
    files          |-> files,
    chunks         |-> chunks ]

\* BlockHeader.Bytes: the fields of the header, and none of the body.
HeaderBytes(b) ==
  [ height         |-> b.height,
    celestiaHeight |-> b.celestiaHeight,
    parentHash     |-> b.parentHash,
    dirsRoot       |-> b.dirsRoot,
    filesRoot      |-> b.filesRoot,
    chunksRoot     |-> b.chunksRoot,
    stateRoot      |-> b.stateRoot ]

\* What BlockHeader.Hash computes when its cache holds nothing for the height.
HeaderHash(b) == HashBytes(HeaderBytes(b))

\* The block SyncChain creates at height 0.
GenesisBlock == [NewBlock(<<>>, <<>>, <<>>) EXCEPT !.celestiaHeight = Offset]

\* The leaves a block adds to the state MMR: its non-zero roots, in the order
\* in which ApplyBlock adds them.
Leaf(root) == IF root = ZeroHash THEN <<>> ELSE <<root>>

NewLeaves(b) == Leaf(b.dirsRoot) \o Leaf(b.filesRoot) \o Leaf(b.chunksRoot)

-----------------------------------------------------------------------------
\* The store: Set of a key-value pair in a pebble batch.
Put(f, k, v) == [x \in DOMAIN f \cup {k} |-> IF x = k THEN v ELSE f[x]]

SeqRange(s) == {s[i] : i \in DOMAIN s}
=============================================================================
