-------------------------- MODULE BlockCommitments ---------------------------
(***************************************************************************)
(* What a node commits to and keeps of each block: the roots of its lists, *)
(* the range they are added to, the header and its hash, as bytes in the   *)
(* chain state, and what the rollup service reads back.  The steps of a    *)
(* height, which BlobcastChain interleaves with crashes, are one step here *)
(* (they share one transaction); the process may end between heights.      *)
(***************************************************************************)
EXTENDS MerkleMountainRange

CONSTANTS
    ChainIDs,      \* the chain ids a network may have
    Commitments,   \* the commitments that blobs may have
    Bodies,        \* Bodies[h]: the commitments [dirs, files, chunks] that height h may have
    Offset         \* the Celestia height of the genesis block

(* Bound: the heights explored. *)
MaxHeight == Len(Bodies)

ASSUME HeightAssumption == Offset \in Nat

ASSUME BodyAssumption ==
    Bodies \in Seq(SUBSET [dirs : Seq(Commitments), files : Seq(Commitments), chunks : Seq(Commitments)])

(* Chain ids are not empty. *)
ASSUME ChainIDAssumption ==
    \A id \in ChainIDs : id = [text |-> id.text, length |-> id.length] /\ id.length \in Nat \ {0}

VARIABLES
    (* the chain state *)
    chainID,
    finalizedHeight,    \* 0 while the key is absent
    blocks,             \* height -> bytes of the block
    blockHashes,        \* block hash -> bytes of the height
    stateMMRs,          \* height -> snapshot of the range
    fileManifests,      \* the identifiers, as bytes, of the stored manifests
    dirManifests,
    (* the process *)
    prevBlock,          \* {} for nil
    hashCache,          \* blockHeaderHashCache
    (* history *)
    made,               \* made[h + 1]: the block of height h when it was written
    leaves              \* the leaves added to the range

nodeVars == <<chainID, finalizedHeight, blocks, blockHashes, stateMMRs, fileManifests,
              dirManifests, prevBlock, hashCache, made, leaves>>

Put(f, k, v) == [x \in DOMAIN f \cup {k} |-> IF x = k THEN v ELSE f[x]]

(* BlockHeader.Hash: the cache, keyed by height, comes first. *)
Hash(header, cache) ==
    IF header.height \in DOMAIN cache THEN cache[header.height] ELSE HashBytes(HeaderBytes(header))

Cached(header, cache) == Put(cache, header.height, Hash(header, cache))

NodeInit ==
    /\ chainID \in ChainIDs
    /\ finalizedHeight = 0
    /\ blocks = <<>> /\ blockHashes = <<>> /\ stateMMRs = <<>>
    /\ fileManifests = {} /\ dirManifests = {}
    /\ prevBlock = {} /\ hashCache = <<>>
    /\ made = <<>> /\ leaves = <<>>

(* The time of a Celestia header has a fraction of a second. *)
CelestiaTime(celestiaHeight) == [seconds |-> celestiaHeight, fraction |-> celestiaHeight % 2]

-----------------------------------------------------------------------------
(* Reads of the chain state. *)

GetBlock(height) == IF height \in DOMAIN blocks THEN {BlockFromBytes(blocks[height])} ELSE {}

GetBlockByHash(hash) ==
    IF hash \in DOMAIN blockHashes THEN GetBlock(Uint64FromBytesKey(blockHashes[hash])) ELSE {}

(* The last snapshot at or before the height; no snapshot is an error. *)
GetStateMMR(height) ==
    LET before == {k \in DOMAIN stateMMRs : k <= height} IN
    IF height = 0 THEN {NewMMR}
    ELSE {Restore(stateMMRs[k]) : k \in {k \in before : \A j \in before : j <= k}}

-----------------------------------------------------------------------------
(* tx.PutBlock, tx.Commit. *)
PutBlock(block) ==
    /\ blocks' = Put(blocks, block.header.height, BlockBytes(block))
    /\ blockHashes' = Put(blockHashes, Hash(block.header, hashCache'),
                          BytesFromUint64Key(block.header.height))
    /\ prevBlock' = {block}
    /\ made' = SubSeq(made, 1, block.header.height) \o <<block>>

NoBody == [dirs |-> <<>>, files |-> <<>>, chunks |-> <<>>]

(* As long as nothing is finalized every start makes the genesis block. *)
CreateGenesisBlock ==
    /\ finalizedHeight = 0 /\ prevBlock = {}
    /\ LET block == [NewBlockFromHeader(NewHeader, NoBody) EXCEPT
                       !.header.chainID = chainID, !.header.celestiaBlockHeight = Offset,
                       !.header.timestamp = CelestiaTime(Offset)]
       IN  /\ hashCache' = Cached(block.header, hashCache)
           /\ PutBlock(block)
    /\ UNCHANGED <<chainID, finalizedHeight, stateMMRs, fileManifests, dirManifests, leaves>>

(* SyncBlobs and ProduceBlock: the block of a Celestia height, with these commitments. *)
ProduceBlock(height, body) ==
    LET ids == [l \in DOMAIN body |-> [i \in DOMAIN body[l] |->
                  [height |-> height + Offset, commitment |-> body[l][i]]]]
    IN  [NewBlockFromHeader(NewHeader, ids) EXCEPT
           !.header.chainID = chainID, !.header.height = height,
           !.header.celestiaBlockHeight = height + Offset,
           !.header.timestamp = CelestiaTime(height + Offset)]

(* The leaves a block adds: the roots that are not zero. *)
NewLeaves(header) ==
    SelectSeq(<<header.dirsRoot, header.filesRoot, header.chunksRoot>>, LAMBDA root : root # Zero)

(* The previous block is the one in memory or, after a start, read from the store. *)
PrevBlock(height) == IF prevBlock # {} THEN prevBlock ELSE GetBlock(height - 1)

Keys(ids) == {IdBytes(ids[i]) : i \in DOMAIN ids}

ApplyBlock(height, body) ==
    /\ \E prev \in PrevBlock(height), range \in GetStateMMR(height - 1) :
         LET produced == ProduceBlock(height, body)
             new == NewLeaves(produced.header)
             extended == AddLeaves(range, new)
             block == [produced EXCEPT !.header.parentHash = Hash(prev.header, hashCache),
                                       !.header.stateRoot = Root(extended)]
         IN  /\ hashCache' = Cached(block.header, Cached(prev.header, hashCache))
             /\ PutBlock(block)
             /\ stateMMRs' = IF new = <<>> THEN stateMMRs
                             ELSE Put(stateMMRs, height, Snapshot(extended))
             /\ leaves' = leaves \o new
             /\ fileManifests' = fileManifests \cup Keys(block.body.files)
             /\ dirManifests' = dirManifests \cup Keys(block.body.dirs)

(* One height in one transaction, with the finalized height. *)
AddBlock ==
    /\ finalizedHeight > 0 \/ prevBlock # {}
    /\ finalizedHeight < MaxHeight
    /\ \E body \in Bodies[finalizedHeight + 1] : ApplyBlock(finalizedHeight + 1, body)
    /\ finalizedHeight' = finalizedHeight + 1
    /\ UNCHANGED chainID

(* The process ends and is started again. *)
RestartNode ==
    /\ prevBlock # {}
    /\ prevBlock' = {} /\ hashCache' = <<>>
    /\ UNCHANGED <<chainID, finalizedHeight, blocks, blockHashes, stateMMRs, fileManifests,
                   dirManifests, made, leaves>>

NodeNext == CreateGenesisBlock \/ AddBlock \/ RestartNode

-----------------------------------------------------------------------------
(* The range stored last holds exactly the leaves in their order: the peaks are the *)
(* reference's, the state root of the last block is theirs, and every leaf is found at its *)
(* index; although the range was stored and loaded between any two blocks. *)
RangeExact ==
    \A range \in GetStateMMR(finalizedHeight) :
        LET mountains == Mountains(leaves) IN
        /\ PeaksLR(range) = mountains
        /\ leaves # <<>> => made[Len(made)].header.stateRoot =
                              HashWithSize(range.size, BagPeaks(mountains))
        /\ \A i \in DOMAIN leaves : range.leafIndexes[HashLeaf(leaves[i])] = i - 1

(* An inclusion proof made at any time verifies from then on, at every later size; and *)
(* with the hash of any other leaf in its place it does not. *)
ProofsVerify ==
    \A range \in GetStateMMR(finalizedHeight) :
        \A n \in DOMAIN leaves : \A i \in 0 .. n - 1 :
            LET proof == GenerateInclusionProof(AddLeaves(NewMMR, SubSeq(leaves, 1, n)), i)
                leafAt(j) == range.nodes[LeafIndexToMMRIndex(j) + 1]
            IN  /\ IsLeaf(LeafIndexToMMRIndex(i))
                /\ VerifyInclusionProof(range, proof)
                /\ \A j \in 0 .. Len(leaves) - 1 :
                     j # i => ~VerifyInclusionProof(range, [proof EXCEPT !.leafHash = leafAt(j)])

(* A block read back from its bytes is the block that was written, up to the fraction of *)
(* its time and the end of a long chain id; and what a header commits to is not lost with *)
(* these: the hash of what is read is the hash it is indexed by, and the parent hash of the *)
(* next block, whatever was in memory when that one was made. *)
BlocksDecode ==
    \A height \in DOMAIN blocks :
        LET block == BlockFromBytes(blocks[height])
            hash == HashBytes(HeaderBytes(block.header))
            written == made[height + 1]
        IN  /\ block = [written EXCEPT
                          !.header.timestamp.fraction = 0,
                          !.header.chainID.length = IF @ > ShortStringMax THEN ShortStringMax ELSE @]
            /\ GetBlockByHash(hash) = {block}
            /\ \A next \in GetBlock(height + 1) : next.header.parentHash = hash

(* The three roots of a header each belong to the list of its block and to no other list, *)
(* longer, shorter or in another order, that the same Celestia height could have had. *)
RootBinds ==
    \A height \in DOMAIN blocks \ {0} : \A body \in Bodies[height] :
        LET other == ProduceBlock(height, body)
            block == made[height + 1]
        IN  /\ other.header.dirsRoot = block.header.dirsRoot => other.body.dirs = block.body.dirs
            /\ other.header.filesRoot = block.header.filesRoot => other.body.files = block.body.files
            /\ other.header.chunksRoot = block.header.chunksRoot => other.body.chunks = block.body.chunks
=============================================================================
