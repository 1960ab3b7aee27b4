---------------------------- MODULE BlobcastChain ----------------------------
(***************************************************************************)
(* A blobcast full node (`blobcast node start`): BlobcastChain.SyncChain   *)
(* deriving the rollup from Celestia, over the chain state it keeps in     *)
(* pebble.  The node may be killed, or lose its Celestia endpoint, between *)
(* any two steps; only the pebble store survives.                          *)
(*                                                                         *)
(* Left out: the chain id (a constant), the timestamp (determined by the   *)
(* Celestia height) and the version (1) of a header, and file names, mime  *)
(* types and compression of manifests, which no check reads.               *)
(***************************************************************************)
EXTENDS Envelopes

CONSTANTS
  Contents,       \* the blob lists that Celestia heights may hold
  MaxCelestia     \* bound: the number of Celestia heights explored

ASSUME ContentsAssumption == Contents \subseteq Seq(Blob)

ASSUME MaxCelestiaAssumption == MaxCelestia \in Nat /\ MaxCelestia >= Offset

VARIABLES
  (* Celestia (external) *)
  da,               \* da[c]: the blobs of the namespace at Celestia height c
  (* the pebble store of the node: survives a crash *)
  finalizedHeight,  \* 0 while the key is absent
  blocks,           \* "blk:"    height -> block
  blockHashes,      \* "blk:h:"  block hash -> height
  stateMMRs,        \* "mmr:"    height -> leaves of the snapshot
  chunks,           \* "chk:"    commitments of the stored chunks
  fileManifests,    \* "man:f:"  identifiers of the stored file manifests
  dirManifests,     \* "man:d:"  identifiers of the stored directory manifests
  (* the process: lost in a crash *)
  pc,               \* where SyncChain is
  live,             \* in the live loop, rather than in historical catchup
  nextHeight,
  latest,           \* latestCelestiaHeight
  heads,            \* Celestia height up to which the head subscription delivered
  prevBlock,        \* {} for nil
  tx,               \* the pending ChainStateTransaction
  hashCache         \* blockHeaderHashCache: height -> hash

store == <<finalizedHeight, blocks, blockHashes, stateMMRs, chunks,
           fileManifests, dirManifests>>
loop  == <<live, nextHeight, latest, heads, prevBlock>>
vars  == <<da, store, pc, loop, tx, hashCache>>

Locations == {"stopped", "start", "genesis", "latest", "loop", "blobs", "apply",
              "finalize", "commit", "publish", "subscribe", "heads"}

\* NewChainStateTransaction.  blobs are the ones SyncBlobs has still to see;
\* the other fields are the writes of the batch ({} where there is none).
NewTransaction(bs) ==
  [blobs |-> bs, dirs |-> <<>>, files |-> <<>>, chunks |-> <<>>,
   block |-> {}, hash |-> {}, mmr |-> {}, finalized |-> {}]

NoTransaction == NewTransaction(<<>>)

-----------------------------------------------------------------------------
(* Reads of the chain state and of the pending transaction. *)

\* BlockHeader.Hash: the cache, keyed by height, comes before the header.
Hash(b, cache) ==
  IF b.height \in DOMAIN cache THEN cache[b.height] ELSE HeaderHash(b)

\* tx.GetChunk and tx.GetChunkHash: pending chunks, then the stored ones.
GetChunk(c) == c \in chunks \cup Commitments(tx.chunks)

\* Mutant: a file manifest is looked up by its commitment alone.
GetFileManifestByCommitment(id) ==
  \E f \in fileManifests : f.commitment = id.commitment

\* tx.GetFileManifest: pendingFileManifests is keyed by pointer, and the
\* identifier is freshly decoded from the directory manifest, so a manifest
\* of the same transaction is never found; only the store is.
GetFileManifest(id) == id \in fileManifests

\* Mutant: empty blocks do not inherit the range of the block below.
HasStateMMRExact(h) == h = 0 \/ h \in DOMAIN stateMMRs

\* ChainState.GetStateMMR: a new range for height 0, otherwise the latest
\* snapshot at or before the height; it is an error that there is none.
HasStateMMR(h) == h = 0 \/ \E k \in DOMAIN stateMMRs : k <= h

\* Mutant: only a snapshot of exactly that height is used.
GetStateMMRExact(h) == IF h \in DOMAIN stateMMRs THEN stateMMRs[h] ELSE <<>>

GetStateMMR(h) ==
  IF h = 0
    THEN <<>>
    ELSE stateMMRs[CHOOSE k \in DOMAIN stateMMRs :
                     k <= h /\ \A j \in DOMAIN stateMMRs : j <= h => j <= k]

-----------------------------------------------------------------------------
Init ==
  /\ da \in [1..Offset -> Contents]
  /\ finalizedHeight = 0
  /\ blocks = <<>> /\ blockHashes = <<>> /\ stateMMRs = <<>>
  /\ chunks = {} /\ fileManifests = {} /\ dirManifests = {}
  /\ pc = "stopped"
  /\ live = FALSE /\ nextHeight = 0 /\ latest = 0 /\ heads = 0 /\ prevBlock = {}
  /\ tx = NoTransaction
  /\ hashCache = <<>>

\* Celestia finalizes a further height.
CelestiaBlock ==
  /\ Len(da) < MaxCelestia
  /\ \E bs \in Contents : da' = Append(da, bs)
  /\ UNCHANGED <<store, pc, loop, tx, hashCache>>

\* runStart: a new process, nothing but the store is left of the last one.
Start ==
  /\ pc = "stopped"
  /\ pc' = "start"
  /\ UNCHANGED <<da, store, loop, tx, hashCache>>

\* What the process held in memory is gone.
Stop ==
  /\ pc' = "stopped"
  /\ live' = FALSE /\ nextHeight' = 0 /\ latest' = 0 /\ heads' = 0 /\ prevBlock' = {}
  /\ tx' = NoTransaction
  /\ hashCache' = <<>>
  /\ UNCHANGED <<da, store>>

\* The process is killed, or a Celestia call fails after its retries: SyncChain
\* aborts the transaction and returns the error, and runStart ends.
Crash ==
  /\ pc # "stopped"
  /\ Stop

\* SyncChain up to the genesis block: continue after the finalized height, or
\* begin a transaction and create the genesis block in it.
ReadFinalizedHeight ==
  /\ pc = "start"
  /\ finalizedHeight > 0
  /\ nextHeight' = finalizedHeight + 1
  /\ pc' = "latest"
  /\ UNCHANGED <<da, store, live, latest, heads, prevBlock, tx, hashCache>>

\* Mutant: the genesis block is created whatever was finalized.
CreateGenesisAlways ==
  /\ pc = "start"
  /\ LET hash == Hash(GenesisBlock, hashCache) IN
       /\ tx' = [NewTransaction(<<>>) EXCEPT !.block = {GenesisBlock}, !.hash = {hash}]
       /\ hashCache' = Put(hashCache, 0, hash)
  /\ pc' = "genesis"
  /\ UNCHANGED <<da, store, loop>>

CreateGenesisBlock ==
  /\ pc = "start"
  /\ finalizedHeight = 0
  /\ LET hash == Hash(GenesisBlock, hashCache) IN
       /\ tx' = [NewTransaction(<<>>) EXCEPT !.block = {GenesisBlock}, !.hash = {hash}]
       /\ hashCache' = Put(hashCache, 0, hash)
  /\ pc' = "genesis"
  /\ UNCHANGED <<da, store, loop>>

\* Mutant: the chunks stay in pendingChunks and are not in the batch.
CommitWithoutChunks ==
  \E b \in tx.block, hash \in tx.hash :
    /\ blocks' = Put(blocks, b.height, b)
    /\ blockHashes' = Put(blockHashes, hash, b.height)
    /\ stateMMRs' = IF tx.mmr = {} THEN stateMMRs
                    ELSE Put(stateMMRs, b.height, CHOOSE m \in tx.mmr : TRUE)
    /\ finalizedHeight' = IF tx.finalized = {} THEN finalizedHeight
                          ELSE CHOOSE h \in tx.finalized : TRUE
    /\ fileManifests' = fileManifests \cup SeqRange(tx.files)
    /\ dirManifests' = dirManifests \cup SeqRange(tx.dirs)
    /\ prevBlock' = {b}
    /\ tx' = NoTransaction
    /\ UNCHANGED chunks

\* tx.Commit: the whole batch, atomically.
CommitBatch ==
  \E b \in tx.block, hash \in tx.hash :
    /\ blocks' = Put(blocks, b.height, b)
    /\ blockHashes' = Put(blockHashes, hash, b.height)
    /\ stateMMRs' = IF tx.mmr = {} THEN stateMMRs
                    ELSE Put(stateMMRs, b.height, CHOOSE m \in tx.mmr : TRUE)
    /\ finalizedHeight' = IF tx.finalized = {} THEN finalizedHeight
                          ELSE CHOOSE h \in tx.finalized : TRUE
    /\ chunks' = chunks \cup Commitments(tx.chunks)
    /\ fileManifests' = fileManifests \cup SeqRange(tx.files)
    /\ dirManifests' = dirManifests \cup SeqRange(tx.dirs)
    /\ prevBlock' = {b}
    /\ tx' = NoTransaction

\* The genesis block is committed without a finalized height, so a restart
\* before block 1 creates it again.
CommitGenesis ==
  /\ pc = "genesis"
  /\ CommitBatch
  /\ nextHeight' = 1
  /\ pc' = "latest"
  /\ UNCHANGED <<da, live, latest, heads, hashCache>>

LatestHeight ==
  /\ pc = "latest"
  /\ latest' = Len(da)
  /\ pc' = "loop"
  /\ UNCHANGED <<da, store, live, nextHeight, heads, prevBlock, tx, hashCache>>

\* Begin a transaction and fetch the blobs of the next height (GetBlobs).
BeginBlock ==
  /\ tx' = NewTransaction(da[nextHeight + Offset])
  /\ pc' = "blobs"

\* One turn of the historical loop: the latest height is refreshed when it has
\* been reached, and the loop ends when the refreshed one is behind.
CatchUp ==
  /\ pc = "loop" /\ ~live
  /\ latest' = IF nextHeight + Offset >= latest THEN Len(da) ELSE latest
  /\ IF nextHeight + Offset > latest'
       THEN pc' = "subscribe" /\ UNCHANGED tx
       ELSE BeginBlock
  /\ UNCHANGED <<da, store, live, nextHeight, heads, prevBlock, hashCache>>

\* SubscribeToNewHeaders of Celestia: heads finalized before it are not sent.
Subscribe ==
  /\ pc = "subscribe"
  /\ live' = TRUE
  /\ heads' = Len(da)
  /\ pc' = "heads"
  /\ UNCHANGED <<da, store, nextHeight, latest, prevBlock, tx, hashCache>>

ReceiveHead ==
  /\ pc = "heads"
  /\ heads < Len(da)
  /\ heads' = heads + 1
  /\ latest' = heads + 1
  /\ pc' = "loop"
  /\ UNCHANGED <<da, store, live, nextHeight, prevBlock, tx, hashCache>>

\* Mutant: a height equal to the head's is left for the next head.
FollowHeadLate ==
  /\ pc = "loop" /\ live
  /\ IF nextHeight + Offset >= latest
       THEN pc' = "heads" /\ UNCHANGED tx
       ELSE BeginBlock
  /\ UNCHANGED <<da, store, loop, hashCache>>

\* One turn of the inner live loop: every height up to the head's is due.
FollowHead ==
  /\ pc = "loop" /\ live
  /\ IF nextHeight + Offset > latest
       THEN pc' = "heads" /\ UNCHANGED tx
       ELSE BeginBlock
  /\ UNCHANGED <<da, store, loop, hashCache>>

-----------------------------------------------------------------------------
(* SyncBlobs: the blobs of the height, one by one, in order. *)

BlobId(b) == [height |-> nextHeight + Offset, commitment |-> b]

NextBlob(kind) ==
  /\ pc = "blobs"
  /\ tx.blobs # <<>>
  /\ Envelope[Head(tx.blobs)].kind = kind

\* Every chunk is accepted.
SyncChunk ==
  /\ NextBlob("chunk")
  /\ tx' = [tx EXCEPT !.blobs = Tail(@),
                      !.chunks = Append(@, BlobId(Head(tx.blobs)))]
  /\ UNCHANGED <<da, store, pc, loop, hashCache>>

\* Mutant: the missing-chunk check is dropped.
FileAcceptedUnseen(f) == FileMatches(f)

\* A file manifest is accepted when all its chunks are found and match it.
FileAccepted(f) ==
  /\ \A c \in Commitments(Envelope[f].chunks) : GetChunk(c)
  /\ FileMatches(f)

\* Mutant: a rejected manifest leaves a nil identifier in the list.
SyncFileManifestNil ==
  /\ NextBlob("file")
  /\ LET f == Head(tx.blobs) IN
       tx' = [tx EXCEPT !.blobs = Tail(@),
                        !.files = Append(@, IF FileAccepted(f) THEN BlobId(f) ELSE <<>>)]
  /\ UNCHANGED <<da, store, pc, loop, hashCache>>

SyncFileManifest ==
  /\ NextBlob("file")
  /\ LET f == Head(tx.blobs) IN
       tx' = [tx EXCEPT !.blobs = Tail(@),
                        !.files = IF FileAccepted(f) THEN Append(@, BlobId(f)) ELSE @]
  /\ UNCHANGED <<da, store, pc, loop, hashCache>>

\* A directory manifest is accepted when all its files are found and match it.
DirectoryAccepted(d) ==
  /\ \A id \in FileIds(Envelope[d].files) : GetFileManifest(id)
  /\ DirMatches(d)

SyncDirectoryManifest ==
  /\ NextBlob("dir")
  /\ LET d == Head(tx.blobs) IN
       tx' = [tx EXCEPT !.blobs = Tail(@),
                        !.dirs = IF DirectoryAccepted(d) THEN Append(@, BlobId(d)) ELSE @]
  /\ UNCHANGED <<da, store, pc, loop, hashCache>>

\* An envelope that does not decode is an error of the whole height.
SyncInvalidBlob ==
  /\ NextBlob("invalid")
  /\ Stop

-----------------------------------------------------------------------------
(* ProduceBlock, ApplyBlock, FinalizeBlock, Commit, publishNewHeader. *)

\* Mutant: the hash of the block is logged before the block is applied, and so
\* cached while the parent hash and the state root are still zero.
ProduceBlockHashed ==
  /\ pc = "blobs"
  /\ tx.blobs = <<>>
  /\ LET b == [NewBlock(tx.dirs, tx.files, tx.chunks) EXCEPT
                 !.height = nextHeight, !.celestiaHeight = nextHeight + Offset] IN
       /\ tx' = [tx EXCEPT !.block = {b}]
       /\ hashCache' = Put(hashCache, nextHeight, Hash(b, hashCache))
  /\ pc' = "apply"
  /\ UNCHANGED <<da, store, loop>>

ProduceBlock ==
  /\ pc = "blobs"
  /\ tx.blobs = <<>>
  /\ tx' = [tx EXCEPT !.block =
              {[NewBlock(tx.dirs, tx.files, tx.chunks) EXCEPT
                  !.height = nextHeight, !.celestiaHeight = nextHeight + Offset]}]
  /\ pc' = "apply"
  /\ UNCHANGED <<da, store, loop, hashCache>>

\* The block below the one being applied: the one in memory, or the stored one.
PreviousBlock ==
  IF prevBlock # {} THEN prevBlock
  ELSE {blocks[h] : h \in {nextHeight - 1} \cap DOMAIN blocks}

\* ApplyBlock goes through when there is a previous block of the right height
\* and a state MMR to extend.
Appliable ==
  /\ \E p \in PreviousBlock : p.height = nextHeight - 1
  /\ HasStateMMR(nextHeight - 1)

\* Mutant: the block is put, and so hashed, before its state root is set.
ApplyBlockPutEarly ==
  /\ pc = "apply"
  /\ Appliable
  /\ \E p \in PreviousBlock, b \in tx.block :
       LET parent  == Hash(p, hashCache)
           leaves  == GetStateMMR(nextHeight - 1) \o NewLeaves(b)
           linked  == [b EXCEPT !.parentHash = parent]
       IN  /\ tx' = [tx EXCEPT !.block = {[linked EXCEPT !.stateRoot = MMRRoot(leaves)]},
                               !.hash = {HeaderHash(linked)},
                               !.mmr = IF NewLeaves(b) = <<>> THEN {} ELSE {leaves}]
           /\ hashCache' = Put(hashCache, p.height, parent)
  /\ pc' = "finalize"
  /\ UNCHANGED <<da, store, loop>>

ApplyBlock ==
  /\ pc = "apply"
  /\ Appliable
  /\ \E p \in PreviousBlock, b \in tx.block :
       LET parent  == Hash(p, hashCache)
           cached  == Put(hashCache, p.height, parent)
           leaves  == GetStateMMR(nextHeight - 1) \o NewLeaves(b)
           applied == [b EXCEPT !.parentHash = parent, !.stateRoot = MMRRoot(leaves)]
           hash    == Hash(applied, cached)
       IN  /\ tx' = [tx EXCEPT !.block = {applied},
                               !.hash = {hash},
                               !.mmr = IF NewLeaves(b) = <<>> THEN {} ELSE {leaves}]
           /\ hashCache' = Put(cached, b.height, hash)
  /\ pc' = "finalize"
  /\ UNCHANGED <<da, store, loop>>

ApplyBlockError ==
  /\ pc = "apply"
  /\ ~Appliable
  /\ Stop

\* Mutant: the Celestia height is finalized instead of the rollup height.
FinalizeCelestiaHeight ==
  /\ pc = "finalize"
  /\ tx' = [tx EXCEPT !.finalized = {nextHeight + Offset}]
  /\ pc' = "commit"
  /\ UNCHANGED <<da, store, loop, hashCache>>

FinalizeBlock ==
  /\ pc = "finalize"
  /\ tx' = [tx EXCEPT !.finalized = {nextHeight}]
  /\ pc' = "commit"
  /\ UNCHANGED <<da, store, loop, hashCache>>

Commit ==
  /\ pc = "commit"
  /\ CommitBatch
  /\ pc' = "publish"
  /\ UNCHANGED <<da, live, nextHeight, latest, heads, hashCache>>

\* publishNewHeader (module HeaderFeed), then on to the next height.
PublishNewHeader ==
  /\ pc = "publish"
  /\ nextHeight' = nextHeight + 1
  /\ pc' = "loop"
  /\ UNCHANGED <<da, store, live, latest, heads, prevBlock, tx, hashCache>>

\* The gRPC server reads a block while SyncChain runs, and hashes its header.
GetBlockByHeight(h) ==
  /\ pc # "stopped"
  /\ h \in DOMAIN blocks
  /\ hashCache' = Put(hashCache, h, Hash(blocks[h], hashCache))
  /\ UNCHANGED <<da, store, pc, loop, tx>>

SyncChain ==
  \/ ReadFinalizedHeight \/ CreateGenesisBlock \/ CommitGenesis \/ LatestHeight
  \/ CatchUp \/ Subscribe \/ ReceiveHead \/ FollowHead
  \/ SyncChunk \/ SyncFileManifest \/ SyncDirectoryManifest \/ SyncInvalidBlob
  \/ ProduceBlock \/ ApplyBlock \/ ApplyBlockError \/ FinalizeBlock \/ Commit
  \/ PublishNewHeader

Next ==
  \/ CelestiaBlock
  \/ Start
  \/ Crash
  \/ SyncChain
  \/ \E h \in DOMAIN blocks : GetBlockByHeight(h)

Spec == Init /\ [][Next]_vars

\* The sync goroutine runs on while the process is up.  Celestia, the gRPC
\* clients and whoever starts the process again owe the node nothing.
FairSpec == Spec /\ WF_vars(SyncChain)

-----------------------------------------------------------------------------
(* Properties. *)

\* Type correctness of every variable (hashes and leaves are symbolic terms).
BlockOK(b) ==
  /\ DOMAIN b = DOMAIN GenesisBlock
  /\ b.height \in Nat /\ b.celestiaHeight \in Nat
  /\ b.dirs \in Seq(BlobIdentifier)
  /\ b.files \in Seq(BlobIdentifier)
  /\ b.chunks \in Seq(BlobIdentifier)

TransactionOK(t) ==
  /\ DOMAIN t = DOMAIN NoTransaction
  /\ t.blobs \in Seq(Blob)
  /\ t.dirs \in Seq(BlobIdentifier)
  /\ t.files \in Seq(BlobIdentifier)
  /\ t.chunks \in Seq(BlobIdentifier)
  /\ t.finalized \subseteq Nat
  /\ \A b \in t.block : BlockOK(b)

TypeOK ==
  /\ da \in Seq(Seq(Blob)) /\ Len(da) \in Offset..MaxCelestia
  /\ finalizedHeight \in Nat
  /\ DOMAIN blocks \subseteq Nat /\ \A h \in DOMAIN blocks : BlockOK(blocks[h])
  /\ \A x \in DOMAIN blockHashes : blockHashes[x] \in Nat
  /\ DOMAIN stateMMRs \subseteq Nat
  /\ chunks \subseteq Blob
  /\ fileManifests \subseteq BlobIdentifier /\ dirManifests \subseteq BlobIdentifier
  /\ pc \in Locations /\ live \in BOOLEAN
  /\ nextHeight \in Nat /\ latest \in 0..Len(da) /\ heads \in 0..Len(da)
  /\ \A b \in prevBlock : BlockOK(b)
  /\ TransactionOK(tx)
  /\ DOMAIN hashCache \subseteq Nat

\* The stored blocks are exactly the heights 0..finalizedHeight, wherever the
\* process was killed: nothing is finalized without its block, and no block
\* is stored above the finalized height.  Each block is the one of its
\* Celestia height (SyncChain's offset arithmetic after a restart).
FinalizedPrefix ==
  /\ DOMAIN blocks = 0..finalizedHeight \/ (blocks = <<>> /\ finalizedHeight = 0)
  /\ \A h \in DOMAIN blocks :
       /\ blocks[h].height = h
       /\ blocks[h].celestiaHeight = h + Offset
  /\ finalizedHeight + Offset <= Len(da)

\* Every block names its parent by the hash its parent's stored header really
\* has, whether ApplyBlock took the parent from memory or from the store, and
\* whatever the process-wide hash cache held.
ParentLinked ==
  \A h \in DOMAIN blocks \ {0} :
    h - 1 \in DOMAIN blocks /\ blocks[h].parentHash = HeaderHash(blocks[h - 1])

\* GetBlockByHash finds every block under the hash of its header, and finds
\* nothing else: the index written by PutBlock from the cached hash agrees
\* with the stored headers.
HashIndexExact ==
  /\ \A h \in DOMAIN blocks :
       /\ HeaderHash(blocks[h]) \in DOMAIN blockHashes
       /\ blockHashes[HeaderHash(blocks[h])] = h
  /\ \A x \in DOMAIN blockHashes :
       blockHashes[x] \in DOMAIN blocks /\ HeaderHash(blocks[blockHashes[x]]) = x

\* Every state root commits to the leaves of the previous block's state root
\* followed by the block's own non-zero roots, across blocks that stored no
\* MMR snapshot and across restarts.
StateRootExtends ==
  \A h \in DOMAIN blocks \ {0} :
    /\ h - 1 \in DOMAIN blocks
    /\ RootLeaves(blocks[h].stateRoot) =
         RootLeaves(blocks[h - 1].stateRoot) \o NewLeaves(blocks[h])

\* Whatever is recorded can be rebuilt from what was recorded before it: the
\* chunks of a file are recorded at or below its height and match it, the
\* files of a directory are recorded below its height and match it.
ReferencesResolved ==
  \A h \in DOMAIN blocks :
    /\ \A id \in SeqRange(blocks[h].files) :
         /\ Envelope[id.commitment].kind = "file"
         /\ \A c \in Commitments(Envelope[id.commitment].chunks) :
              \E k \in 0..h : k \in DOMAIN blocks /\ c \in Commitments(blocks[k].chunks)
         /\ FileMatches(id.commitment)
    /\ \A id \in SeqRange(blocks[h].dirs) :
         /\ Envelope[id.commitment].kind = "dir"
         /\ \A f \in FileIds(Envelope[id.commitment].files) :
              \E k \in 0..(h - 1) : k \in DOMAIN blocks /\ f \in SeqRange(blocks[k].files)
         /\ DirMatches(id.commitment)

\* The storage service serves exactly what the blocks record: a chunk or a
\* manifest is stored if and only if the body of some block lists it.
StoreMatchesBlocks ==
  /\ chunks = UNION {Commitments(blocks[h].chunks) : h \in DOMAIN blocks}
  /\ fileManifests = UNION {SeqRange(blocks[h].files) : h \in DOMAIN blocks}
  /\ dirManifests = UNION {SeqRange(blocks[h].dirs) : h \in DOMAIN blocks}

\* The chain is append-only: no step, restarts and the second creation of the
\* genesis block included, changes or removes a stored block or a snapshot,
\* lowers the finalized height, or forgets a chunk or a manifest.
AppendOnly ==
  [][ /\ \A h \in DOMAIN blocks : h \in DOMAIN blocks' /\ blocks'[h] = blocks[h]
      /\ \A h \in DOMAIN stateMMRs :
           h \in DOMAIN stateMMRs' /\ stateMMRs'[h] = stateMMRs[h]
      /\ finalizedHeight \in {finalizedHeight', finalizedHeight' - 1}
      /\ chunks \subseteq chunks'
      /\ fileManifests \subseteq fileManifests'
      /\ dirManifests \subseteq dirManifests' ]_vars

\* A block fails to apply exactly in a chain whose block 1 recorded nothing, and
\* there every block after it does: block 1 always applies, and once it has a
\* snapshot the previous block and a state to extend are there at every height,
\* after any number of restarts and empty blocks.  "Empty blocks don't have
\* their own MMR, they inherit from previous blocks" (pkg/grpc/sync/server.go)
\* holds of all but such a chain.
AppliesUnlessFirstEmpty ==
  pc = "apply" => (Appliable <=> finalizedHeight = 0 \/ 1 \in DOMAIN stateMMRs)

\* Every height the node has learned of is finalized, unless the process
\* ends first: the heads missed between the end of catchup and the
\* subscription are made up for by the next head.
LearnedHeightsFinalized ==
  \A h \in 1..(MaxCelestia - Offset) :
    latest >= h + Offset ~> finalizedHeight >= h \/ pc = "stopped"

\* The node implements the ledger: each block it commits is the one the
\* ledger derives from the blocks below and the blobs of one Celestia height.
Ledger == INSTANCE RollupLedger WITH
  ledger <- [i \in 1..(IF blocks = <<>> THEN 0 ELSE finalizedHeight + 1) |-> blocks[i - 1]]

LedgerSpec == Ledger!Spec

=============================================================================
