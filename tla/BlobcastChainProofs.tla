------------------------- MODULE BlobcastChainProofs -------------------------
(***************************************************************************)
(* Proofs about BlobcastChain, for every namespace, every offset, every    *)
(* Celestia history and every pattern of crashes: its invariants, and then *)
(* that it implements RollupLedger.                                        *)
(***************************************************************************)
EXTENDS BlobcastChain, SequenceTheorems, FiniteSetTheorems, TLAPS

-----------------------------------------------------------------------------
(* The inductive invariant, in named parts. *)

\* What the location of SyncChain says about the finalized height.
AtRest == {"stopped", "start", "genesis"}
InBlock == {"blobs", "apply", "finalize", "commit"}

ControlInv ==
  /\ pc \in AtRest => prevBlock = {}
  /\ pc = "genesis" => finalizedHeight = 0
  /\ pc \notin AtRest => 0 \in DOMAIN blocks
  /\ pc \notin AtRest \cup {"publish"} => nextHeight = finalizedHeight + 1
  /\ pc = "publish" => nextHeight = finalizedHeight
  /\ pc \in InBlock => nextHeight + Offset <= Len(da)
  /\ \A p \in prevBlock :
       finalizedHeight \in DOMAIN blocks /\ p = blocks[finalizedHeight]

\* What the pending transaction has recorded so far was accepted by the rules.
AcceptedInv ==
  /\ pc \notin InBlock => tx.files = <<>> /\ tx.dirs = <<>> /\ tx.chunks = <<>>
  /\ \A id \in SeqRange(tx.files) :
       /\ Envelope[id.commitment].kind = "file"
       /\ Commitments(Envelope[id.commitment].chunks) \subseteq
            chunks \cup Commitments(tx.chunks)
       /\ FileMatches(id.commitment)
  /\ \A id \in SeqRange(tx.dirs) :
       /\ Envelope[id.commitment].kind = "dir"
       /\ FileIds(Envelope[id.commitment].files) \subseteq fileManifests
       /\ DirMatches(id.commitment)

\* The block the transaction holds.
ProducedBlock ==
  [NewBlock(tx.dirs, tx.files, tx.chunks) EXCEPT
     !.height = nextHeight, !.celestiaHeight = nextHeight + Offset]

AppliedBlock ==
  [ProducedBlock EXCEPT
     !.parentHash = HeaderHash(blocks[nextHeight - 1]),
     !.stateRoot = MMRRoot(GetStateMMR(nextHeight - 1) \o NewLeaves(ProducedBlock))]

StagedInv ==
  /\ pc = "genesis" =>
       /\ tx.block = {GenesisBlock} /\ tx.hash = {HeaderHash(GenesisBlock)}
       /\ tx.mmr = {} /\ tx.finalized = {}
  /\ pc = "apply" => tx.block = {ProducedBlock}
  /\ pc \in {"blobs", "apply", "finalize"} => tx.finalized = {}
  /\ pc \in {"finalize", "commit"} =>
       /\ HasStateMMR(nextHeight - 1)
       /\ tx.block = {AppliedBlock} /\ tx.hash = {HeaderHash(AppliedBlock)}
       /\ tx.mmr = IF NewLeaves(ProducedBlock) = <<>> THEN {}
                   ELSE {GetStateMMR(nextHeight - 1) \o NewLeaves(ProducedBlock)}
  /\ pc = "commit" => tx.finalized = {nextHeight}

\* The cache holds the right hash of every stored block it knows, and otherwise
\* only the hash of the block about to be committed.
CacheInv ==
  \A h \in DOMAIN hashCache :
    \/ h \in DOMAIN blocks /\ hashCache[h] = HeaderHash(blocks[h])
    \/ /\ pc \in {"genesis", "finalize", "commit"}
       /\ h \notin DOMAIN blocks
       /\ \E b \in tx.block : b.height = h /\ hashCache[h] = HeaderHash(b)

\* The snapshot found for a height is the range its state root commits to.
IsSeq(s) == s \in Seq(SeqRange(s))

LatestSnapshot(h, k) == k <= h /\ \A j \in DOMAIN stateMMRs : j <= h => j <= k

SnapshotInv ==
  /\ \A k \in DOMAIN stateMMRs : IsSeq(stateMMRs[k]) /\ k \in DOMAIN blocks \ {0}
  /\ \A h \in DOMAIN blocks \ {0} :
       HasStateMMR(h) => \E k \in DOMAIN stateMMRs : LatestSnapshot(h, k)
  /\ \A h \in DOMAIN blocks :
       HasStateMMR(h) => blocks[h].stateRoot = MMRRoot(GetStateMMR(h))

\* Block 0, once stored, is the genesis block.
GenesisInv == 0 \in DOMAIN blocks => blocks[0] = GenesisBlock

IInv ==
  /\ TypeOK /\ FinalizedPrefix /\ GenesisInv /\ ControlInv /\ AcceptedInv /\ StagedInv /\ CacheInv
  /\ SnapshotInv /\ ParentLinked /\ HashIndexExact /\ StateRootExtends
  /\ ReferencesResolved /\ StoreMatchesBlocks

-----------------------------------------------------------------------------
(* Type correctness. *)

\* The block types.NewBlock builds from three lists of identifiers is a block,
\* and so is one whose other header fields are set.
LEMMA NewBlockType ==
  ASSUME NEW ds \in Seq(BlobIdentifier), NEW fs \in Seq(BlobIdentifier),
         NEW cs \in Seq(BlobIdentifier)
  PROVE  BlockOK(NewBlock(ds, fs, cs))
BY DEF BlockOK, NewBlock, GenesisBlock

LEMMA GenesisType == BlockOK(GenesisBlock)
BY OffsetAssumption DEF BlockOK, NewBlock, GenesisBlock

\* A new transaction over any blobs is a transaction.
LEMMA NewTransactionType ==
  ASSUME NEW bs \in Seq(Blob)
  PROVE  TransactionOK(NewTransaction(bs))
BY DEF TransactionOK, NewTransaction, NoTransaction

LEMMA NoTransactionType == TransactionOK(NoTransaction)
<1>1. <<>> \in Seq(Blob)
  OBVIOUS
<1>2. QED
  BY <1>1, NewTransactionType, Zenon DEF NoTransaction

\* TypeOK holds initially.
LEMMA InitType == Init => TypeOK
<1> SUFFICES ASSUME Init PROVE TypeOK
  OBVIOUS
<1>1. da \in Seq(Seq(Blob)) /\ Len(da) = Offset
  BY OffsetAssumption, ContentsAssumption DEF Init
<1>2. Len(da) \in Offset..MaxCelestia
  BY <1>1, OffsetAssumption, MaxCelestiaAssumption
<1>3. DOMAIN blocks = {} /\ DOMAIN blockHashes = {} /\ DOMAIN stateMMRs = {}
      /\ DOMAIN hashCache = {}
  BY DEF Init
<1>4. live \in BOOLEAN
  BY Zenon DEF Init
<1>5. TransactionOK(tx)
  BY NoTransactionType, Zenon DEF Init
<1>6. QED
  BY <1>1, <1>2, <1>3, <1>4, <1>5, OffsetAssumption DEF Init, TypeOK, Locations

\* Every step keeps TypeOK.
LEMMA NextType == TypeOK /\ [Next]_vars => TypeOK'
<1> SUFFICES ASSUME TypeOK, [Next]_vars PROVE TypeOK'
  OBVIOUS
<1> USE OffsetAssumption
<1>1. CASE CelestiaBlock
  BY <1>1, ContentsAssumption, MaxCelestiaAssumption DEF CelestiaBlock, TypeOK, store, loop
<1>2. CASE Start
  BY <1>2 DEF Start, TypeOK, store, loop, Locations
<1>3. ASSUME Stop PROVE TypeOK'
  <2>1. DOMAIN hashCache' = {}
    BY <1>3 DEF Stop
  <2>2. live' \in BOOLEAN
    BY <1>3, Zenon DEF Stop
  <2>3. TransactionOK(tx')
    BY <1>3, NoTransactionType, Zenon DEF Stop
  <2>4. QED
    BY <1>3, <2>1, <2>2, <2>3 DEF Stop, TypeOK, store, Locations
<1>4. CASE ReadFinalizedHeight
  BY <1>4 DEF ReadFinalizedHeight, TypeOK, store, Locations
<1>5. CASE CreateGenesisBlock
  <2>1. TransactionOK(tx')
    BY <1>5, NoTransactionType, GenesisType
    DEF CreateGenesisBlock, TransactionOK, NoTransaction, NewTransaction
  <2>2. QED
    BY <1>5, <2>1 DEF CreateGenesisBlock, TypeOK, store, loop, Locations, Put
<1>6. ASSUME CommitBatch, UNCHANGED <<da, live, latest, heads, hashCache>>,
             pc' \in Locations, nextHeight' \in Nat
      PROVE  TypeOK'
  <2>1. PICK b \in tx.block, hash \in tx.hash :
          /\ blocks' = Put(blocks, b.height, b)
          /\ blockHashes' = Put(blockHashes, hash, b.height)
          /\ stateMMRs' = IF tx.mmr = {} THEN stateMMRs
                          ELSE Put(stateMMRs, b.height, CHOOSE m \in tx.mmr : TRUE)
          /\ prevBlock' = {b}
    BY <1>6 DEF CommitBatch
  <2>2. BlockOK(b) /\ b.height \in Nat
    BY DEF TypeOK, TransactionOK, BlockOK
  <2>3. DOMAIN blocks' \subseteq Nat /\ \A h \in DOMAIN blocks' : BlockOK(blocks'[h])
    BY <2>1, <2>2 DEF TypeOK, Put
  <2>4. \A x \in DOMAIN blockHashes' : blockHashes'[x] \in Nat
    BY <2>1, <2>2 DEF TypeOK, Put
  <2>5. DOMAIN stateMMRs' \subseteq Nat
    BY <2>1, <2>2 DEF TypeOK, Put
  <2>6. finalizedHeight' \in Nat
    BY <1>6 DEF CommitBatch, TypeOK, TransactionOK
  <2>7. chunks' \subseteq Blob
    <3>1. \A i \in DOMAIN tx.chunks : tx.chunks[i] \in BlobIdentifier
      BY DEF TypeOK, TransactionOK
    <3>2. Commitments(tx.chunks) \subseteq Blob
      BY <3>1 DEF Commitments, BlobIdentifier
    <3>3. QED
      BY <1>6, <3>2 DEF CommitBatch, TypeOK
  <2>8. fileManifests' \subseteq BlobIdentifier /\ dirManifests' \subseteq BlobIdentifier
    BY <1>6 DEF CommitBatch, TypeOK, TransactionOK, SeqRange
  <2>9. TransactionOK(tx')
    BY <1>6, NoTransactionType DEF CommitBatch
  <2>10. QED
    BY <1>6, <2>1, <2>2, <2>3, <2>4, <2>5, <2>6, <2>7, <2>8, <2>9 DEF TypeOK
<1>7. CASE LatestHeight
  BY <1>7 DEF LatestHeight, TypeOK, store, Locations
<1>8. ASSUME BeginBlock, nextHeight + Offset <= Len(da)
      PROVE  TransactionOK(tx') /\ pc' \in Locations
  <2>1. da[nextHeight + Offset] \in Seq(Blob)
    BY <1>8 DEF TypeOK
  <2>2. QED
    BY <1>8, <2>1, NewTransactionType DEF BeginBlock, Locations
<1>9. CASE CatchUp
  <2>1. latest' \in 0..Len(da)
    BY <1>9 DEF CatchUp, TypeOK
  <2>2. TransactionOK(tx') /\ pc' \in Locations
    BY <1>8, <1>9, <2>1 DEF CatchUp, TypeOK, Locations
  <2>3. QED
    BY <1>9, <2>1, <2>2 DEF CatchUp, TypeOK, store
<1>10. CASE Subscribe
  BY <1>10 DEF Subscribe, TypeOK, store, Locations
<1>11. CASE ReceiveHead
  BY <1>11 DEF ReceiveHead, TypeOK, store, Locations
<1>12. CASE FollowHead
  <2>1. TransactionOK(tx') /\ pc' \in Locations
    BY <1>8, <1>12 DEF FollowHead, TypeOK, Locations
  <2>2. QED
    BY <1>12, <2>1 DEF FollowHead, TypeOK, store, loop
<1>13. ASSUME NEW k, NextBlob(k)
       PROVE  BlobId(Head(tx.blobs)) \in BlobIdentifier /\ Tail(tx.blobs) \in Seq(Blob)
  BY <1>13 DEF NextBlob, TypeOK, TransactionOK, BlobId, BlobIdentifier
<1>14. CASE SyncChunk
  <2>1. TransactionOK(tx')
    BY <1>13, <1>14 DEF SyncChunk, TypeOK, TransactionOK, NoTransaction, NewTransaction
  <2>2. QED
    BY <1>14, <2>1 DEF SyncChunk, TypeOK, store, loop
<1>15. CASE SyncFileManifest
  <2>1. TransactionOK(tx')
    BY <1>13, <1>15 DEF SyncFileManifest, TypeOK, TransactionOK, NoTransaction, NewTransaction
  <2>2. QED
    BY <1>15, <2>1 DEF SyncFileManifest, TypeOK, store, loop
<1>16. CASE SyncDirectoryManifest
  <2>1. TransactionOK(tx')
    BY <1>13, <1>16
    DEF SyncDirectoryManifest, TypeOK, TransactionOK, NoTransaction, NewTransaction
  <2>2. QED
    BY <1>16, <2>1 DEF SyncDirectoryManifest, TypeOK, store, loop
<1>17. CASE ProduceBlock
  <2>1. BlockOK([NewBlock(tx.dirs, tx.files, tx.chunks) EXCEPT
                   !.height = nextHeight, !.celestiaHeight = nextHeight + Offset])
    BY NewBlockType DEF TypeOK, TransactionOK, BlockOK, NewBlock, GenesisBlock
  <2>2. TransactionOK(tx')
    BY <1>17, <2>1 DEF ProduceBlock, TypeOK, TransactionOK, NoTransaction, NewTransaction
  <2>3. QED
    BY <1>17, <2>2 DEF ProduceBlock, TypeOK, store, loop, Locations
<1>18. CASE ApplyBlock
  <2>0. PICK p \in PreviousBlock, b \in tx.block : \E ph, sr, hash, m :
          /\ tx' = [tx EXCEPT !.block = {[b EXCEPT !.parentHash = ph, !.stateRoot = sr]},
                              !.hash = {hash}, !.mmr = m]
          /\ hashCache' = Put(Put(hashCache, p.height, ph), b.height, hash)
    BY <1>18 DEF ApplyBlock
  <2>1. PICK ph, sr, hash, m :
          /\ tx' = [tx EXCEPT !.block = {[b EXCEPT !.parentHash = ph, !.stateRoot = sr]},
                              !.hash = {hash}, !.mmr = m]
          /\ hashCache' = Put(Put(hashCache, p.height, ph), b.height, hash)
    BY <2>0
  <2>2. BlockOK(p) /\ BlockOK(b)
    BY DEF TypeOK, TransactionOK, PreviousBlock
  <2>3. BlockOK([b EXCEPT !.parentHash = ph, !.stateRoot = sr])
    BY <2>2 DEF BlockOK, NewBlock, GenesisBlock
  <2>4. TransactionOK(tx')
    BY <2>1, <2>3 DEF TypeOK, TransactionOK, NoTransaction, NewTransaction
  <2>5. DOMAIN hashCache' \subseteq Nat
    BY <2>1, <2>2 DEF TypeOK, BlockOK, Put
  <2>6. QED
    BY <1>18, <2>4, <2>5 DEF ApplyBlock, TypeOK, store, loop, Locations
<1>19. CASE FinalizeBlock
  <2>1. TransactionOK(tx')
    BY <1>19 DEF FinalizeBlock, TypeOK, TransactionOK, NoTransaction, NewTransaction
  <2>2. QED
    BY <1>19, <2>1 DEF FinalizeBlock, TypeOK, store, loop, Locations
<1>20. CASE PublishNewHeader
  BY <1>20 DEF PublishNewHeader, TypeOK, store, Locations
<1>21. CASE \E h \in DOMAIN blocks : GetBlockByHeight(h)
  BY <1>21 DEF GetBlockByHeight, TypeOK, store, loop, Put
<1>22. CASE CommitGenesis
  BY <1>6, <1>22 DEF CommitGenesis, Locations
<1>23. CASE Commit
  BY <1>6, <1>23 DEF Commit, TypeOK, Locations
<1>24. CASE UNCHANGED vars
  BY <1>24 DEF vars, TypeOK, store, loop
<1>25. QED
  BY <1>1, <1>2, <1>3, <1>4, <1>5, <1>7, <1>9, <1>10, <1>11, <1>12, <1>14, <1>15, <1>16,
     <1>17, <1>18, <1>19, <1>20, <1>21, <1>22, <1>23, <1>24
  DEF Next, SyncChain, Crash, SyncInvalidBlob, ApplyBlockError

\* The type invariant of the node holds in every reachable state, for every
\* namespace, offset and bound: no step leaves a malformed transaction, block
\* or counter behind, and a Celestia height past the head is never fetched.
THEOREM TypeCorrect == Spec => []TypeOK
BY InitType, NextType, PTL DEF Spec

-----------------------------------------------------------------------------
(* Facts about the staged block and about the reads of the chain state. *)

\* The fields of the block a transaction stages.
LEMMA ProducedFields ==
  /\ ProducedBlock.height = nextHeight
  /\ ProducedBlock.dirs = tx.dirs
  /\ ProducedBlock.files = tx.files
  /\ ProducedBlock.chunks = tx.chunks
BY DEF ProducedBlock, NewBlock

LEMMA AppliedFields ==
  /\ AppliedBlock.height = nextHeight
  /\ AppliedBlock.celestiaHeight = nextHeight + Offset
  /\ AppliedBlock.dirs = tx.dirs
  /\ AppliedBlock.files = tx.files
  /\ AppliedBlock.chunks = tx.chunks
  /\ AppliedBlock.parentHash = HeaderHash(blocks[nextHeight - 1])
  /\ AppliedBlock.stateRoot =
       MMRRoot(GetStateMMR(nextHeight - 1) \o NewLeaves(ProducedBlock))
  /\ NewLeaves(AppliedBlock) = NewLeaves(ProducedBlock)
BY DEF AppliedBlock, ProducedBlock, NewBlock, NewLeaves

\* A header hash determines the height of its block.
LEMMA HeaderHashHeight ==
  ASSUME NEW a, NEW b, HeaderHash(a) = HeaderHash(b)
  PROVE  a.height = b.height
BY DEF HeaderHash, HashBytes, HeaderBytes

\* A state root gives back the leaves it commits to.
LEMMA RootLeavesOfRoot ==
  ASSUME NEW l
  PROVE  RootLeaves(MMRRoot(l)) = l
BY DEF RootLeaves, MMRRoot, ZeroHash

\* The leaves a block adds are a sequence.
LEMMA NewLeavesSeq ==
  ASSUME NEW b, NEW S, b.dirsRoot \in S, b.filesRoot \in S, b.chunksRoot \in S
  PROVE  NewLeaves(b) \in Seq(S)
BY DEF NewLeaves, Leaf

\* Stored blocks and the staged one, while a height is being derived.
LEMMA NextHeightIsNew ==
  ASSUME TypeOK, FinalizedPrefix, ControlInv, pc \in InBlock
  PROVE  /\ nextHeight = finalizedHeight + 1
         /\ DOMAIN blocks = 0..finalizedHeight
         /\ nextHeight - 1 \in DOMAIN blocks
         /\ nextHeight \notin DOMAIN blocks
<1>1. nextHeight = finalizedHeight + 1 /\ 0 \in DOMAIN blocks
  BY DEF ControlInv, InBlock, AtRest
<1>2. DOMAIN blocks = 0..finalizedHeight
  BY <1>1 DEF FinalizedPrefix
<1>3. QED
  BY <1>1, <1>2 DEF TypeOK

-----------------------------------------------------------------------------
(* The initial states. *)

LEMMA InitInv == Init => IInv
<1> SUFFICES ASSUME Init PROVE IInv
  OBVIOUS
<1>1. TypeOK
  BY InitType
<1>2. /\ DOMAIN blocks = {} /\ DOMAIN blockHashes = {} /\ DOMAIN stateMMRs = {}
      /\ DOMAIN hashCache = {} /\ SeqRange(<<>>) = {}
  BY DEF Init, SeqRange
<1>3. FinalizedPrefix
  BY <1>1, <1>2, OffsetAssumption DEF Init, FinalizedPrefix, TypeOK
<1>4. ControlInv
  BY <1>2 DEF Init, ControlInv, AtRest, InBlock
<1>5. tx.files = <<>> /\ tx.dirs = <<>> /\ tx.chunks = <<>>
  BY DEF Init, NoTransaction, NewTransaction
<1>6. AcceptedInv
  BY <1>2, <1>5 DEF AcceptedInv
<1>7. StagedInv
  BY DEF Init, StagedInv
<1>8. CacheInv /\ SnapshotInv /\ ParentLinked /\ HashIndexExact /\ StateRootExtends
      /\ ReferencesResolved /\ GenesisInv
  BY <1>2 DEF CacheInv, SnapshotInv, ParentLinked, HashIndexExact, StateRootExtends,
     ReferencesResolved, GenesisInv
<1>9. StoreMatchesBlocks
  BY <1>2 DEF Init, StoreMatchesBlocks
<1>10. QED
  BY <1>1, <1>3, <1>4, <1>6, <1>7, <1>8, <1>9 DEF IInv

-----------------------------------------------------------------------------
(* Steps that leave the store alone. *)

\* The invariants about the store hold on as long as it does not change.
LEMMA StoreUnchanged ==
  ASSUME IInv, UNCHANGED store, TypeOK', Len(da') >= Len(da)
  PROVE  /\ FinalizedPrefix' /\ GenesisInv' /\ SnapshotInv' /\ ParentLinked'
         /\ HashIndexExact' /\ StateRootExtends' /\ ReferencesResolved'
         /\ StoreMatchesBlocks'
<1> USE DEF IInv, store
<1>1. FinalizedPrefix'
  BY OffsetAssumption DEF FinalizedPrefix, TypeOK
<1>2. GenesisInv' /\ ParentLinked' /\ HashIndexExact' /\ StateRootExtends'
  BY DEF GenesisInv, ParentLinked, HashIndexExact, StateRootExtends
<1>3. SnapshotInv'
  <2>1. \A h : HasStateMMR(h)' = HasStateMMR(h) /\ GetStateMMR(h)' = GetStateMMR(h)
    BY DEF HasStateMMR, GetStateMMR
  <2>2. \A h, k : LatestSnapshot(h, k)' = LatestSnapshot(h, k)
    BY DEF LatestSnapshot
  <2>3. QED
    BY <2>1, <2>2 DEF SnapshotInv
<1>4. ReferencesResolved'
  BY DEF ReferencesResolved
<1>5. StoreMatchesBlocks'
  BY DEF StoreMatchesBlocks
<1>6. QED
  BY <1>1, <1>2, <1>3, <1>4, <1>5

\* The staged block depends only on the store, the height and the accepted lists.
LEMMA StagedUnchanged ==
  ASSUME UNCHANGED <<store, nextHeight>>, tx'.dirs = tx.dirs, tx'.files = tx.files,
         tx'.chunks = tx.chunks
  PROVE  /\ ProducedBlock' = ProducedBlock
         /\ AppliedBlock' = AppliedBlock
         /\ GetStateMMR(nextHeight - 1)' = GetStateMMR(nextHeight - 1)
         /\ HasStateMMR(nextHeight - 1)' = HasStateMMR(nextHeight - 1)
<1>1. ProducedBlock' = ProducedBlock
  BY DEF ProducedBlock
<1>2. GetStateMMR(nextHeight - 1)' = GetStateMMR(nextHeight - 1)
  BY DEF GetStateMMR, store
<1>3. HasStateMMR(nextHeight - 1)' = HasStateMMR(nextHeight - 1)
  BY DEF HasStateMMR, store
<1>4. AppliedBlock' = AppliedBlock
  BY <1>1, <1>2 DEF AppliedBlock, store
<1>5. QED
  BY <1>1, <1>2, <1>3, <1>4

LEMMA StagedInvUnchanged ==
  ASSUME StagedInv, UNCHANGED <<store, nextHeight, tx, pc>>
  PROVE  StagedInv'
<1>1. /\ ProducedBlock' = ProducedBlock
      /\ AppliedBlock' = AppliedBlock
      /\ GetStateMMR(nextHeight - 1)' = GetStateMMR(nextHeight - 1)
      /\ HasStateMMR(nextHeight - 1)' = HasStateMMR(nextHeight - 1)
  BY StagedUnchanged
<1>2. QED
  BY <1>1 DEF StagedInv

\* The part of the invariant about the process.
ProcessInv == ControlInv /\ AcceptedInv /\ StagedInv /\ CacheInv

\* Celestia and the readers of the gRPC server do not disturb the process.
LEMMA EnvironmentStep ==
  ASSUME IInv, CelestiaBlock \/ (\E h \in DOMAIN blocks : GetBlockByHeight(h))
               \/ UNCHANGED vars
  PROVE  ProcessInv'
<1> USE DEF IInv, store, loop
<1>1. CASE CelestiaBlock
  <2>1. Len(da') >= Len(da) /\ Len(da) \in Nat
    BY <1>1, ContentsAssumption DEF CelestiaBlock, TypeOK
  <2>2. ControlInv'
    BY <1>1, <2>1, OffsetAssumption DEF CelestiaBlock, ControlInv, TypeOK
  <2>3. AcceptedInv'
    BY <1>1 DEF CelestiaBlock, AcceptedInv
  <2>4. StagedInv'
    BY <1>1, StagedInvUnchanged DEF CelestiaBlock
  <2>5. CacheInv'
    BY <1>1 DEF CelestiaBlock, CacheInv
  <2>6. QED
    BY <2>2, <2>3, <2>4, <2>5 DEF ProcessInv
<1>2. ASSUME NEW h \in DOMAIN blocks, GetBlockByHeight(h) PROVE ProcessInv'
  <2>1. ControlInv'
    BY <1>2 DEF GetBlockByHeight, ControlInv
  <2>2. AcceptedInv'
    BY <1>2 DEF GetBlockByHeight, AcceptedInv
  <2>3. StagedInv'
    BY <1>2, StagedInvUnchanged DEF GetBlockByHeight
  <2>4. CacheInv'
    <3>1. Hash(blocks[h], hashCache) = HeaderHash(blocks[h])
      BY DEF Hash, CacheInv, FinalizedPrefix
    <3>2. QED
      BY <1>2, <3>1 DEF GetBlockByHeight, CacheInv, Put
  <2>5. QED
    BY <2>1, <2>2, <2>3, <2>4 DEF ProcessInv
<1>3. CASE UNCHANGED vars
  <2>1. StagedInv'
    BY <1>3, StagedInvUnchanged DEF vars
  <2>2. ControlInv' /\ AcceptedInv' /\ CacheInv'
    BY <1>3 DEF vars, ControlInv, AcceptedInv, CacheInv
  <2>3. QED
    BY <2>1, <2>2 DEF ProcessInv
<1>4. QED
  BY <1>1, <1>2, <1>3

\* Steps at rest, and between heights.
LEMMA IdleStep ==
  ASSUME IInv, TypeOK',
         Start \/ Stop \/ ReadFinalizedHeight \/ CreateGenesisBlock \/ LatestHeight
         \/ CatchUp \/ Subscribe \/ ReceiveHead \/ FollowHead \/ PublishNewHeader
  PROVE  ProcessInv'
<1> USE DEF IInv, store, loop
<1>1. CASE Start
  BY <1>1 DEF Start, ProcessInv, ControlInv, AcceptedInv, StagedInv, CacheInv, AtRest, InBlock
<1>2. CASE Stop
  <2>1. DOMAIN hashCache' = {} /\ SeqRange(<<>>) = {}
    BY <1>2 DEF Stop, SeqRange
  <2>2. tx'.files = <<>> /\ tx'.dirs = <<>> /\ tx'.chunks = <<>>
    BY <1>2 DEF Stop, NoTransaction, NewTransaction
  <2>3. AcceptedInv'
    BY <2>1, <2>2 DEF AcceptedInv
  <2>4. ControlInv' /\ StagedInv' /\ CacheInv'
    BY <1>2, <2>1 DEF Stop, ControlInv, StagedInv, CacheInv, AtRest, InBlock
  <2>5. QED
    BY <2>3, <2>4 DEF ProcessInv
<1>3. CASE ReadFinalizedHeight
  <2>1. 0 \in DOMAIN blocks
    BY <1>3 DEF ReadFinalizedHeight, FinalizedPrefix, TypeOK
  <2>2. QED
    BY <1>3, <2>1 DEF ReadFinalizedHeight, ProcessInv, ControlInv, AcceptedInv, StagedInv,
       CacheInv, AtRest, InBlock
<1>4. CASE CreateGenesisBlock
  <2>1. Hash(GenesisBlock, hashCache) = HeaderHash(GenesisBlock)
    BY <1>4 DEF CreateGenesisBlock, CacheInv, GenesisInv, Hash, GenesisBlock, NewBlock
  <2>2. /\ tx'.files = <<>> /\ tx'.dirs = <<>> /\ tx'.chunks = <<>> /\ tx'.mmr = {}
        /\ tx'.finalized = {} /\ tx'.block = {GenesisBlock}
        /\ tx'.hash = {HeaderHash(GenesisBlock)}
        /\ hashCache' = Put(hashCache, 0, HeaderHash(GenesisBlock))
    BY <1>4, <2>1 DEF CreateGenesisBlock, NewTransaction
  <2>3. SeqRange(<<>>) = {} /\ GenesisBlock.height = 0
    BY DEF SeqRange, GenesisBlock, NewBlock
  <2>4. ControlInv'
    BY <1>4 DEF CreateGenesisBlock, ControlInv, AtRest, InBlock
  <2>5. AcceptedInv'
    BY <2>2, <2>3 DEF AcceptedInv
  <2>6. StagedInv'
    BY <1>4, <2>2 DEF CreateGenesisBlock, StagedInv
  <2>7. CacheInv'
    BY <1>4, <2>2, <2>3 DEF CreateGenesisBlock, CacheInv, Put, GenesisInv
  <2>8. QED
    BY <2>4, <2>5, <2>6, <2>7 DEF ProcessInv
<1>5. CASE LatestHeight
  BY <1>5 DEF LatestHeight, ProcessInv, ControlInv, AcceptedInv, StagedInv, CacheInv,
     AtRest, InBlock
<1>6. ASSUME pc = "loop", pc' \in {"subscribe", "heads"}, UNCHANGED <<da, store, nextHeight>>,
             UNCHANGED <<prevBlock, tx, hashCache>>
      PROVE  ProcessInv'
  BY <1>6 DEF ProcessInv, ControlInv, AcceptedInv, StagedInv, CacheInv, AtRest, InBlock
<1>7. ASSUME pc = "loop", BeginBlock, nextHeight + Offset <= Len(da),
             UNCHANGED <<da, store, nextHeight, prevBlock, hashCache>>
      PROVE  ProcessInv'
  <2>1. /\ tx'.files = <<>> /\ tx'.dirs = <<>> /\ tx'.chunks = <<>> /\ tx'.finalized = {}
        /\ pc' = "blobs"
    BY <1>7 DEF BeginBlock, NewTransaction
  <2>2. SeqRange(<<>>) = {}
    BY DEF SeqRange
  <2>3. ControlInv'
    BY <1>7, <2>1 DEF ControlInv, AtRest, InBlock
  <2>4. AcceptedInv'
    BY <2>1, <2>2 DEF AcceptedInv
  <2>5. StagedInv' /\ CacheInv'
    BY <1>7, <2>1 DEF StagedInv, CacheInv
  <2>6. QED
    BY <2>3, <2>4, <2>5 DEF ProcessInv
<1>8. CASE CatchUp
  <2>1. latest' <= Len(da) /\ nextHeight \in Nat /\ latest' \in Nat /\ Len(da) \in Nat
    BY <1>8 DEF CatchUp, TypeOK
  <2>2. CASE nextHeight + Offset > latest'
    BY <1>6, <1>8, <2>2 DEF CatchUp
  <2>3. CASE ~(nextHeight + Offset > latest')
    BY <1>7, <1>8, <2>1, <2>3, OffsetAssumption DEF CatchUp
  <2>4. QED
    BY <2>2, <2>3
<1>9. CASE FollowHead
  <2>1. latest <= Len(da) /\ nextHeight \in Nat /\ latest \in Nat /\ Len(da) \in Nat
    BY DEF TypeOK
  <2>2. CASE nextHeight + Offset > latest
    BY <1>6, <1>9, <2>2 DEF FollowHead
  <2>3. CASE ~(nextHeight + Offset > latest)
    BY <1>7, <1>9, <2>1, <2>3, OffsetAssumption DEF FollowHead
  <2>4. QED
    BY <2>2, <2>3
<1>10. CASE Subscribe
  BY <1>10 DEF Subscribe, ProcessInv, ControlInv, AcceptedInv, StagedInv, CacheInv,
     AtRest, InBlock
<1>11. CASE ReceiveHead
  BY <1>11 DEF ReceiveHead, ProcessInv, ControlInv, AcceptedInv, StagedInv, CacheInv,
     AtRest, InBlock
<1>12. CASE PublishNewHeader
  BY <1>12 DEF PublishNewHeader, ProcessInv, ControlInv, AcceptedInv, StagedInv, CacheInv,
     AtRest, InBlock
<1>13. QED
  BY <1>1, <1>2, <1>3, <1>4, <1>5, <1>8, <1>9, <1>10, <1>11, <1>12

\* The steps of SyncBlobs: what is recorded was accepted.
LEMMA BlobStep ==
  ASSUME IInv, SyncChunk \/ SyncFileManifest \/ SyncDirectoryManifest
  PROVE  ProcessInv'
<1> USE DEF IInv, store, loop
<1>1. /\ UNCHANGED <<da, store, pc, loop, hashCache>> /\ pc = "blobs"
      /\ tx.files \in Seq(BlobIdentifier) /\ tx.dirs \in Seq(BlobIdentifier)
      /\ tx.chunks \in Seq(BlobIdentifier) /\ DOMAIN tx = DOMAIN NoTransaction
  BY DEF SyncChunk, SyncFileManifest, SyncDirectoryManifest, NextBlob, TypeOK, TransactionOK
<1>2. tx'.finalized = tx.finalized
  BY <1>1 DEF SyncChunk, SyncFileManifest, SyncDirectoryManifest, NoTransaction, NewTransaction
<1>3. ControlInv' /\ StagedInv' /\ CacheInv'
  BY <1>1, <1>2 DEF ControlInv, StagedInv, CacheInv
<1>4. ASSUME NEW s \in Seq(BlobIdentifier), NEW x
      PROVE  SeqRange(Append(s, x)) = SeqRange(s) \cup {x}
  BY DEF SeqRange
<1>5. AcceptedInv'
  <2>1. CASE SyncChunk
    <3>1. /\ tx'.files = tx.files /\ tx'.dirs = tx.dirs
          /\ tx'.chunks = Append(tx.chunks, BlobId(Head(tx.blobs)))
      BY <1>1, <2>1 DEF SyncChunk, NoTransaction, NewTransaction
    <3>2. Commitments(tx.chunks) \subseteq Commitments(tx'.chunks)
      BY <1>1, <3>1 DEF Commitments
    <3>3. QED
      BY <1>1, <3>1, <3>2 DEF AcceptedInv, InBlock
  <2>2. CASE SyncFileManifest
    <3> DEFINE f == Head(tx.blobs)
    <3>1. /\ tx'.dirs = tx.dirs /\ tx'.chunks = tx.chunks
          /\ tx'.files = IF FileAccepted(f) THEN Append(tx.files, BlobId(f)) ELSE tx.files
      BY <1>1, <2>2 DEF SyncFileManifest, NoTransaction, NewTransaction
    <3>2. \A id \in SeqRange(tx'.files) :
            id \in SeqRange(tx.files) \/ (FileAccepted(f) /\ id = BlobId(f))
      BY <1>1, <1>4, <3>1
    <3>3. Envelope[f].kind = "file" /\ BlobId(f).commitment = f
      BY <2>2 DEF SyncFileManifest, NextBlob, BlobId
    <3>4. FileAccepted(f) =>
            /\ Commitments(Envelope[f].chunks) \subseteq chunks \cup Commitments(tx.chunks)
            /\ FileMatches(f)
      BY DEF FileAccepted, GetChunk
    <3>5. QED
      BY <1>1, <3>1, <3>2, <3>3, <3>4 DEF AcceptedInv, InBlock
  <2>3. CASE SyncDirectoryManifest
    <3> DEFINE d == Head(tx.blobs)
    <3>1. /\ tx'.files = tx.files /\ tx'.chunks = tx.chunks
          /\ tx'.dirs = IF DirectoryAccepted(d) THEN Append(tx.dirs, BlobId(d)) ELSE tx.dirs
      BY <1>1, <2>3 DEF SyncDirectoryManifest, NoTransaction, NewTransaction
    <3>2. \A id \in SeqRange(tx'.dirs) :
            id \in SeqRange(tx.dirs) \/ (DirectoryAccepted(d) /\ id = BlobId(d))
      BY <1>1, <1>4, <3>1
    <3>3. Envelope[d].kind = "dir" /\ BlobId(d).commitment = d
      BY <2>3 DEF SyncDirectoryManifest, NextBlob, BlobId
    <3>4. DirectoryAccepted(d) =>
            FileIds(Envelope[d].files) \subseteq fileManifests /\ DirMatches(d)
      BY DEF DirectoryAccepted, GetFileManifest
    <3>5. QED
      BY <1>1, <3>1, <3>2, <3>3, <3>4 DEF AcceptedInv, InBlock
  <2>4. QED
    BY <2>1, <2>2, <2>3
<1>6. QED
  BY <1>3, <1>5 DEF ProcessInv

\* The steps that make a block of the accepted blobs.
LEMMA BlockStep ==
  ASSUME IInv, TypeOK', ProduceBlock \/ ApplyBlock \/ FinalizeBlock
  PROVE  ProcessInv'
<1> USE DEF IInv, store, loop
<1>1. /\ UNCHANGED <<da, store, loop>> /\ pc \in InBlock /\ pc' \in InBlock
      /\ DOMAIN tx = DOMAIN NoTransaction
  BY DEF ProduceBlock, ApplyBlock, FinalizeBlock, TypeOK, TransactionOK, InBlock
<1>2. tx'.files = tx.files /\ tx'.dirs = tx.dirs /\ tx'.chunks = tx.chunks
  BY <1>1 DEF ProduceBlock, ApplyBlock, FinalizeBlock, NoTransaction, NewTransaction
<1>3. ControlInv'
  BY <1>1 DEF ControlInv, AtRest, InBlock
<1>4. AcceptedInv'
  BY <1>1, <1>2 DEF AcceptedInv
<1>5. /\ ProducedBlock' = ProducedBlock
      /\ AppliedBlock' = AppliedBlock
      /\ GetStateMMR(nextHeight - 1)' = GetStateMMR(nextHeight - 1)
      /\ HasStateMMR(nextHeight - 1)' = HasStateMMR(nextHeight - 1)
  BY <1>1, <1>2, StagedUnchanged
<1>6. CASE ProduceBlock
  <2>1. tx'.block = {ProducedBlock} /\ tx'.finalized = tx.finalized /\ pc' = "apply"
        /\ pc = "blobs" /\ hashCache' = hashCache
    BY <1>1, <1>6 DEF ProduceBlock, ProducedBlock, NoTransaction, NewTransaction
  <2>2. StagedInv'
    BY <1>5, <2>1 DEF StagedInv
  <2>3. CacheInv'
    BY <1>1, <2>1 DEF CacheInv
  <2>4. QED
    BY <1>3, <1>4, <2>2, <2>3 DEF ProcessInv
<1>7. CASE ApplyBlock
  <2>1. /\ nextHeight = finalizedHeight + 1 /\ nextHeight - 1 \in DOMAIN blocks
        /\ nextHeight \notin DOMAIN blocks /\ finalizedHeight \in Nat /\ pc = "apply"
    BY <1>1, <1>7, NextHeightIsNew DEF TypeOK, ApplyBlock
  <2>2. \A p \in PreviousBlock : p = blocks[nextHeight - 1] /\ p.height = nextHeight - 1
    BY <2>1 DEF PreviousBlock, ControlInv, FinalizedPrefix
  <2>3. tx.block = {ProducedBlock}
    BY <2>1 DEF StagedInv
  <2>4. nextHeight \notin DOMAIN hashCache
    BY <2>1 DEF CacheInv
  <2> DEFINE prev   == blocks[nextHeight - 1]
             cached == Put(hashCache, nextHeight - 1, HeaderHash(prev))
             leaves == GetStateMMR(nextHeight - 1) \o NewLeaves(ProducedBlock)
  <2>5. Hash(prev, hashCache) = HeaderHash(prev)
    BY <2>1, <2>2 DEF Hash, CacheInv, FinalizedPrefix
  <2>6. Hash(AppliedBlock, cached) = HeaderHash(AppliedBlock)
    BY <2>1, <2>4, AppliedFields DEF Hash, Put
  <2>7. /\ tx' = [tx EXCEPT !.block = {AppliedBlock},
                            !.hash = {HeaderHash(AppliedBlock)},
                            !.mmr = IF NewLeaves(ProducedBlock) = <<>> THEN {} ELSE {leaves}]
        /\ hashCache' = Put(cached, nextHeight, HeaderHash(AppliedBlock))
    BY <1>7, <2>2, <2>3, <2>5, <2>6, ProducedFields DEF ApplyBlock, AppliedBlock
  <2>8. /\ tx'.block = {AppliedBlock} /\ tx'.hash = {HeaderHash(AppliedBlock)}
        /\ tx'.mmr = IF NewLeaves(ProducedBlock) = <<>> THEN {} ELSE {leaves}
        /\ tx'.finalized = tx.finalized
    BY <1>1, <2>7 DEF NoTransaction, NewTransaction
  <2>9. HasStateMMR(nextHeight - 1) /\ pc' = "finalize"
    BY <1>7 DEF ApplyBlock, Appliable
  <2>10. StagedInv'
    BY <1>5, <2>1, <2>8, <2>9 DEF StagedInv
  <2>11. CacheInv'
    BY <1>1, <2>1, <2>7, <2>8, <2>9, AppliedFields DEF CacheInv, Put
  <2>12. QED
    BY <1>3, <1>4, <2>10, <2>11 DEF ProcessInv
<1>8. CASE FinalizeBlock
  <2>1. /\ tx'.block = tx.block /\ tx'.hash = tx.hash /\ tx'.mmr = tx.mmr
        /\ tx'.finalized = {nextHeight} /\ pc = "finalize" /\ pc' = "commit"
        /\ hashCache' = hashCache
    BY <1>1, <1>8 DEF FinalizeBlock, NoTransaction, NewTransaction
  <2>2. StagedInv'
    BY <1>1, <1>5, <2>1 DEF StagedInv
  <2>3. CacheInv'
    BY <1>1, <2>1 DEF CacheInv
  <2>4. QED
    BY <1>3, <1>4, <2>2, <2>3 DEF ProcessInv
<1>9. QED
  BY <1>6, <1>7, <1>8

-----------------------------------------------------------------------------
(* The steps that write the store. *)

\* What is left of the transaction and of the location after a commit.
LEMMA CommitProcess ==
  ASSUME IInv, CommitBatch, UNCHANGED <<da, hashCache>>, pc' \in {"latest", "publish"},
         0 \in DOMAIN blocks', \A h \in DOMAIN hashCache :
           h \in DOMAIN blocks' /\ hashCache[h] = HeaderHash(blocks'[h]),
         pc' = "latest" => nextHeight' = finalizedHeight' + 1,
         pc' = "publish" => nextHeight' = finalizedHeight',
         \A p \in prevBlock' :
           finalizedHeight' \in DOMAIN blocks' /\ p = blocks'[finalizedHeight']
  PROVE  ProcessInv'
<1>1. tx'.files = <<>> /\ tx'.dirs = <<>> /\ tx'.chunks = <<>> /\ SeqRange(<<>>) = {}
  BY DEF CommitBatch, NoTransaction, NewTransaction, SeqRange
<1>2. ControlInv'
  BY DEF ControlInv, AtRest, InBlock
<1>3. AcceptedInv'
  BY <1>1 DEF AcceptedInv
<1>4. StagedInv' /\ CacheInv'
  BY DEF StagedInv, CacheInv
<1>5. QED
  BY <1>2, <1>3, <1>4 DEF ProcessInv

\* The genesis block is stored, for the first time or again.
LEMMA CommitGenesisStep ==
  ASSUME IInv, TypeOK', CommitGenesis
  PROVE  IInv'
<1> USE DEF IInv
<1>1. /\ tx.block = {GenesisBlock} /\ tx.hash = {HeaderHash(GenesisBlock)}
      /\ tx.mmr = {} /\ tx.finalized = {} /\ finalizedHeight = 0
      /\ tx.files = <<>> /\ tx.dirs = <<>> /\ tx.chunks = <<>> /\ pc = "genesis"
  BY DEF CommitGenesis, StagedInv, ControlInv, AcceptedInv, InBlock
<1>2. /\ GenesisBlock.height = 0 /\ GenesisBlock.celestiaHeight = Offset
      /\ GenesisBlock.files = <<>> /\ GenesisBlock.dirs = <<>>
      /\ GenesisBlock.chunks = <<>> /\ GenesisBlock.stateRoot = ZeroHash
      /\ SeqRange(<<>>) = {} /\ Commitments(<<>>) = {}
  BY DEF GenesisBlock, NewBlock, SeqRange, Commitments
<1>3. /\ blocks' = Put(blocks, 0, GenesisBlock)
      /\ blockHashes' = Put(blockHashes, HeaderHash(GenesisBlock), 0)
      /\ stateMMRs' = stateMMRs /\ finalizedHeight' = 0
      /\ chunks' = chunks /\ fileManifests' = fileManifests /\ dirManifests' = dirManifests
      /\ prevBlock' = {GenesisBlock} /\ UNCHANGED <<da, hashCache>>
      /\ nextHeight' = 1 /\ pc' = "latest"
  BY <1>1, <1>2 DEF CommitGenesis, CommitBatch
<1>4. DOMAIN blocks \subseteq {0}
  BY <1>1 DEF FinalizedPrefix
<1>5. DOMAIN blocks' = {0} /\ blocks'[0] = GenesisBlock
  BY <1>3, <1>4 DEF Put
<1>6. FinalizedPrefix' /\ GenesisInv'
  BY <1>2, <1>3, <1>5, OffsetAssumption DEF FinalizedPrefix, GenesisInv, TypeOK
<1>7. SnapshotInv'
  <2>1. DOMAIN stateMMRs' = {}
    BY <1>3, <1>4 DEF SnapshotInv
  <2>3. GetStateMMR(0)' = <<>>
    BY DEF GetStateMMR
  <2>4. \A h \in DOMAIN blocks' : blocks'[h].stateRoot = MMRRoot(GetStateMMR(h)')
    BY <1>2, <1>5, <2>3 DEF MMRRoot
  <2>5. QED
    BY <1>5, <2>1, <2>4 DEF SnapshotInv
<1>8. ParentLinked' /\ StateRootExtends'
  BY <1>5 DEF ParentLinked, StateRootExtends
<1>9. HashIndexExact'
  BY <1>3, <1>4, <1>5 DEF HashIndexExact, Put, GenesisInv
<1>10. ReferencesResolved'
  BY <1>2, <1>5 DEF ReferencesResolved
<1>11. StoreMatchesBlocks'
  <2>1. chunks = {} /\ fileManifests = {} /\ dirManifests = {}
    BY <1>2, <1>4 DEF StoreMatchesBlocks, GenesisInv
  <2>2. chunks' = {} /\ fileManifests' = {} /\ dirManifests' = {}
    BY <1>3, <2>1
  <2>3. \A h \in DOMAIN blocks' :
          /\ Commitments(blocks'[h].chunks) = {} /\ SeqRange(blocks'[h].files) = {}
          /\ SeqRange(blocks'[h].dirs) = {}
    BY <1>2, <1>5
  <2>4. /\ UNION {Commitments(blocks'[h].chunks) : h \in DOMAIN blocks'} = {}
        /\ UNION {SeqRange(blocks'[h].files) : h \in DOMAIN blocks'} = {}
        /\ UNION {SeqRange(blocks'[h].dirs) : h \in DOMAIN blocks'} = {}
    BY <2>3, Zenon
  <2>5. QED
    BY <2>2, <2>4 DEF StoreMatchesBlocks
<1>12. ProcessInv'
  <2>1. \A h \in DOMAIN hashCache :
          h \in DOMAIN blocks' /\ hashCache[h] = HeaderHash(blocks'[h])
    BY <1>1, <1>2, <1>4, <1>5 DEF CacheInv, GenesisInv
  <2>2. QED
    BY <1>3, <1>5, <2>1, CommitProcess DEF CommitGenesis
<1>13. QED
  BY <1>6, <1>7, <1>8, <1>9, <1>10, <1>11, <1>12 DEF ProcessInv

\* What Commit writes: one block above the finalized height, and its lists.
LEMMA CommitFacts ==
  ASSUME IInv, Commit
  PROVE  /\ finalizedHeight \in Nat /\ finalizedHeight' = nextHeight
         /\ nextHeight = finalizedHeight + 1
         /\ DOMAIN blocks = 0..finalizedHeight /\ DOMAIN blocks' = 0..nextHeight
         /\ blocks'[nextHeight] = AppliedBlock
         /\ \A h \in 0..finalizedHeight : blocks'[h] = blocks[h]
         /\ blockHashes' = Put(blockHashes, HeaderHash(AppliedBlock), nextHeight)
         /\ stateMMRs' =
              IF NewLeaves(ProducedBlock) = <<>> THEN stateMMRs
              ELSE Put(stateMMRs, nextHeight,
                       GetStateMMR(nextHeight - 1) \o NewLeaves(ProducedBlock))
         /\ chunks' = chunks \cup Commitments(tx.chunks)
         /\ fileManifests' = fileManifests \cup SeqRange(tx.files)
         /\ dirManifests' = dirManifests \cup SeqRange(tx.dirs)
         /\ prevBlock' = {AppliedBlock} /\ pc' = "publish"
         /\ UNCHANGED <<da, hashCache, nextHeight>>
<1> USE DEF IInv
<1>1. /\ tx.block = {AppliedBlock} /\ tx.hash = {HeaderHash(AppliedBlock)}
      /\ tx.mmr = IF NewLeaves(ProducedBlock) = <<>> THEN {}
                  ELSE {GetStateMMR(nextHeight - 1) \o NewLeaves(ProducedBlock)}
      /\ tx.finalized = {nextHeight} /\ pc = "commit"
  BY DEF Commit, StagedInv
<1>2. /\ nextHeight = finalizedHeight + 1 /\ DOMAIN blocks = 0..finalizedHeight
      /\ finalizedHeight \in Nat
  BY <1>1, NextHeightIsNew DEF InBlock, TypeOK
<1>3. /\ blocks' = Put(blocks, nextHeight, AppliedBlock)
      /\ blockHashes' = Put(blockHashes, HeaderHash(AppliedBlock), nextHeight)
      /\ finalizedHeight' = nextHeight
      /\ chunks' = chunks \cup Commitments(tx.chunks)
      /\ fileManifests' = fileManifests \cup SeqRange(tx.files)
      /\ dirManifests' = dirManifests \cup SeqRange(tx.dirs)
      /\ prevBlock' = {AppliedBlock} /\ pc' = "publish"
      /\ UNCHANGED <<da, hashCache, nextHeight>>
  BY <1>1, AppliedFields DEF Commit, CommitBatch
<1>4. stateMMRs' = IF NewLeaves(ProducedBlock) = <<>> THEN stateMMRs
                   ELSE Put(stateMMRs, nextHeight,
                            GetStateMMR(nextHeight - 1) \o NewLeaves(ProducedBlock))
  BY <1>1, AppliedFields DEF Commit, CommitBatch
<1>5. DOMAIN blocks' = 0..nextHeight /\ blocks'[nextHeight] = AppliedBlock
      /\ \A h \in 0..finalizedHeight : blocks'[h] = blocks[h]
  BY <1>2, <1>3 DEF Put
<1>6. QED
  BY <1>2, <1>3, <1>4, <1>5

\* A sequence over any set is one over its own elements.
LEMMA SeqIsSeq ==
  ASSUME NEW S, NEW s \in Seq(S)
  PROVE  IsSeq(s) /\ s \o <<>> = s
BY DEF IsSeq, SeqRange

\* Appending the leaves of a block to a range of leaves.
LEMMA AppendLeaves ==
  ASSUME NEW l, IsSeq(l), NEW b
  PROVE  IsSeq(l \o NewLeaves(b)) /\ (NewLeaves(b) = <<>> => l \o NewLeaves(b) = l)
<1> DEFINE S == SeqRange(l) \cup {b.dirsRoot, b.filesRoot, b.chunksRoot}
<1>1. l \in Seq(S)
  BY DEF IsSeq
<1>2. NewLeaves(b) \in Seq(S)
  BY NewLeavesSeq
<1>3. l \o NewLeaves(b) \in Seq(S)
  BY <1>1, <1>2
<1>4. QED
  BY <1>1, <1>3, SeqIsSeq

\* The latest snapshot at or before a height is the one GetStateMMR reads.
LEMMA LatestIsRead ==
  ASSUME TypeOK, NEW h \in Nat \ {0}, NEW k \in DOMAIN stateMMRs, LatestSnapshot(h, k)
  PROVE  HasStateMMR(h) /\ GetStateMMR(h) = stateMMRs[k]
<1>1. \A j \in DOMAIN stateMMRs : LatestSnapshot(h, j) => j = k
  BY DEF TypeOK, LatestSnapshot
<1>2. QED
  BY <1>1 DEF HasStateMMR, GetStateMMR, LatestSnapshot

\* Commit extends the chain by one block, and keeps the whole invariant.
LEMMA CommitStep ==
  ASSUME IInv, TypeOK', Commit
  PROVE  IInv'
<1> USE DEF IInv
<1>0. PICK n : n = nextHeight
  OBVIOUS
<1> DEFINE B   == AppliedBlock
           old == GetStateMMR(n - 1)
           new == old \o NewLeaves(ProducedBlock)
<1>1. /\ finalizedHeight \in Nat /\ finalizedHeight' = n /\ n = finalizedHeight + 1
      /\ DOMAIN blocks = 0..finalizedHeight /\ DOMAIN blocks' = 0..n
      /\ blocks'[n] = B
      /\ \A h \in 0..finalizedHeight : blocks'[h] = blocks[h]
      /\ prevBlock' = {B} /\ pc' = "publish"
      /\ UNCHANGED <<da, hashCache, nextHeight>>
  BY <1>0, CommitFacts
<1>2. /\ B.height = n /\ B.celestiaHeight = n + Offset
      /\ B.dirs = tx.dirs /\ B.files = tx.files /\ B.chunks = tx.chunks
      /\ B.parentHash = HeaderHash(blocks[n - 1]) /\ B.stateRoot = MMRRoot(new)
      /\ NewLeaves(B) = NewLeaves(ProducedBlock)
  BY <1>0, AppliedFields
<1>3. pc = "commit" /\ n + Offset <= Len(da) /\ HasStateMMR(n - 1)
  BY <1>0 DEF Commit, ControlInv, StagedInv, InBlock
<1>4. n \in Nat \ {0} /\ n - 1 \in 0..finalizedHeight /\ n - 1 \in Nat
      /\ 0..n = 0..finalizedHeight \cup {n} /\ n \notin 0..finalizedHeight
  BY <1>1
<1> HIDE DEF B, old, new
<1>5. FinalizedPrefix' /\ GenesisInv'
  BY <1>1, <1>2, <1>3, <1>4 DEF FinalizedPrefix, GenesisInv
<1>6. ParentLinked'
  <2>1. SUFFICES ASSUME NEW h \in DOMAIN blocks' \ {0}
                 PROVE  h - 1 \in DOMAIN blocks'
                        /\ blocks'[h].parentHash = HeaderHash(blocks'[h - 1])
    BY DEF ParentLinked
  <2>2. CASE h = n
    BY <1>1, <1>2, <1>4, <2>2
  <2>3. CASE h \in 0..finalizedHeight
    BY <1>1, <2>3 DEF ParentLinked
  <2>4. QED
    BY <1>1, <1>4, <2>2, <2>3
<1>7. HashIndexExact'
  <2>1. blockHashes' = Put(blockHashes, HeaderHash(B), n)
    BY <1>0, CommitFacts DEF B
  <2>2. \A h \in 0..finalizedHeight : HeaderHash(blocks[h]) # HeaderHash(B)
    BY <1>1, <1>2, <1>4, HeaderHashHeight DEF FinalizedPrefix
  <2>3. \A h \in DOMAIN blocks' :
          HeaderHash(blocks'[h]) \in DOMAIN blockHashes'
          /\ blockHashes'[HeaderHash(blocks'[h])] = h
    BY <1>1, <1>4, <2>1, <2>2 DEF HashIndexExact, Put
  <2>4. \A x \in DOMAIN blockHashes' :
          blockHashes'[x] \in DOMAIN blocks' /\ HeaderHash(blocks'[blockHashes'[x]]) = x
    BY <1>1, <1>4, <2>1, <2>2 DEF HashIndexExact, Put
  <2>5. QED
    BY <2>3, <2>4 DEF HashIndexExact
<1>8. ProcessInv'
  <2>1. \A h \in DOMAIN hashCache :
          h \in DOMAIN blocks' /\ hashCache[h] = HeaderHash(blocks'[h])
    <3>1. tx.block = {B}
      BY <1>3 DEF StagedInv, B
    <3>2. QED
      BY <1>1, <1>2, <1>3, <1>4, <3>1 DEF CacheInv
  <2>2. CommitBatch
    BY DEF Commit
  <2>3. 0 \in DOMAIN blocks' /\ nextHeight' = finalizedHeight'
        /\ \A p \in prevBlock' :
             finalizedHeight' \in DOMAIN blocks' /\ p = blocks'[finalizedHeight']
    <3>1. nextHeight' = n /\ finalizedHeight' = n
      BY <1>0, <1>1
    <3>2. 0 \in DOMAIN blocks' /\ n \in DOMAIN blocks'
      BY <1>1, <1>4
    <3>3. QED
      BY <1>1, <3>1, <3>2
  <2>4. QED
    BY <1>1, <2>1, <2>2, <2>3, CommitProcess
<1>9. StoreMatchesBlocks'
  <2>1. /\ chunks' = chunks \cup Commitments(B.chunks)
        /\ fileManifests' = fileManifests \cup SeqRange(B.files)
        /\ dirManifests' = dirManifests \cup SeqRange(B.dirs)
    BY <1>2, CommitFacts
  <2>2. chunks' = UNION {Commitments(blocks'[h].chunks) : h \in DOMAIN blocks'}
    BY <1>1, <1>4, <2>1 DEF StoreMatchesBlocks
  <2>3. fileManifests' = UNION {SeqRange(blocks'[h].files) : h \in DOMAIN blocks'}
    BY <1>1, <1>4, <2>1 DEF StoreMatchesBlocks
  <2>4. dirManifests' = UNION {SeqRange(blocks'[h].dirs) : h \in DOMAIN blocks'}
    BY <1>1, <1>4, <2>1 DEF StoreMatchesBlocks
  <2>5. QED
    BY <2>2, <2>3, <2>4 DEF StoreMatchesBlocks
<1>10. ReferencesResolved'
  <2>1. SUFFICES ASSUME NEW h \in DOMAIN blocks'
        PROVE
          /\ \A id \in SeqRange(blocks'[h].files) :
               /\ Envelope[id.commitment].kind = "file"
               /\ \A c \in Commitments(Envelope[id.commitment].chunks) :
                    \E k \in 0..h : k \in DOMAIN blocks' /\ c \in Commitments(blocks'[k].chunks)
               /\ FileMatches(id.commitment)
          /\ \A id \in SeqRange(blocks'[h].dirs) :
               /\ Envelope[id.commitment].kind = "dir"
               /\ \A f \in FileIds(Envelope[id.commitment].files) :
                    \E k \in 0..(h - 1) : k \in DOMAIN blocks' /\ f \in SeqRange(blocks'[k].files)
               /\ DirMatches(id.commitment)
    BY DEF ReferencesResolved
  <2>2. CASE h \in 0..finalizedHeight
    BY <1>1, <1>4, <2>2 DEF ReferencesResolved
  <2>3. CASE h = n
    <3>1. \A c \in chunks : \E k \in 0..n : k \in DOMAIN blocks'
            /\ c \in Commitments(blocks'[k].chunks)
      BY <1>1, <1>4 DEF StoreMatchesBlocks
    <3>2. \A c \in Commitments(tx.chunks) : \E k \in 0..n : k \in DOMAIN blocks'
            /\ c \in Commitments(blocks'[k].chunks)
      BY <1>1, <1>2, <1>4
    <3>3. \A f \in fileManifests : \E k \in 0..(n - 1) : k \in DOMAIN blocks'
            /\ f \in SeqRange(blocks'[k].files)
      BY <1>1, <1>4 DEF StoreMatchesBlocks
    <3>4. QED
      BY <1>1, <1>2, <2>3, <3>1, <3>2, <3>3 DEF AcceptedInv
  <2>4. QED
    BY <1>1, <1>4, <2>2, <2>3
<1>11. /\ stateMMRs' = IF NewLeaves(B) = <<>> THEN stateMMRs ELSE Put(stateMMRs, n, new)
       /\ \A k \in DOMAIN stateMMRs : k \in Nat /\ k < n /\ k # 0
  <2>1. stateMMRs' = IF NewLeaves(B) = <<>> THEN stateMMRs ELSE Put(stateMMRs, n, new)
    BY <1>0, <1>2, CommitFacts DEF B, new, old
  <2>2. \A k \in DOMAIN stateMMRs : k \in 0..finalizedHeight /\ k # 0
    BY <1>1 DEF SnapshotInv
  <2>3. QED
    BY <1>1, <2>1, <2>2
<1>12. /\ DOMAIN stateMMRs' \cup {n} = DOMAIN stateMMRs \cup {n}
       /\ \A k \in DOMAIN stateMMRs : k \in DOMAIN stateMMRs' /\ stateMMRs'[k] = stateMMRs[k]
       /\ n \in DOMAIN stateMMRs' <=> NewLeaves(B) # <<>>
       /\ NewLeaves(B) # <<>> => stateMMRs'[n] = new
  BY <1>4, <1>11 DEF Put
\* What was read of a lower height is still read.
<1>13. ASSUME NEW h \in Nat, h < n, NEW k
       PROVE  /\ HasStateMMR(h)' <=> HasStateMMR(h)
              /\ k \in DOMAIN stateMMRs' /\ LatestSnapshot(h, k)'
                   <=> k \in DOMAIN stateMMRs /\ LatestSnapshot(h, k)
  <2>1. \A j \in DOMAIN stateMMRs' : j <= h => j \in DOMAIN stateMMRs
    BY <1>4, <1>12, <1>13
  <2>2. QED
    BY <1>12, <2>1 DEF HasStateMMR, LatestSnapshot
<1>14. IsSeq(old) /\ blocks[n - 1].stateRoot = MMRRoot(old)
  <2>1. blocks[n - 1].stateRoot = MMRRoot(old)
    BY <1>1, <1>3, <1>4 DEF SnapshotInv, old
  <2>2. CASE n - 1 = 0
    <3>1. <<>> \in Seq({}) /\ old = <<>>
      BY <2>2 DEF old, GetStateMMR
    <3>2. QED
      BY <2>1, <3>1, SeqIsSeq
  <2>3. CASE n - 1 # 0
    <3>1. PICK k \in DOMAIN stateMMRs : LatestSnapshot(n - 1, k)
      BY <1>1, <1>3, <1>4, <2>3 DEF SnapshotInv
    <3>2. old = stateMMRs[k]
      BY <1>4, <2>3, <3>1, LatestIsRead DEF old
    <3>3. QED
      BY <2>1, <3>2 DEF SnapshotInv
  <2>4. QED
    BY <2>1, <2>2, <2>3
<1>15. IsSeq(new) /\ (NewLeaves(B) = <<>> => new = old)
  BY <1>2, <1>14, AppendLeaves DEF new
<1>16. StateRootExtends'
  <2>1. SUFFICES ASSUME NEW h \in DOMAIN blocks' \ {0}
        PROVE  /\ h - 1 \in DOMAIN blocks'
               /\ RootLeaves(blocks'[h].stateRoot) =
                    RootLeaves(blocks'[h - 1].stateRoot) \o NewLeaves(blocks'[h])
    BY DEF StateRootExtends
  <2>2. CASE h = n
    <3>1. RootLeaves(B.stateRoot) = new /\ RootLeaves(blocks[n - 1].stateRoot) = old
      BY <1>2, <1>14, RootLeavesOfRoot
    <3>2. QED
      BY <1>1, <1>2, <1>4, <2>2, <3>1 DEF new
  <2>3. CASE h \in 0..finalizedHeight
    <3>1. h - 1 \in 0..finalizedHeight
      BY <1>1, <2>1, <2>3
    <3>2. blocks'[h] = blocks[h] /\ blocks'[h - 1] = blocks[h - 1]
      BY <1>1, <2>3, <3>1
    <3>3. QED
      BY <1>1, <1>4, <2>1, <2>3, <3>1, <3>2 DEF StateRootExtends
  <2>4. QED
    BY <1>1, <1>4, <2>2, <2>3
<1>17. SnapshotInv'
  <2>1. \A k \in DOMAIN stateMMRs' : IsSeq(stateMMRs'[k]) /\ k \in DOMAIN blocks' \ {0}
    BY <1>1, <1>4, <1>12, <1>15 DEF SnapshotInv
  <2>2. ASSUME NEW h \in 0..finalizedHeight \ {0}, HasStateMMR(h)'
        PROVE  /\ \E k \in DOMAIN stateMMRs' : LatestSnapshot(h, k)'
               /\ blocks'[h].stateRoot = MMRRoot(GetStateMMR(h)')
    <3>1. h \in Nat \ {0} /\ h < n /\ HasStateMMR(h)
      BY <1>1, <1>13, <2>2
    <3>2. PICK k \in DOMAIN stateMMRs : LatestSnapshot(h, k)
      BY <1>1, <2>2, <3>1 DEF SnapshotInv
    <3>3. k \in DOMAIN stateMMRs' /\ LatestSnapshot(h, k)' /\ stateMMRs'[k] = stateMMRs[k]
      BY <1>12, <1>13, <3>1, <3>2
    <3>4. GetStateMMR(h) = stateMMRs[k]
      BY <3>1, <3>2, LatestIsRead
    <3>5. GetStateMMR(h)' = stateMMRs[k]
      <4>1. \A j \in DOMAIN stateMMRs' : LatestSnapshot(h, j)' => j = k
        BY <3>1, <3>3 DEF TypeOK, LatestSnapshot
      <4>2. QED
        BY <3>1, <3>3, <4>1 DEF GetStateMMR, LatestSnapshot
    <3>6. QED
      BY <1>1, <2>2, <3>1, <3>3, <3>4, <3>5 DEF SnapshotInv
  <2>3. blocks'[0].stateRoot = MMRRoot(GetStateMMR(0)')
    <3>1. blocks'[0] = blocks[0] /\ 0 \in DOMAIN blocks
      BY <1>1
    <3>2. HasStateMMR(0) /\ GetStateMMR(0) = <<>> /\ GetStateMMR(0)' = <<>>
      BY DEF HasStateMMR, GetStateMMR
    <3>3. QED
      BY <3>1, <3>2 DEF SnapshotInv
  <2>4. ASSUME HasStateMMR(n)'
        PROVE  /\ \E k \in DOMAIN stateMMRs' : LatestSnapshot(n, k)'
               /\ blocks'[n].stateRoot = MMRRoot(GetStateMMR(n)')
    <3>1. PICK k \in DOMAIN stateMMRs' : LatestSnapshot(n, k)' /\ stateMMRs'[k] = new
      <4>1. CASE NewLeaves(B) # <<>>
        BY <1>4, <1>11, <1>12, <4>1 DEF LatestSnapshot
      <4>2. CASE NewLeaves(B) = <<>>
        <5>1. stateMMRs' = stateMMRs /\ new = old
          BY <1>11, <1>15, <4>2
        <5>2. \E k \in DOMAIN stateMMRs : k <= n
          BY <1>4, <2>4, <5>1 DEF HasStateMMR
        <5>3. n - 1 # 0 /\ n - 1 \in DOMAIN blocks \ {0}
          BY <1>1, <1>4, <1>11, <5>2
        <5>4. PICK k \in DOMAIN stateMMRs : LatestSnapshot(n - 1, k)
          BY <1>3, <5>3 DEF SnapshotInv
        <5>5. old = stateMMRs[k]
          BY <1>4, <5>3, <5>4, LatestIsRead DEF old
        <5>6. LatestSnapshot(n, k)
          BY <1>1, <1>11, <5>4 DEF LatestSnapshot
        <5>7. QED
          BY <5>1, <5>4, <5>5, <5>6 DEF LatestSnapshot
      <4>3. QED
        BY <4>1, <4>2
    <3>2. \A j \in DOMAIN stateMMRs' : LatestSnapshot(n, j)' => j = k
      BY <1>4, <3>1 DEF TypeOK, LatestSnapshot
    <3>3. GetStateMMR(n)' = new
      BY <1>4, <3>1, <3>2 DEF GetStateMMR, LatestSnapshot
    <3>4. QED
      BY <1>1, <1>2, <3>1, <3>3
  <2>5. QED
    BY <1>1, <1>4, <2>1, <2>2, <2>3, <2>4 DEF SnapshotInv
<1>18. QED
  BY <1>5, <1>6, <1>7, <1>8, <1>9, <1>10, <1>16, <1>17 DEF ProcessInv

-----------------------------------------------------------------------------
(* The invariant is inductive. *)

LEMMA NextInv == IInv /\ [Next]_vars => IInv'
<1> SUFFICES ASSUME IInv, [Next]_vars PROVE IInv'
  OBVIOUS
<1>1. TypeOK'
  BY NextType DEF IInv
<1>2. CASE CommitGenesis
  BY <1>1, <1>2, CommitGenesisStep
<1>3. CASE Commit
  BY <1>1, <1>3, CommitStep
<1>4. ASSUME UNCHANGED store, Len(da') >= Len(da), ProcessInv' PROVE IInv'
  BY <1>1, <1>4, StoreUnchanged DEF IInv, ProcessInv
<1>5. Len(da) \in Nat
  BY DEF IInv, TypeOK
<1>6. CASE CelestiaBlock
  <2>1. Len(da') >= Len(da)
    BY <1>5, <1>6, ContentsAssumption DEF CelestiaBlock, IInv, TypeOK
  <2>2. UNCHANGED store
    BY <1>6 DEF CelestiaBlock
  <2>3. QED
    BY <1>4, <1>6, <2>1, <2>2, EnvironmentStep
<1>7. CASE UNCHANGED vars \/ \E h \in DOMAIN blocks : GetBlockByHeight(h)
  <2>1. UNCHANGED <<da, store>>
    BY <1>7 DEF vars, GetBlockByHeight
  <2>2. QED
    BY <1>4, <1>5, <1>7, <2>1, EnvironmentStep
<1>8. CASE \/ Start \/ Stop \/ ReadFinalizedHeight \/ CreateGenesisBlock \/ LatestHeight
           \/ CatchUp \/ Subscribe \/ ReceiveHead \/ FollowHead \/ PublishNewHeader
  <2>1. UNCHANGED <<da, store>>
    BY <1>8 DEF Start, Stop, ReadFinalizedHeight, CreateGenesisBlock, LatestHeight, CatchUp,
       Subscribe, ReceiveHead, FollowHead, PublishNewHeader
  <2>2. QED
    BY <1>1, <1>4, <1>5, <1>8, <2>1, IdleStep
<1>9. CASE SyncChunk \/ SyncFileManifest \/ SyncDirectoryManifest
  <2>1. UNCHANGED <<da, store>>
    BY <1>9 DEF SyncChunk, SyncFileManifest, SyncDirectoryManifest
  <2>2. QED
    BY <1>1, <1>4, <1>5, <1>9, <2>1, BlobStep
<1>10. CASE ProduceBlock \/ ApplyBlock \/ FinalizeBlock
  <2>1. UNCHANGED <<da, store>>
    BY <1>10 DEF ProduceBlock, ApplyBlock, FinalizeBlock
  <2>2. QED
    BY <1>1, <1>4, <1>5, <1>10, <2>1, BlockStep
<1>11. QED
  BY <1>2, <1>3, <1>6, <1>7, <1>8, <1>9, <1>10
  DEF Next, SyncChain, Crash, SyncInvalidBlob, ApplyBlockError

LEMMA Invariance == Spec => []IInv
BY InitInv, NextInv, PTL DEF Spec

-----------------------------------------------------------------------------
(* The theorems. *)

\* Wherever the process is killed, the stored blocks are the heights up to the
\* finalized one, and each is the block of its own Celestia height.
THEOREM PrefixTheorem == Spec => []FinalizedPrefix
<1>1. IInv => FinalizedPrefix
  BY DEF IInv
<1>2. QED
  BY <1>1, Invariance, PTL

\* Every block names its parent by the hash the parent's stored header really
\* has, although ApplyBlock takes that hash from a cache keyed by height only.
THEOREM ParentTheorem == Spec => []ParentLinked
<1>1. IInv => ParentLinked
  BY DEF IInv
<1>2. QED
  BY <1>1, Invariance, PTL

\* The hash index finds every block under the hash of its stored header, and
\* nothing else, although PutBlock writes it from the same cache.
THEOREM HashTheorem == Spec => []HashIndexExact
<1>1. IInv => HashIndexExact
  BY DEF IInv
<1>2. QED
  BY <1>1, Invariance, PTL

\* Each state root extends the one below it by the block's own roots, whichever
\* heights have a snapshot and wherever the process was restarted.
THEOREM StateRootTheorem == Spec => []StateRootExtends
<1>1. IInv => StateRootExtends
  BY DEF IInv
<1>2. QED
  BY <1>1, Invariance, PTL

\* The store serves exactly the chunks and the manifests that the blocks record.
THEOREM AvailabilityTheorem == Spec => []StoreMatchesBlocks
<1>1. IInv => StoreMatchesBlocks
  BY DEF IInv
<1>2. QED
  BY <1>1, Invariance, PTL

\* Every recorded manifest can be resolved from what was recorded before it and
\* matches it, for any blobs that anyone puts into the namespace.
THEOREM ReferencesTheorem == Spec => []ReferencesResolved
<1>1. IInv => ReferencesResolved
  BY DEF IInv
<1>2. QED
  BY <1>1, Invariance, PTL

\* A chain with a second block has recorded something in its first.
FirstRecorded == finalizedHeight >= 2 => 1 \in DOMAIN stateMMRs

LEMMA NextFirst == IInv /\ FirstRecorded /\ [Next]_vars => FirstRecorded'
<1> SUFFICES ASSUME IInv, FirstRecorded, [Next]_vars PROVE FirstRecorded'
  OBVIOUS
<1>1. CASE UNCHANGED store
  BY <1>1 DEF FirstRecorded, store
<1>2. CASE CommitGenesis
  <2>1. tx.finalized = {} /\ finalizedHeight = 0
    BY <1>2 DEF CommitGenesis, IInv, StagedInv, ControlInv
  <2>2. finalizedHeight' = 0
    BY <1>2, <2>1 DEF CommitGenesis, CommitBatch
  <2>3. QED
    BY <2>2 DEF FirstRecorded
<1>3. CASE Commit
  <2>1. /\ finalizedHeight \in Nat /\ finalizedHeight' = finalizedHeight + 1
        /\ DOMAIN stateMMRs \subseteq DOMAIN stateMMRs' /\ nextHeight = finalizedHeight + 1
    BY <1>3, CommitFacts DEF Put
  <2>2. HasStateMMR(nextHeight - 1)
    BY <1>3 DEF Commit, IInv, StagedInv
  <2>3. CASE finalizedHeight >= 2
    BY <2>1, <2>3 DEF FirstRecorded
  <2>4. CASE finalizedHeight = 1
    <3>1. PICK k \in DOMAIN stateMMRs : k <= 1
      BY <2>1, <2>2, <2>4 DEF HasStateMMR
    <3>2. k \in Nat /\ k # 0
      BY DEF IInv, SnapshotInv, TypeOK
    <3>3. k = 1
      BY <3>1, <3>2
    <3>4. QED
      BY <2>1, <3>1, <3>3 DEF FirstRecorded
  <2>5. CASE finalizedHeight = 0
    BY <2>1, <2>5 DEF FirstRecorded
  <2>6. QED
    BY <2>1, <2>3, <2>4, <2>5
<1>4. QED
  BY <1>1, <1>2, <1>3
  DEF Next, SyncChain, CelestiaBlock, Start, Crash, Stop, ReadFinalizedHeight, vars,
      CreateGenesisBlock, LatestHeight, CatchUp, Subscribe, ReceiveHead, FollowHead,
      SyncChunk, SyncFileManifest, SyncDirectoryManifest, SyncInvalidBlob, ProduceBlock,
      ApplyBlock, ApplyBlockError, FinalizeBlock, PublishNewHeader, GetBlockByHeight

\* ApplyBlock fails at no height of a chain whose block 1 has a snapshot, and
\* at every height after block 1 of a chain whose block 1 recorded nothing.
THEOREM ApplyTheorem == Spec => []AppliesUnlessFirstEmpty
<1>1. IInv /\ FirstRecorded => AppliesUnlessFirstEmpty
  <2> SUFFICES ASSUME IInv, FirstRecorded, pc = "apply"
               PROVE  Appliable <=> finalizedHeight = 0 \/ 1 \in DOMAIN stateMMRs
    BY DEF AppliesUnlessFirstEmpty
  <2> USE DEF IInv
  <2>1. /\ nextHeight = finalizedHeight + 1 /\ nextHeight - 1 \in DOMAIN blocks
        /\ finalizedHeight \in Nat
    BY NextHeightIsNew DEF InBlock, TypeOK
  <2>2. blocks[nextHeight - 1] \in PreviousBlock
    BY <2>1 DEF PreviousBlock, ControlInv
  <2>3. blocks[nextHeight - 1].height = nextHeight - 1
    BY <2>1 DEF FinalizedPrefix
  <2>4. Appliable <=> HasStateMMR(finalizedHeight)
    BY <2>1, <2>2, <2>3 DEF Appliable
  <2>5. CASE finalizedHeight = 0
    BY <2>4, <2>5 DEF HasStateMMR
  <2>6. CASE finalizedHeight = 1
    <3>1. \A k \in DOMAIN stateMMRs : k \in Nat /\ k # 0
      BY DEF SnapshotInv, TypeOK
    <3>2. (\E k \in DOMAIN stateMMRs : k <= 1) <=> 1 \in DOMAIN stateMMRs
      BY <3>1
    <3>3. QED
      BY <2>4, <2>6, <3>2 DEF HasStateMMR
  <2>7. CASE finalizedHeight >= 2
    <3>1. 1 \in DOMAIN stateMMRs /\ 1 <= finalizedHeight
      BY <2>1, <2>7 DEF FirstRecorded
    <3>2. QED
      BY <2>4, <3>1 DEF HasStateMMR
  <2>8. QED
    BY <2>1, <2>5, <2>6, <2>7
<1>2. Init => FirstRecorded
  BY DEF Init, FirstRecorded
<1>3. Spec => []FirstRecorded
  BY <1>2, NextFirst, Invariance, PTL DEF Spec
<1>4. QED
  BY <1>1, <1>3, Invariance, PTL

\* No step, of the node, of Celestia or of a crash, changes or removes a stored
\* block, snapshot, chunk or manifest, or moves the finalized height other
\* than to the next one.
THEOREM AppendOnlyTheorem == Spec => AppendOnly
<1> DEFINE Grows ==
      /\ \A h \in DOMAIN blocks : h \in DOMAIN blocks' /\ blocks'[h] = blocks[h]
      /\ \A h \in DOMAIN stateMMRs :
           h \in DOMAIN stateMMRs' /\ stateMMRs'[h] = stateMMRs[h]
      /\ finalizedHeight \in {finalizedHeight', finalizedHeight' - 1}
      /\ chunks \subseteq chunks'
      /\ fileManifests \subseteq fileManifests'
      /\ dirManifests \subseteq dirManifests'
<1>1. IInv /\ [Next]_vars => [Grows]_vars
  <2> SUFFICES ASSUME IInv, Next PROVE Grows
    OBVIOUS
  <2>1. CASE UNCHANGED store
    BY <2>1 DEF store
  <2>2. CASE CommitGenesis
    <3>1. /\ tx.block = {GenesisBlock} /\ GenesisBlock.height = 0
          /\ tx.mmr = {} /\ tx.finalized = {}
      BY <2>2 DEF IInv, CommitGenesis, StagedInv, GenesisBlock, NewBlock
    <3>2. blocks' = Put(blocks, 0, GenesisBlock)
      BY <2>2, <3>1 DEF CommitGenesis, CommitBatch
    <3>3. \A h \in DOMAIN blocks : h \in DOMAIN blocks' /\ blocks'[h] = blocks[h]
      BY <3>2 DEF Put, IInv, GenesisInv
    <3>4. QED
      BY <2>2, <3>1, <3>3 DEF CommitGenesis, CommitBatch
  <2>3. CASE Commit
    <3>1. \A h \in DOMAIN blocks : h \in DOMAIN blocks' /\ blocks'[h] = blocks[h]
      BY <2>3, CommitFacts
    <3>2. \A h \in DOMAIN stateMMRs : h \in DOMAIN blocks
      BY DEF IInv, SnapshotInv
    <3>3. \A h \in DOMAIN stateMMRs : h # nextHeight
      BY <2>3, <3>2, CommitFacts
    <3>4. \A h \in DOMAIN stateMMRs : h \in DOMAIN stateMMRs' /\ stateMMRs'[h] = stateMMRs[h]
      BY <2>3, <3>3, CommitFacts DEF Put
    <3>5. finalizedHeight \in {finalizedHeight', finalizedHeight' - 1}
      BY <2>3, CommitFacts
    <3>6. QED
      BY <2>3, <3>1, <3>4, <3>5, CommitFacts
  <2>4. QED
    BY <2>1, <2>2, <2>3
    DEF Next, SyncChain, CelestiaBlock, Start, Crash, Stop, ReadFinalizedHeight,
        CreateGenesisBlock, LatestHeight, CatchUp, Subscribe, ReceiveHead, FollowHead,
        SyncChunk, SyncFileManifest, SyncDirectoryManifest, SyncInvalidBlob, ProduceBlock,
        ApplyBlock, ApplyBlockError, FinalizeBlock, PublishNewHeader, GetBlockByHeight
<1>2. QED
  BY <1>1, Invariance, PTL DEF Spec, AppendOnly

-----------------------------------------------------------------------------
(***************************************************************************)
(* BlobcastChain implements RollupLedger: whatever was crashed, cached and *)
(* read back on the way, each block a node commits is the one block the    *)
(* ledger derives from the blocks below it and from one Celestia height.   *)
(***************************************************************************)

-----------------------------------------------------------------------------
(* Lists that enumerate a set of indices in increasing order. *)

\* The place of i among the members of P.
Rank(P, i) == Cardinality({j \in P : j <= i})

\* list holds ids[i] for each i of P, in the order of the indices.
Enumerates(list, P, ids) ==
  /\ Len(list) = Cardinality(P)
  /\ \A i \in P : Rank(P, i) \in 1..Len(list) /\ list[Rank(P, i)] = ids[i]
  /\ \A m \in 1..Len(list) : \E i \in P : Rank(P, i) = m

\* Appending the entry of a greater index.
LEMMA EnumeratesAppend ==
  ASSUME NEW n \in Nat, NEW P \in SUBSET (1..n), NEW S, NEW list \in Seq(S), NEW ids,
         ids[n + 1] \in S, Enumerates(list, P, ids)
  PROVE  Enumerates(Append(list, ids[n + 1]), P \cup {n + 1}, ids)
<1> DEFINE Q == P \cup {n + 1}
           new == Append(list, ids[n + 1])
<1>0. \A j \in P : j \in Nat /\ j <= n
  OBVIOUS
<1>1. IsFiniteSet(P) /\ n + 1 \notin P
  <2>1. IsFiniteSet(1..n)
    BY FS_Interval
  <2>2. IsFiniteSet(P)
    BY <2>1, FS_Subset
  <2> QED
    BY <1>0, <2>2
<1>2. IsFiniteSet(Q) /\ Cardinality(Q) = Cardinality(P) + 1 /\ Cardinality(P) \in Nat
  BY <1>1, FS_AddElement, FS_CardinalityType
<1>3. \A i \in P : Rank(Q, i) = Rank(P, i)
  <2> SUFFICES ASSUME NEW i \in P PROVE {j \in Q : j <= i} = {j \in P : j <= i}
    BY DEF Rank
  <2> QED
    OBVIOUS
<1>4. Rank(Q, n + 1) = Cardinality(Q)
  <2>1. \A j \in Q : j <= n + 1
    BY <1>0
  <2> HIDE DEF Q
  <2>2. {j \in Q : j <= n + 1} = Q
    BY <2>1
  <2> QED
    BY <2>2 DEF Rank
<1>5. /\ Len(new) = Len(list) + 1 /\ new[Len(list) + 1] = ids[n + 1]
      /\ \A m \in 1..Len(list) : new[m] = list[m]
      /\ Len(list) \in Nat /\ Len(list) = Cardinality(P)
  BY DEF Enumerates
<1> HIDE DEF Q, new
<1>6. Len(new) = Cardinality(Q)
  BY <1>2, <1>5
<1>7. \A i \in P : Rank(P, i) \in 1..Len(list) /\ list[Rank(P, i)] = ids[i]
  BY DEF Enumerates
<1>8. ASSUME NEW i \in Q PROVE Rank(Q, i) \in 1..Len(new) /\ new[Rank(Q, i)] = ids[i]
  <2>1. CASE i \in P
    BY <1>3, <1>5, <1>7, <2>1
  <2>2. CASE i = n + 1
    BY <1>2, <1>4, <1>5, <2>2
  <2> QED
    BY <2>1, <2>2 DEF Q
<1>9. ASSUME NEW m \in 1..Len(new) PROVE \E i \in Q : Rank(Q, i) = m
  <2>1. CASE m \in 1..Len(list)
    <3>1. PICK i \in P : Rank(P, i) = m
      BY <2>1 DEF Enumerates
    <3> QED
      BY <1>3, <3>1 DEF Q
  <2>2. CASE m = Len(list) + 1
    BY <1>2, <1>4, <1>5, <2>2 DEF Q
  <2> QED
    BY <1>5, <2>1, <2>2
<1> QED
  BY <1>6, <1>8, <1>9 DEF Enumerates, Q, new

-----------------------------------------------------------------------------
(* What SyncBlobs has made of the blobs it has seen. *)

\* The rules, for the blob at index i of a height's blobs B, over the chunks cs
\* and the file manifests fs of the blocks below.
Accepted(B, cs, fs, i) ==
  LET e == Envelope[B[i]] IN
  \/ e.kind = "chunk"
  \/ /\ e.kind = "file"
     /\ Commitments(e.chunks) \subseteq
          cs \cup {B[j] : j \in {k \in 1..(i - 1) : Envelope[B[k]].kind = "chunk"}}
     /\ FileMatches(B[i])
  \/ /\ e.kind = "dir"
     /\ FileIds(e.files) \subseteq fs
     /\ DirMatches(B[i])

\* The indices, up to n, of the accepted blobs of one kind.
Picked(B, cs, fs, n, kind) ==
  {i \in 1..n : Envelope[B[i]].kind = kind /\ Accepted(B, cs, fs, i)}

Ids(B, c) == [i \in DOMAIN B |-> [height |-> c, commitment |-> B[i]]]

\* Transaction t after the first n blobs of B, included at Celestia height c.
Scanned(B, c, cs, fs, n, t) ==
  /\ Len(t.blobs) = Len(B) - n
  /\ \A i \in 1..(Len(B) - n) : t.blobs[i] = B[n + i]
  /\ \A i \in 1..n : Envelope[B[i]].kind # "invalid"
  /\ Enumerates(t.chunks, Picked(B, cs, fs, n, "chunk"), Ids(B, c))
  /\ Enumerates(t.files, Picked(B, cs, fs, n, "file"), Ids(B, c))
  /\ Enumerates(t.dirs, Picked(B, cs, fs, n, "dir"), Ids(B, c))

\* While a height is being derived, the lists of the transaction are what the
\* rules make of a prefix of its blobs; of all of them, once a block is made.
SyncedInv ==
  pc \in InBlock =>
    /\ \E n \in 0..Len(da[nextHeight + Offset]) :
         Scanned(da[nextHeight + Offset], nextHeight + Offset, chunks, fileManifests, n, tx)
    /\ pc # "blobs" => tx.blobs = <<>>

-----------------------------------------------------------------------------
(* The scan of a height, one blob at a time. *)

\* The next index is picked, or not, by the rules.
LEMMA PickedStep ==
  ASSUME NEW B, NEW cs, NEW fs, NEW n \in Nat, NEW kind
  PROVE  Picked(B, cs, fs, n + 1, kind) =
           IF Envelope[B[n + 1]].kind = kind /\ Accepted(B, cs, fs, n + 1)
             THEN Picked(B, cs, fs, n, kind) \cup {n + 1}
             ELSE Picked(B, cs, fs, n, kind)
<1>1. 1..(n + 1) = 1..n \cup {n + 1}
  OBVIOUS
<1> QED
  BY <1>1 DEF Picked

LEMMA PickedNone ==
  ASSUME NEW B, NEW cs, NEW fs, NEW kind
  PROVE  Picked(B, cs, fs, 0, kind) = {}
BY DEF Picked

LEMMA PickedSubset ==
  ASSUME NEW B, NEW cs, NEW fs, NEW n, NEW kind
  PROVE  Picked(B, cs, fs, n, kind) \in SUBSET (1..n)
BY DEF Picked

\* Every chunk is accepted.
LEMMA PickedChunks ==
  ASSUME NEW B, NEW cs, NEW fs, NEW n
  PROVE  Picked(B, cs, fs, n, "chunk") = {k \in 1..n : Envelope[B[k]].kind = "chunk"}
BY DEF Picked, Accepted

\* An empty list enumerates the empty set.
LEMMA EnumeratesNone ==
  ASSUME NEW ids
  PROVE  Enumerates(<<>>, {}, ids)
BY FS_EmptySet DEF Enumerates

\* The pending chunks are the chunks among the blobs seen.
LEMMA PendingChunks ==
  ASSUME NEW B \in Seq(Blob), NEW c, NEW n \in 0..Len(B), NEW P \in SUBSET (1..n),
         NEW list \in Seq(BlobIdentifier), Enumerates(list, P, Ids(B, c))
  PROVE  Commitments(list) = {B[j] : j \in P}
<1>1. \A j \in P : j \in DOMAIN B /\ Ids(B, c)[j].commitment = B[j]
  BY DEF Ids
<1>2. DOMAIN list = 1..Len(list)
  OBVIOUS
<1>3. ASSUME NEW m \in 1..Len(list) PROVE \E j \in P : list[m].commitment = B[j]
  BY <1>1 DEF Enumerates
<1>4. ASSUME NEW j \in P PROVE \E m \in 1..Len(list) : list[m].commitment = B[j]
  BY <1>1 DEF Enumerates
<1>5. Commitments(list) = {list[m].commitment : m \in 1..Len(list)}
  BY <1>2 DEF Commitments
<1>6. ASSUME NEW x \in {list[m].commitment : m \in 1..Len(list)} PROVE x \in {B[j] : j \in P}
  <2>1. PICK m \in 1..Len(list) : x = list[m].commitment
    BY <1>6
  <2> QED
    BY <1>3, <2>1
<1>7. ASSUME NEW x \in {B[j] : j \in P} PROVE x \in {list[m].commitment : m \in 1..Len(list)}
  <2>1. PICK j \in P : x = B[j]
    BY <1>7
  <2> QED
    BY <1>4, <2>1
<1> QED
  BY <1>5, <1>6, <1>7

\* The transaction of a height that is begun has seen nothing of it.
LEMMA ScanBegins ==
  ASSUME NEW B \in Seq(Blob), NEW c, NEW cs, NEW fs
  PROVE  Scanned(B, c, cs, fs, 0, NewTransaction(B))
<1>1. /\ NewTransaction(B).blobs = B /\ NewTransaction(B).chunks = <<>>
      /\ NewTransaction(B).files = <<>> /\ NewTransaction(B).dirs = <<>>
  BY DEF NewTransaction
<1>2. Len(B) = Len(B) - 0 /\ \A i \in 1..Len(B) : B[i] = B[0 + i]
  OBVIOUS
<1>3. \A i \in 1..0 : Envelope[B[i]].kind # "invalid"
  OBVIOUS
<1>4. \A kind : Enumerates(<<>>, Picked(B, cs, fs, 0, kind), Ids(B, c))
  BY PickedNone, EnumeratesNone, Zenon
<1> QED
  BY <1>1, <1>2, <1>3, <1>4 DEF Scanned

\* The next blob of the transaction is the next blob of the height.
LEMMA ScanHead ==
  ASSUME NEW B \in Seq(Blob), NEW n \in 0..Len(B), NEW rest \in Seq(Blob), rest # <<>>,
         Len(rest) = Len(B) - n, \A i \in 1..(Len(B) - n) : rest[i] = B[n + i]
  PROVE  /\ n \in Nat /\ n + 1 \in 1..Len(B) /\ Head(rest) = B[n + 1]
         /\ B[n + 1] \in Blob
         /\ Len(Tail(rest)) = Len(B) - (n + 1)
         /\ \A i \in 1..(Len(B) - (n + 1)) : Tail(rest)[i] = B[(n + 1) + i]
<1>1. Len(rest) = Len(B) - n /\ Len(rest) > 0 /\ Len(B) \in Nat /\ n \in Nat
  OBVIOUS
<1>3. n + 1 \in 1..Len(B) /\ 1 \in 1..(Len(B) - n)
  BY <1>1
<1>4. Head(rest) = B[n + 1] /\ B[n + 1] \in Blob
  BY <1>3
<1>5. Len(Tail(rest)) = Len(B) - (n + 1)
  BY <1>1
<1>6. ASSUME NEW i \in 1..(Len(B) - (n + 1)) PROVE Tail(rest)[i] = B[(n + 1) + i]
  <2>1. i + 1 \in 1..(Len(B) - n) /\ i \in 1..Len(Tail(rest)) /\ n + (i + 1) = (n + 1) + i
    BY <1>1, <1>5
  <2>2. Tail(rest)[i] = rest[i + 1]
    BY <1>1, <2>1
  <2> QED
    BY <2>1, <2>2
<1> QED
  BY <1>1, <1>3, <1>4, <1>5, <1>6

\* The list of a kind after the next blob.
LEMMA EnumeratesNext ==
  ASSUME NEW B, NEW c, NEW cs, NEW fs, NEW n \in Nat, NEW kind,
         NEW list \in Seq(BlobIdentifier), Ids(B, c)[n + 1] \in BlobIdentifier,
         Enumerates(list, Picked(B, cs, fs, n, kind), Ids(B, c))
  PROVE  Enumerates(IF Envelope[B[n + 1]].kind = kind /\ Accepted(B, cs, fs, n + 1)
                      THEN Append(list, Ids(B, c)[n + 1]) ELSE list,
                    Picked(B, cs, fs, n + 1, kind), Ids(B, c))
<1> DEFINE P == Picked(B, cs, fs, n, kind)
           ids == Ids(B, c)
           accepted == Envelope[B[n + 1]].kind = kind /\ Accepted(B, cs, fs, n + 1)
<1>1. Picked(B, cs, fs, n + 1, kind) = IF accepted THEN P \cup {n + 1} ELSE P
  BY PickedStep
<1>2. P \in SUBSET (1..n)
  BY PickedSubset
<1> HIDE DEF P, ids, accepted
<1>3. Enumerates(list, P, ids) /\ ids[n + 1] \in BlobIdentifier
  BY DEF P, ids
<1>4. Enumerates(Append(list, ids[n + 1]), P \cup {n + 1}, ids)
  BY <1>2, <1>3, EnumeratesAppend
<1>5. Enumerates(IF accepted THEN Append(list, ids[n + 1]) ELSE list,
                 Picked(B, cs, fs, n + 1, kind), ids)
  <2>1. CASE accepted
    BY <1>1, <1>4, <2>1, Zenon
  <2>2. CASE ~accepted
    BY <1>1, <1>3, <2>2, Zenon
  <2> QED
    BY <2>1, <2>2
<1> QED
  BY <1>5 DEF accepted, ids

\* The next blob is consumed, and its identifier is appended to the list of its
\* kind exactly when the rules accept it.
Takes(B, c, cs, fs, n, list, new, kind) ==
  new = IF Envelope[B[n + 1]].kind = kind /\ Accepted(B, cs, fs, n + 1)
          THEN Append(list, Ids(B, c)[n + 1]) ELSE list

LEMMA ScanStep ==
  ASSUME NEW B \in Seq(Blob), NEW c \in Nat, NEW cs, NEW fs, NEW n \in 0..Len(B), NEW t, NEW u,
         t.blobs \in Seq(Blob), t.blobs # <<>>, Scanned(B, c, cs, fs, n, t),
         t.chunks \in Seq(BlobIdentifier), t.files \in Seq(BlobIdentifier),
         t.dirs \in Seq(BlobIdentifier),
         u.blobs = Tail(t.blobs), Envelope[B[n + 1]].kind # "invalid",
         Takes(B, c, cs, fs, n, t.chunks, u.chunks, "chunk"),
         Takes(B, c, cs, fs, n, t.files, u.files, "file"),
         Takes(B, c, cs, fs, n, t.dirs, u.dirs, "dir")
  PROVE  Scanned(B, c, cs, fs, n + 1, u)
<1>1. /\ n \in Nat /\ n + 1 \in 1..Len(B) /\ B[n + 1] \in Blob
      /\ Len(u.blobs) = Len(B) - (n + 1)
      /\ \A i \in 1..(Len(B) - (n + 1)) : u.blobs[i] = B[(n + 1) + i]
  <2> DEFINE r == Tail(t.blobs)
  <2>0. Len(t.blobs) = Len(B) - n /\ \A i \in 1..(Len(B) - n) : t.blobs[i] = B[n + i]
    BY DEF Scanned
  <2>1. /\ n \in Nat /\ n + 1 \in 1..Len(B) /\ B[n + 1] \in Blob
        /\ Len(r) = Len(B) - (n + 1)
        /\ \A i \in 1..(Len(B) - (n + 1)) : r[i] = B[(n + 1) + i]
    BY <2>0, ScanHead
  <2> HIDE DEF r
  <2>2. u.blobs = r
    BY DEF r
  <2> QED
    BY <2>1, <2>2
<1>2. Ids(B, c)[n + 1] \in BlobIdentifier
  BY <1>1 DEF Ids, BlobIdentifier
<1>3. \A i \in 1..(n + 1) : Envelope[B[i]].kind # "invalid"
  <2>1. \A i \in 1..n : Envelope[B[i]].kind # "invalid"
    BY DEF Scanned
  <2> QED
    BY <1>1, <2>1
<1>4. /\ Enumerates(t.chunks, Picked(B, cs, fs, n, "chunk"), Ids(B, c))
      /\ Enumerates(t.files, Picked(B, cs, fs, n, "file"), Ids(B, c))
      /\ Enumerates(t.dirs, Picked(B, cs, fs, n, "dir"), Ids(B, c))
  BY DEF Scanned
<1>5. ASSUME NEW kind, NEW list \in Seq(BlobIdentifier), NEW new,
             Enumerates(list, Picked(B, cs, fs, n, kind), Ids(B, c)),
             Takes(B, c, cs, fs, n, list, new, kind)
      PROVE  Enumerates(new, Picked(B, cs, fs, n + 1, kind), Ids(B, c))
  BY <1>1, <1>2, <1>5, EnumeratesNext, Zenon DEF Takes
<1>6. /\ Enumerates(u.chunks, Picked(B, cs, fs, n + 1, "chunk"), Ids(B, c))
      /\ Enumerates(u.files, Picked(B, cs, fs, n + 1, "file"), Ids(B, c))
      /\ Enumerates(u.dirs, Picked(B, cs, fs, n + 1, "dir"), Ids(B, c))
  BY <1>4, <1>5, Zenon
<1> QED
  BY <1>1, <1>3, <1>6 DEF Scanned

-----------------------------------------------------------------------------
(* SyncedInv is invariant. *)

LEMMA InitSynced == Init => SyncedInv
BY DEF Init, SyncedInv, InBlock

\* What a transaction has recorded does not depend on its other fields.
LEMMA ScannedSame ==
  ASSUME NEW B, NEW c, NEW cs, NEW fs, NEW n, NEW t, NEW u, Scanned(B, c, cs, fs, n, t),
         u.blobs = t.blobs, u.chunks = t.chunks, u.files = t.files, u.dirs = t.dirs
  PROVE  Scanned(B, c, cs, fs, n, u)
BY DEF Scanned

\* The facts that the steps of a height share.
LEMMA HeightFacts ==
  ASSUME IInv, pc \in InBlock
  PROVE  /\ nextHeight + Offset \in 1..Len(da) /\ nextHeight + Offset \in Nat
         /\ da[nextHeight + Offset] \in Seq(Blob)
         /\ tx.blobs \in Seq(Blob) /\ tx.chunks \in Seq(BlobIdentifier)
         /\ tx.files \in Seq(BlobIdentifier) /\ tx.dirs \in Seq(BlobIdentifier)
         /\ DOMAIN tx = DOMAIN NoTransaction
<1>1. nextHeight \in Nat /\ Len(da) \in Nat /\ da \in Seq(Seq(Blob)) /\ TransactionOK(tx)
  BY OffsetAssumption DEF IInv, TypeOK
<1>2. nextHeight + Offset <= Len(da)
  BY DEF IInv, ControlInv
<1>3. nextHeight + Offset \in 1..Len(da) /\ nextHeight + Offset \in Nat
  BY <1>1, <1>2, OffsetAssumption
<1> QED
  BY <1>1, <1>3 DEF TransactionOK

\* SyncBlobs applies the rules of the ledger to the next blob: the chunks that
\* the transaction has pending are the chunks before the blob in its height.
LEMMA BlobSynced ==
  ASSUME IInv, SyncedInv, SyncChunk \/ SyncFileManifest \/ SyncDirectoryManifest
  PROVE  SyncedInv'
<1>1. /\ pc = "blobs" /\ pc' = pc /\ tx.blobs # <<>>
      /\ UNCHANGED <<da, nextHeight, chunks, fileManifests>>
  BY DEF SyncChunk, SyncFileManifest, SyncDirectoryManifest, NextBlob, store, loop
<1>2. PICK B, c, cs, fs, t, u : /\ B = da[nextHeight + Offset] /\ c = nextHeight + Offset
                                /\ cs = chunks /\ fs = fileManifests /\ t = tx /\ u = tx'
  OBVIOUS
<1>3. /\ B \in Seq(Blob) /\ c \in Nat /\ DOMAIN t = DOMAIN NoTransaction
      /\ t.blobs \in Seq(Blob) /\ t.blobs # <<>> /\ t.chunks \in Seq(BlobIdentifier)
      /\ t.files \in Seq(BlobIdentifier) /\ t.dirs \in Seq(BlobIdentifier)
  BY <1>1, <1>2, HeightFacts DEF InBlock
<1>4. PICK n \in 0..Len(B) : Scanned(B, c, cs, fs, n, t)
  BY <1>1, <1>2 DEF SyncedInv, InBlock
<1> DEFINE b == Head(t.blobs)
<1>5. n \in Nat /\ n + 1 \in 1..Len(B) /\ n + 1 \in 0..Len(B) /\ b = B[n + 1]
  <2>1. Len(t.blobs) = Len(B) - n /\ \A i \in 1..(Len(B) - n) : t.blobs[i] = B[n + i]
    BY <1>4 DEF Scanned
  <2>2. n \in Nat /\ n + 1 \in 1..Len(B) /\ b = B[n + 1]
    BY <1>3, <2>1, ScanHead
  <2> QED
    BY <1>3, <2>2
<1>6. BlobId(b) = Ids(B, c)[n + 1]
  BY <1>2, <1>3, <1>5 DEF BlobId, Ids
<1> HIDE DEF b
<1>7. /\ ~SyncChunk => Envelope[b].kind \in {"file", "dir"}
      /\ SyncChunk => Envelope[b].kind = "chunk"
      /\ SyncFileManifest => Envelope[b].kind = "file"
      /\ SyncDirectoryManifest => Envelope[b].kind = "dir"
      /\ u.blobs = Tail(t.blobs)
  BY <1>2, <1>3 DEF SyncChunk, SyncFileManifest, SyncDirectoryManifest, NextBlob, b,
     NoTransaction, NewTransaction
<1>8. /\ Envelope[b].kind = "chunk" => Accepted(B, cs, fs, n + 1)
      /\ Envelope[b].kind = "file" => (FileAccepted(b) <=> Accepted(B, cs, fs, n + 1))
      /\ Envelope[b].kind = "dir" => (DirectoryAccepted(b) <=> Accepted(B, cs, fs, n + 1))
  <2>1. Commitments(t.chunks) = {B[j] : j \in {k \in 1..n : Envelope[B[k]].kind = "chunk"}}
    <3> DEFINE P == Picked(B, cs, fs, n, "chunk")
    <3>1. P \in SUBSET (1..n) /\ P = {k \in 1..n : Envelope[B[k]].kind = "chunk"}
      BY PickedSubset, PickedChunks, Zenon
    <3>2. Enumerates(t.chunks, P, Ids(B, c))
      BY <1>4 DEF Scanned
    <3> HIDE DEF P
    <3>3. Commitments(t.chunks) = {B[j] : j \in P}
      BY <1>3, <3>1, <3>2, PendingChunks
    <3> QED
      BY <3>1, <3>3
  <2>2. (n + 1) - 1 = n
    BY <1>5
  <2>3. Envelope[b].kind = "file" => (FileAccepted(b) <=> Accepted(B, cs, fs, n + 1))
    BY <1>2, <1>5, <2>1, <2>2 DEF FileAccepted, Accepted, GetChunk
  <2>4. Envelope[b].kind = "dir" => (DirectoryAccepted(b) <=> Accepted(B, cs, fs, n + 1))
    BY <1>2, <1>5 DEF DirectoryAccepted, Accepted, GetFileManifest
  <2> QED
    BY <1>5, <2>3, <2>4 DEF Accepted
<1>9. /\ Takes(B, c, cs, fs, n, t.chunks, u.chunks, "chunk")
      /\ Takes(B, c, cs, fs, n, t.files, u.files, "file")
      /\ Takes(B, c, cs, fs, n, t.dirs, u.dirs, "dir")
  <2>1. CASE SyncChunk
    <3>1. /\ u.chunks = Append(t.chunks, BlobId(b)) /\ u.files = t.files /\ u.dirs = t.dirs
          /\ Envelope[b].kind = "chunk"
      BY <1>2, <1>3, <1>7, <2>1 DEF SyncChunk, b, NoTransaction, NewTransaction
    <3> QED
      BY <1>5, <1>6, <1>8, <3>1 DEF Takes
  <2>2. CASE SyncFileManifest
    <3>1. /\ u.files = IF FileAccepted(b) THEN Append(t.files, BlobId(b)) ELSE t.files
          /\ u.chunks = t.chunks /\ u.dirs = t.dirs /\ Envelope[b].kind = "file"
      BY <1>2, <1>3, <1>7, <2>2 DEF SyncFileManifest, b, NoTransaction, NewTransaction
    <3> QED
      BY <1>5, <1>6, <1>8, <3>1 DEF Takes
  <2>3. CASE SyncDirectoryManifest
    <3>1. /\ u.dirs = IF DirectoryAccepted(b) THEN Append(t.dirs, BlobId(b)) ELSE t.dirs
          /\ u.chunks = t.chunks /\ u.files = t.files /\ Envelope[b].kind = "dir"
      BY <1>2, <1>3, <1>7, <2>3 DEF SyncDirectoryManifest, b, NoTransaction, NewTransaction
    <3> QED
      BY <1>5, <1>6, <1>8, <3>1 DEF Takes
  <2> QED
    BY <2>1, <2>2, <2>3
<1>10. Envelope[B[n + 1]].kind # "invalid"
  BY <1>5, <1>7
<1>11. Scanned(B, c, cs, fs, n + 1, u)
  BY <1>3, <1>4, <1>7, <1>9, <1>10, ScanStep
<1> QED
  BY <1>1, <1>2, <1>5, <1>11 DEF SyncedInv

LEMMA NextSynced == IInv /\ SyncedInv /\ [Next]_vars => SyncedInv'
<1> SUFFICES ASSUME IInv, SyncedInv, [Next]_vars PROVE SyncedInv'
  OBVIOUS
<1>1. CASE pc' \notin InBlock
  BY <1>1 DEF SyncedInv
<1>2. CASE SyncChunk \/ SyncFileManifest \/ SyncDirectoryManifest
  BY <1>2, BlobSynced
<1>3. ASSUME UNCHANGED <<pc, nextHeight, chunks, fileManifests, tx>>,
             pc \in InBlock => da'[nextHeight + Offset] = da[nextHeight + Offset]
      PROVE  SyncedInv'
  BY <1>3 DEF SyncedInv
<1>4. CASE CelestiaBlock
  <2>1. pc \in InBlock => da'[nextHeight + Offset] = da[nextHeight + Offset]
    <3> SUFFICES ASSUME pc \in InBlock PROVE da'[nextHeight + Offset] = da[nextHeight + Offset]
      OBVIOUS
    <3>1. nextHeight + Offset \in 1..Len(da) /\ da \in Seq(Seq(Blob))
      BY HeightFacts DEF IInv, TypeOK
    <3>2. PICK bs \in Seq(Blob) : da' = Append(da, bs)
      BY <1>4, ContentsAssumption DEF CelestiaBlock
    <3> QED
      BY <3>1, <3>2
  <2> QED
    BY <1>3, <1>4, <2>1 DEF CelestiaBlock, store, loop
<1>5. CASE UNCHANGED vars \/ \E h \in DOMAIN blocks : GetBlockByHeight(h)
  BY <1>3, <1>5 DEF vars, GetBlockByHeight, store, loop
<1>6. ASSUME BeginBlock, nextHeight + Offset <= Len(da),
             UNCHANGED <<da, nextHeight, chunks, fileManifests>>
      PROVE  SyncedInv'
  <2>1. PICK B, c : B = da[nextHeight + Offset] /\ c = nextHeight + Offset
    OBVIOUS
  <2>2. B \in Seq(Blob)
    BY <1>6, <2>1, OffsetAssumption DEF IInv, TypeOK
  <2>3. Scanned(B, c, chunks, fileManifests, 0, NewTransaction(B)) /\ 0 \in 0..Len(B)
    BY <2>2, ScanBegins
  <2>4. tx' = NewTransaction(B) /\ pc' = "blobs"
    BY <1>6, <2>1 DEF BeginBlock
  <2> QED
    BY <1>6, <2>1, <2>3, <2>4 DEF SyncedInv
<1>7. CASE CatchUp
  <2>1. latest' \in 0..Len(da) /\ Len(da) \in Nat /\ nextHeight + Offset \in Nat
    BY <1>7, OffsetAssumption DEF CatchUp, IInv, TypeOK
  <2>2. pc' \notin InBlock \/ (BeginBlock /\ nextHeight + Offset <= Len(da))
    BY <1>7, <2>1 DEF CatchUp, InBlock
  <2> QED
    BY <1>1, <1>6, <1>7, <2>2 DEF CatchUp, store
<1>8. CASE FollowHead
  <2>1. latest \in 0..Len(da) /\ Len(da) \in Nat /\ nextHeight + Offset \in Nat
    BY OffsetAssumption DEF IInv, TypeOK
  <2>2. pc' \notin InBlock \/ (BeginBlock /\ nextHeight + Offset <= Len(da))
    BY <1>8, <2>1 DEF FollowHead, InBlock
  <2> QED
    BY <1>1, <1>6, <1>8, <2>2 DEF FollowHead, store, loop
<1>9. CASE ProduceBlock \/ ApplyBlock \/ FinalizeBlock
  <2>1. pc \in InBlock /\ pc' # "blobs" /\ UNCHANGED <<da, nextHeight, chunks, fileManifests>>
    BY <1>9 DEF ProduceBlock, ApplyBlock, FinalizeBlock, InBlock, store, loop
  <2>2. DOMAIN tx = DOMAIN NoTransaction
    BY <2>1, HeightFacts
  <2>3. /\ tx'.blobs = tx.blobs /\ tx'.chunks = tx.chunks
        /\ tx'.files = tx.files /\ tx'.dirs = tx.dirs
    BY <1>9, <2>2 DEF ProduceBlock, ApplyBlock, FinalizeBlock, NoTransaction, NewTransaction
  <2>4. tx.blobs = <<>>
    BY <1>9, <2>1 DEF ProduceBlock, ApplyBlock, FinalizeBlock, SyncedInv
  <2>5. PICK n \in 0..Len(da[nextHeight + Offset]) :
          Scanned(da[nextHeight + Offset], nextHeight + Offset, chunks, fileManifests, n, tx)
    BY <2>1 DEF SyncedInv
  <2>6. PICK t, u : t = tx /\ u = tx'
    OBVIOUS
  <2>7. Scanned(da[nextHeight + Offset], nextHeight + Offset, chunks, fileManifests, n, u)
    BY <2>3, <2>5, <2>6, ScannedSame
  <2> QED
    BY <2>1, <2>3, <2>4, <2>5, <2>6, <2>7 DEF SyncedInv
<1>10. CASE \/ Start \/ Stop \/ ReadFinalizedHeight \/ CreateGenesisBlock \/ CommitGenesis
            \/ LatestHeight \/ Subscribe \/ ReceiveHead \/ Commit \/ PublishNewHeader
  <2>1. pc' \notin InBlock
    BY <1>10 DEF Start, Stop, ReadFinalizedHeight, CreateGenesisBlock, CommitGenesis,
       LatestHeight, Subscribe, ReceiveHead, Commit, PublishNewHeader, InBlock
  <2> QED
    BY <1>1, <2>1
<1> QED
  BY <1>2, <1>4, <1>5, <1>7, <1>8, <1>9, <1>10
  DEF Next, SyncChain, Crash, SyncInvalidBlob, ApplyBlockError

-----------------------------------------------------------------------------
(* The operators of RollupLedger are those of BlobcastChain. *)

LEMMA LedgerOperators ==
  /\ \A x : Ledger!Commitments(x) = Commitments(x)
  /\ \A x : Ledger!SeqRange(x) = SeqRange(x)
  /\ \A x : Ledger!FileIds(x) = FileIds(x)
  /\ \A x : Ledger!MMRRoot(x) = MMRRoot(x)
  /\ \A x : Ledger!RootLeaves(x) = RootLeaves(x)
  /\ \A x : Ledger!NewLeaves(x) = NewLeaves(x)
  /\ \A x : Ledger!HeaderHash(x) = HeaderHash(x)
  /\ \A d, f, c : Ledger!NewBlock(d, f, c) = NewBlock(d, f, c)
  /\ Ledger!GenesisBlock = GenesisBlock
<1>1. \A x : Ledger!Commitments(x) = Commitments(x)
  BY DEF Ledger!Commitments, Commitments
<1>2. \A x : Ledger!SeqRange(x) = SeqRange(x)
  BY DEF Ledger!SeqRange, SeqRange
<1>3. \A x : Ledger!FileIds(x) = FileIds(x)
  BY DEF Ledger!FileIds, FileIds
<1>4. \A x : Ledger!MMRRoot(x) = MMRRoot(x)
  BY DEF Ledger!MMRRoot, MMRRoot, Ledger!ZeroHash, ZeroHash
<1>5. \A x : Ledger!RootLeaves(x) = RootLeaves(x)
  BY DEF Ledger!RootLeaves, RootLeaves, Ledger!ZeroHash, ZeroHash
<1>6. \A x : Ledger!NewLeaves(x) = NewLeaves(x)
  BY DEF Ledger!NewLeaves, NewLeaves, Ledger!Leaf, Leaf, Ledger!ZeroHash, ZeroHash
<1>7. \A x : Ledger!HeaderHash(x) = HeaderHash(x)
  BY DEF Ledger!HeaderHash, HeaderHash, Ledger!HashBytes, HashBytes, Ledger!HeaderBytes,
     HeaderBytes
<1>8. \A d, f, c : Ledger!NewBlock(d, f, c) = NewBlock(d, f, c)
  BY DEF Ledger!NewBlock, NewBlock, Ledger!ZeroHash, ZeroHash, Ledger!CalculateMerkleRoot,
     CalculateMerkleRoot
<1>9. Ledger!GenesisBlock = GenesisBlock
  BY <1>8 DEF Ledger!GenesisBlock, GenesisBlock
<1> QED
  BY <1>1, <1>2, <1>3, <1>4, <1>5, <1>6, <1>7, <1>8, <1>9

LEMMA LedgerMatches ==
  ASSUME NEW b
  PROVE  (Ledger!FileMatches(b) <=> FileMatches(b)) /\ (Ledger!DirMatches(b) <=> DirMatches(b))
<1>1. Ledger!FileMatches(b) <=> FileMatches(b)
  BY DEF Ledger!FileMatches, FileMatches, Ledger!Concat, Concat, Ledger!HashBytes, HashBytes
<1>2. Ledger!DirMatches(b) <=> DirMatches(b)
  BY DEF Ledger!DirMatches, DirMatches, Ledger!CalculateMerkleRoot, CalculateMerkleRoot,
     Ledger!ZeroHash, ZeroHash, Ledger!HashBytes, HashBytes
<1> QED
  BY <1>1, <1>2

LEMMA LedgerRank ==
  /\ \A P : Ledger!Cardinality(P) = Cardinality(P)
  /\ \A P, i : Ledger!Rank(P, i) = Rank(P, i)
<1>1. \A P : Ledger!Cardinality(P) = Cardinality(P)
  BY DEF Ledger!Cardinality, Cardinality, Ledger!IsFiniteSet, IsFiniteSet
<1> QED
  BY <1>1 DEF Ledger!Rank, Rank

\* The rules that the ledger states over its blocks are the rules that the node
\* applies over its store.
LEMMA RecordedIsAccepted ==
  ASSUME NEW l, NEW B, NEW i
  PROVE  Ledger!Recorded(l, B, i) <=>
           Accepted(B, Ledger!RecordedChunks(l), Ledger!RecordedFiles(l), i)
<1>1. /\ (Ledger!FileMatches(B[i]) <=> FileMatches(B[i]))
      /\ (Ledger!DirMatches(B[i]) <=> DirMatches(B[i]))
      /\ \A x : Ledger!Commitments(x) = Commitments(x)
      /\ \A x : Ledger!FileIds(x) = FileIds(x)
  BY LedgerOperators, LedgerMatches
<1>2. CASE Envelope[B[i]].kind = "chunk"
  BY <1>2 DEF Ledger!Recorded, Accepted
<1>3. CASE Envelope[B[i]].kind = "file"
  BY <1>1, <1>3 DEF Ledger!Recorded, Accepted
<1>4. CASE Envelope[B[i]].kind = "dir"
  BY <1>1, <1>4 DEF Ledger!Recorded, Accepted
<1>5. CASE Envelope[B[i]].kind \notin {"chunk", "file", "dir"}
  BY <1>5 DEF Ledger!Recorded, Accepted
<1> QED
  BY <1>2, <1>3, <1>4, <1>5

\* A list that holds the accepted blobs of one kind is that part of the body
\* which the ledger derives.
LEMMA BodyIs ==
  ASSUME NEW l, NEW B \in Seq(Blob), NEW c, c = Len(l) + Offset, NEW kind,
         NEW list \in Seq(BlobIdentifier),
         Enumerates(list, Picked(B, Ledger!RecordedChunks(l), Ledger!RecordedFiles(l),
                                 Len(B), kind), Ids(B, c))
  PROVE  Ledger!Body(l, B, kind) = list
<1> DEFINE P == Picked(B, Ledger!RecordedChunks(l), Ledger!RecordedFiles(l), Len(B), kind)
           Q == {i \in DOMAIN B : Envelope[B[i]].kind = kind /\ Ledger!Recorded(l, B, i)}
           ids == Ids(B, c)
<1>1. P = Q
  <2>1. DOMAIN B = 1..Len(B)
    OBVIOUS
  <2> QED
    BY <2>1, RecordedIsAccepted DEF Picked
<1>2. Enumerates(list, P, ids)
  OBVIOUS
<1>3. P \in SUBSET DOMAIN B
  BY DEF Picked
<1>4. Ledger!Body(l, B, kind) =
        [m \in 1..Ledger!Cardinality(Q) |->
           [height |-> c, commitment |-> B[CHOOSE i \in Q : Ledger!Rank(Q, i) = m]]]
  BY DEF Ledger!Body
<1> HIDE DEF P, Q, ids
<1>5. Ledger!Body(l, B, kind) =
        [m \in 1..Cardinality(P) |->
           [height |-> c, commitment |-> B[CHOOSE i \in P : Rank(P, i) = m]]]
  BY <1>1, <1>4, LedgerRank
<1>6. ASSUME NEW m \in 1..Cardinality(P)
      PROVE  list[m] = [height |-> c, commitment |-> B[CHOOSE i \in P : Rank(P, i) = m]]
  <2> DEFINE k == CHOOSE i \in P : Rank(P, i) = m
  <2>1. \E i \in P : Rank(P, i) = m
    BY <1>2 DEF Enumerates
  <2>2. k \in P /\ Rank(P, k) = m
    BY <2>1
  <2> HIDE DEF k
  <2>3. list[m] = ids[k]
    BY <1>2, <2>2 DEF Enumerates
  <2>4. ids[k] = [height |-> c, commitment |-> B[k]]
    BY <1>3, <2>2 DEF ids, Ids
  <2> QED
    BY <2>3, <2>4 DEF k
<1>7. list = [m \in 1..Cardinality(P) |-> list[m]]
  BY <1>2 DEF Enumerates
<1> QED
  BY <1>5, <1>6, <1>7

-----------------------------------------------------------------------------
(* The refinement. *)

\* The ledger of a node that stores the blocks bl and has finalized fh.
ChainOf(bl, fh) == [i \in 1..(IF bl = <<>> THEN 0 ELSE fh + 1) |-> bl[i - 1]]

Chain == ChainOf(blocks, finalizedHeight)

LEMMA ChainEmpty ==
  ASSUME NEW fh
  PROVE  ChainOf(<<>>, fh) = <<>>
BY DEF ChainOf

LEMMA ChainIs ==
  ASSUME NEW bl, NEW fh \in Nat, DOMAIN bl = 0..fh
  PROVE  /\ ChainOf(bl, fh) = [i \in 1..(fh + 1) |-> bl[i - 1]]
         /\ DOMAIN ChainOf(bl, fh) = 1..(fh + 1)
         /\ \A i \in 1..(fh + 1) : ChainOf(bl, fh)[i] = bl[i - 1]
         /\ ChainOf(bl, fh) \in Seq({bl[h] : h \in 0..fh})
         /\ Len(ChainOf(bl, fh)) = fh + 1
         /\ ChainOf(bl, fh) # <<>>
<1>1. bl # <<>>
  BY DEF ChainOf
<1>2. ChainOf(bl, fh) = [i \in 1..(fh + 1) |-> bl[i - 1]]
  BY <1>1 DEF ChainOf
<1>3. \A i \in 1..(fh + 1) : i - 1 \in 0..fh
  OBVIOUS
<1> DEFINE S == {bl[h] : h \in 0..fh}
           l == ChainOf(bl, fh)
<1>4. \A i \in 1..(fh + 1) : bl[i - 1] \in S
  BY <1>3
<1>5. l = [i \in 1..(fh + 1) |-> bl[i - 1]]
  BY <1>2
<1> HIDE DEF S, l
<1>6. l \in Seq(S) /\ Len(l) = fh + 1 /\ l # <<>> /\ DOMAIN l = 1..(fh + 1)
      /\ \A i \in 1..(fh + 1) : l[i] = bl[i - 1]
  BY <1>4, <1>5
<1> QED
  BY <1>2, <1>6 DEF S, l

LEMMA ChainGrows ==
  ASSUME NEW bl, NEW new, NEW fh \in Nat, DOMAIN bl = 0..fh, DOMAIN new = 0..(fh + 1),
         \A h \in 0..fh : new[h] = bl[h]
  PROVE  ChainOf(new, fh + 1) = Append(ChainOf(bl, fh), new[fh + 1])
<1> DEFINE l == ChainOf(bl, fh)
           m == ChainOf(new, fh + 1)
           S == {bl[h] : h \in 0..fh}
           T == S \cup {new[fh + 1]}
<1>1. /\ l \in Seq(S) /\ Len(l) = fh + 1
      /\ \A i \in 1..(fh + 1) : l[i] = bl[i - 1]
  BY ChainIs
<1>2. m = [i \in 1..((fh + 1) + 1) |-> new[i - 1]]
  <2>1. PICK g \in Nat : g = fh + 1
    OBVIOUS
  <2>2. ChainOf(new, g) = [i \in 1..(g + 1) |-> new[i - 1]]
    BY <2>1, ChainIs
  <2> QED
    BY <2>1, <2>2
<1>3. l \in Seq(T) /\ new[fh + 1] \in T
  BY <1>1
<1> HIDE DEF l, m, S, T
<1>4. Append(l, new[fh + 1]) =
        [i \in 1..((fh + 1) + 1) |-> IF i = (fh + 1) + 1 THEN new[fh + 1] ELSE l[i]]
  BY <1>1, <1>3
<1>5. ASSUME NEW i \in 1..((fh + 1) + 1)
      PROVE  new[i - 1] = IF i = (fh + 1) + 1 THEN new[fh + 1] ELSE l[i]
  <2>1. CASE i = (fh + 1) + 1
    BY <2>1
  <2>2. CASE i # (fh + 1) + 1
    <3>1. i \in 1..(fh + 1) /\ i - 1 \in 0..fh
      BY <2>2
    <3> QED
      BY <1>1, <2>2, <3>1
  <2> QED
    BY <2>1, <2>2
<1>6. m = Append(l, new[fh + 1])
  BY <1>2, <1>4, <1>5
<1> QED
  BY <1>6 DEF m, l

\* The store holds what the ledger records.
LEMMA StoreIsRecorded ==
  ASSUME IInv, 0 \in DOMAIN blocks
  PROVE  /\ Ledger!RecordedChunks(Chain) = chunks
         /\ Ledger!RecordedFiles(Chain) = fileManifests
         /\ finalizedHeight \in Nat /\ DOMAIN blocks = 0..finalizedHeight
<1>1. finalizedHeight \in Nat /\ DOMAIN blocks = 0..finalizedHeight
  BY DEF IInv, FinalizedPrefix, TypeOK
<1>2. PICK l : l = Chain
  OBVIOUS
<1>3. /\ DOMAIN l = 1..(finalizedHeight + 1)
      /\ \A i \in 1..(finalizedHeight + 1) : l[i] = blocks[i - 1]
  BY <1>1, <1>2, ChainIs DEF Chain
<1>4. \A i \in 1..(finalizedHeight + 1) : i - 1 \in 0..finalizedHeight
  BY <1>1
<1>5. \A h \in 0..finalizedHeight : h + 1 \in 1..(finalizedHeight + 1) /\ (h + 1) - 1 = h
  BY <1>1
<1>6. {l[i] : i \in DOMAIN l} = {blocks[h] : h \in DOMAIN blocks}
  <2>1. ASSUME NEW i \in DOMAIN l PROVE \E h \in DOMAIN blocks : l[i] = blocks[h]
    BY <1>1, <1>3, <1>4
  <2>2. ASSUME NEW h \in DOMAIN blocks PROVE \E i \in DOMAIN l : l[i] = blocks[h]
    <3>1. h + 1 \in DOMAIN l /\ l[h + 1] = blocks[h]
      BY <1>1, <1>3, <1>5
    <3> QED
      BY <3>1
  <2> QED
    BY <2>1, <2>2
<1>7. /\ \A i \in DOMAIN l : \E h \in DOMAIN blocks : l[i] = blocks[h]
      /\ \A h \in DOMAIN blocks : \E i \in DOMAIN l : l[i] = blocks[h]
  BY <1>6
<1>8. Ledger!RecordedChunks(l) = chunks
  <2>1. Ledger!RecordedChunks(l) = UNION {Commitments(l[i].chunks) : i \in DOMAIN l}
    BY LedgerOperators DEF Ledger!RecordedChunks
  <2>2. chunks = UNION {Commitments(blocks[h].chunks) : h \in DOMAIN blocks}
    BY DEF IInv, StoreMatchesBlocks
  <2> QED
    BY <1>7, <2>1, <2>2
<1>9. Ledger!RecordedFiles(l) = fileManifests
  <2>1. Ledger!RecordedFiles(l) = UNION {SeqRange(l[i].files) : i \in DOMAIN l}
    BY LedgerOperators DEF Ledger!RecordedFiles
  <2>2. fileManifests = UNION {SeqRange(blocks[h].files) : h \in DOMAIN blocks}
    BY DEF IInv, StoreMatchesBlocks
  <2> QED
    BY <1>7, <2>1, <2>2
<1> QED
  BY <1>1, <1>2, <1>8, <1>9

\* The block being committed is the block that the ledger derives.
LEMMA CommittedIsDerived ==
  ASSUME IInv, SyncedInv, Commit
  PROVE  /\ \A i \in DOMAIN da[nextHeight + Offset] :
              Envelope[da[nextHeight + Offset][i]].kind # "invalid"
         /\ AppliedBlock = Ledger!Derive(Chain, da[nextHeight + Offset])
         /\ Len(Chain) = nextHeight
<1>1. pc = "commit" /\ pc \in InBlock
  BY DEF Commit, InBlock
<1>2. /\ finalizedHeight \in Nat /\ nextHeight = finalizedHeight + 1
      /\ DOMAIN blocks = 0..finalizedHeight
  BY CommitFacts
<1>3. PICK l, B, c, t : /\ l = Chain /\ B = da[nextHeight + Offset]
                        /\ c = nextHeight + Offset /\ t = tx
  OBVIOUS
<1>4. /\ B \in Seq(Blob) /\ c \in Nat /\ t.chunks \in Seq(BlobIdentifier)
      /\ t.files \in Seq(BlobIdentifier) /\ t.dirs \in Seq(BlobIdentifier)
  BY <1>1, <1>3, HeightFacts
<1>5. Len(l) = nextHeight /\ l[Len(l)] = blocks[nextHeight - 1]
  <2>1. PICK fh \in Nat : fh = finalizedHeight
    BY <1>2
  <2>2. /\ Len(ChainOf(blocks, fh)) = fh + 1
        /\ \A i \in 1..(fh + 1) : ChainOf(blocks, fh)[i] = blocks[i - 1]
    BY <1>2, <2>1, ChainIs
  <2>3. l = ChainOf(blocks, fh) /\ nextHeight = fh + 1 /\ fh + 1 \in 1..(fh + 1)
    BY <1>2, <1>3, <2>1 DEF Chain
  <2> QED
    BY <2>2, <2>3
<1>6. Ledger!RecordedChunks(l) = chunks /\ Ledger!RecordedFiles(l) = fileManifests
  BY <1>2, <1>3, StoreIsRecorded
<1>7. Scanned(B, c, chunks, fileManifests, Len(B), t)
  <2>1. PICK n \in 0..Len(B) : Scanned(B, c, chunks, fileManifests, n, t)
    BY <1>1, <1>3 DEF SyncedInv
  <2>2. t.blobs = <<>>
    BY <1>1, <1>3 DEF SyncedInv
  <2>3. Len(B) - n = 0 /\ Len(B) \in Nat
    BY <1>4, <2>1, <2>2 DEF Scanned
  <2>4. n = Len(B)
    BY <2>3
  <2> QED
    BY <2>1, <2>4
<1>8. \A i \in DOMAIN B : Envelope[B[i]].kind # "invalid"
  BY <1>4, <1>7 DEF Scanned
<1>9. /\ Ledger!Body(l, B, "chunk") = t.chunks
      /\ Ledger!Body(l, B, "file") = t.files
      /\ Ledger!Body(l, B, "dir") = t.dirs
  <2>1. c = Len(l) + Offset
    BY <1>3, <1>5
  <2>2. /\ Enumerates(t.chunks, Picked(B, Ledger!RecordedChunks(l), Ledger!RecordedFiles(l),
                                       Len(B), "chunk"), Ids(B, c))
        /\ Enumerates(t.files, Picked(B, Ledger!RecordedChunks(l), Ledger!RecordedFiles(l),
                                      Len(B), "file"), Ids(B, c))
        /\ Enumerates(t.dirs, Picked(B, Ledger!RecordedChunks(l), Ledger!RecordedFiles(l),
                                     Len(B), "dir"), Ids(B, c))
    BY <1>6, <1>7 DEF Scanned
  <2>3. Ledger!Body(l, B, "chunk") = t.chunks
    BY <1>4, <2>1, <2>2, BodyIs
  <2>4. Ledger!Body(l, B, "file") = t.files
    BY <1>4, <2>1, <2>2, BodyIs
  <2>5. Ledger!Body(l, B, "dir") = t.dirs
    BY <1>4, <2>1, <2>2, BodyIs
  <2> QED
    BY <2>3, <2>4, <2>5
<1> DEFINE new == NewBlock(t.dirs, t.files, t.chunks)
           last == blocks[nextHeight - 1]
<1>10. RootLeaves(last.stateRoot) = GetStateMMR(nextHeight - 1)
  <2>1. HasStateMMR(nextHeight - 1)
    BY <1>1 DEF IInv, StagedInv
  <2>2. nextHeight - 1 \in DOMAIN blocks
    BY <1>2
  <2>3. last.stateRoot = MMRRoot(GetStateMMR(nextHeight - 1))
    BY <2>1, <2>2 DEF IInv, SnapshotInv
  <2> QED
    BY <2>3, RootLeavesOfRoot
<1>11. Ledger!Derive(l, B) =
         [new EXCEPT !.height = nextHeight,
                     !.celestiaHeight = nextHeight + Offset,
                     !.parentHash = HeaderHash(last),
                     !.stateRoot = MMRRoot(RootLeaves(last.stateRoot) \o NewLeaves(new))]
  BY <1>5, <1>9, LedgerOperators DEF Ledger!Derive
<1>12. NewLeaves(ProducedBlock) = NewLeaves(new)
  BY <1>3 DEF ProducedBlock, NewBlock, NewLeaves
<1>13. AppliedBlock =
         [new EXCEPT !.height = nextHeight,
                     !.celestiaHeight = nextHeight + Offset,
                     !.parentHash = HeaderHash(last),
                     !.stateRoot = MMRRoot(GetStateMMR(nextHeight - 1) \o NewLeaves(new))]
  <2>1. PICK r, p : /\ r = MMRRoot(GetStateMMR(nextHeight - 1) \o NewLeaves(new))
                    /\ p = HeaderHash(last)
    OBVIOUS
  <2>2. AppliedBlock = [ProducedBlock EXCEPT !.parentHash = p, !.stateRoot = r]
    BY <1>12, <2>1 DEF AppliedBlock
  <2>3. AppliedBlock = [new EXCEPT !.height = nextHeight, !.celestiaHeight = nextHeight + Offset,
                                   !.parentHash = p, !.stateRoot = r]
    BY <1>3, <2>2 DEF ProducedBlock, NewBlock
  <2> QED
    BY <2>1, <2>3
<1> QED
  BY <1>3, <1>5, <1>8, <1>10, <1>11, <1>13

LEMMA CommitRefines ==
  ASSUME IInv, SyncedInv, Commit
  PROVE  Ledger!Extend
<1>1. /\ finalizedHeight \in Nat /\ nextHeight = finalizedHeight + 1
      /\ finalizedHeight' = nextHeight
      /\ DOMAIN blocks = 0..finalizedHeight /\ DOMAIN blocks' = 0..nextHeight
      /\ blocks'[nextHeight] = AppliedBlock
      /\ \A h \in 0..finalizedHeight : blocks'[h] = blocks[h]
      /\ UNCHANGED da
  BY CommitFacts
<1>2. Chain' = Append(Chain, AppliedBlock)
  <2>1. PICK new, old, fh : new = blocks' /\ old = blocks /\ fh = finalizedHeight
    OBVIOUS
  <2>2. ChainOf(new, fh + 1) = Append(ChainOf(old, fh), new[fh + 1])
    BY <1>1, <2>1, ChainGrows
  <2> QED
    BY <1>1, <2>1, <2>2 DEF Chain
<1>3. Chain # <<>>
  BY <1>1, ChainIs DEF Chain
<1>4. /\ \A i \in DOMAIN da[nextHeight + Offset] :
           Envelope[da[nextHeight + Offset][i]].kind # "invalid"
      /\ AppliedBlock = Ledger!Derive(Chain, da[nextHeight + Offset])
      /\ Len(Chain) = nextHeight
  BY CommittedIsDerived
<1>5. nextHeight + Offset <= Len(da)
  BY DEF IInv, ControlInv, Commit, InBlock
<1>6. /\ Chain # <<>>
      /\ Len(Chain) + Offset <= Len(da)
      /\ \A i \in DOMAIN da[Len(Chain) + Offset] :
           Envelope[da[Len(Chain) + Offset][i]].kind # "invalid"
      /\ Chain' = Append(Chain, Ledger!Derive(Chain, da[Len(Chain) + Offset]))
      /\ UNCHANGED da
  BY <1>1, <1>2, <1>3, <1>4, <1>5
<1> QED
  BY <1>6, Zenon DEF Ledger!Extend, Chain, ChainOf

\* The genesis block is created once; a restart before block 1 commits the same
\* block again, which the ledger does not see.
LEMMA GenesisRefines ==
  ASSUME IInv, CommitGenesis
  PROVE  Ledger!CreateGenesis \/ UNCHANGED <<da, Chain>>
<1>1. /\ tx.block = {GenesisBlock} /\ tx.finalized = {} /\ finalizedHeight = 0
      /\ GenesisBlock.height = 0
  BY DEF IInv, CommitGenesis, StagedInv, ControlInv, GenesisBlock, NewBlock
<1>2. blocks' = Put(blocks, 0, GenesisBlock) /\ finalizedHeight' = 0 /\ UNCHANGED da
  BY <1>1 DEF CommitGenesis, CommitBatch
<1>3. CASE 0 \in DOMAIN blocks
  <2>1. blocks[0] = GenesisBlock /\ DOMAIN blocks = 0..0
    BY <1>1, <1>3 DEF IInv, GenesisInv, FinalizedPrefix
  <2>2. DOMAIN blocks' = 0..0 /\ blocks'[0] = GenesisBlock
    BY <1>2, <2>1 DEF Put
  <2>3. /\ ChainOf(blocks, 0) = [i \in 1..(0 + 1) |-> blocks[i - 1]]
        /\ ChainOf(blocks', 0) = [i \in 1..(0 + 1) |-> blocks'[i - 1]]
    <3>1. PICK new : new = blocks'
      OBVIOUS
    <3>2. DOMAIN new = 0..0
      BY <2>2, <3>1
    <3>3. ChainOf(new, 0) = [i \in 1..(0 + 1) |-> new[i - 1]]
      BY <3>2, ChainIs
    <3>4. ChainOf(blocks, 0) = [i \in 1..(0 + 1) |-> blocks[i - 1]]
      BY <2>1, ChainIs
    <3> QED
      BY <3>1, <3>3, <3>4
  <2>4. \A i \in 1..(0 + 1) : blocks'[i - 1] = blocks[i - 1]
    BY <2>1, <2>2
  <2> QED
    BY <1>1, <1>2, <2>3, <2>4 DEF Chain
<1>4. CASE 0 \notin DOMAIN blocks
  <2>1. blocks = <<>>
    BY <1>1, <1>4 DEF IInv, FinalizedPrefix
  <2>2. Chain = <<>>
    BY <2>1, ChainEmpty DEF Chain
  <2>3. DOMAIN blocks' = 0..0 /\ blocks'[0] = GenesisBlock
    BY <1>2, <2>1 DEF Put
  <2>4. Chain' = <<GenesisBlock>>
    <3>1. PICK new : new = blocks'
      OBVIOUS
    <3>2. ChainOf(new, 0) = [i \in 1..(0 + 1) |-> new[i - 1]]
      BY <2>3, <3>1, ChainIs
    <3>3. [i \in 1..(0 + 1) |-> new[i - 1]] = <<GenesisBlock>>
      BY <2>3, <3>1
    <3> QED
      BY <1>2, <3>1, <3>2, <3>3 DEF Chain
  <2>5. Chain = <<>> /\ Chain' = <<Ledger!GenesisBlock>> /\ UNCHANGED da
    BY <1>2, <2>2, <2>4, LedgerOperators
  <2> QED
    BY <2>5, Zenon DEF Ledger!CreateGenesis, Chain, ChainOf
<1> QED
  BY <1>3, <1>4

\* Every step of the node is a step of the ledger, or leaves it alone.
LEMMA NextRefines == IInv /\ SyncedInv /\ [Next]_vars => [Ledger!Next]_<<da, Chain>>
<1> SUFFICES ASSUME IInv, SyncedInv, [Next]_vars
             PROVE  Ledger!Next \/ UNCHANGED <<da, Chain>>
  OBVIOUS
<1>1. CASE Commit
  BY <1>1, CommitRefines DEF Ledger!Next
<1>2. CASE CommitGenesis
  BY <1>2, GenesisRefines DEF Ledger!Next
<1>3. CASE CelestiaBlock
  <2>1. (\E bs \in Contents : da' = Append(da, bs)) /\ UNCHANGED <<blocks, finalizedHeight>>
    BY <1>3 DEF CelestiaBlock, store
  <2>2. Ledger!CelestiaBlock
    BY <2>1 DEF Ledger!CelestiaBlock
  <2> QED
    BY <2>2 DEF Ledger!Next
<1>4. CASE UNCHANGED <<da, store>>
  BY <1>4 DEF store, Chain
<1> QED
  BY <1>1, <1>2, <1>3, <1>4
  DEF Next, SyncChain, Start, Crash, Stop, ReadFinalizedHeight, vars,
      CreateGenesisBlock, LatestHeight, CatchUp, Subscribe, ReceiveHead, FollowHead,
      SyncChunk, SyncFileManifest, SyncDirectoryManifest, SyncInvalidBlob, ProduceBlock,
      ApplyBlock, ApplyBlockError, FinalizeBlock, PublishNewHeader, GetBlockByHeight

LEMMA InitRefines == Init => Ledger!Init
<1> SUFFICES ASSUME Init PROVE Ledger!Init
  OBVIOUS
<1>1. Chain = <<>> /\ da \in [1..Offset -> Contents]
  BY ChainEmpty DEF Init, Chain
<1> QED
  BY <1>1, Zenon DEF Ledger!Init, Chain, ChainOf

\* The node implements the ledger: for every namespace, every Celestia history
\* and every pattern of crashes, the stored chain grows only by the block that
\* the blocks below it and the blobs of its one Celestia height determine.  So
\* of two nodes that follow the same Celestia, one stores a prefix of the
\* chain of the other.
THEOREM LedgerTheorem == Spec => LedgerSpec
<1>1. Spec => []SyncedInv
  BY InitSynced, NextSynced, Invariance, PTL DEF Spec
<1>2. Spec => Ledger!Init /\ [][Ledger!Next]_<<da, Chain>>
  BY <1>1, InitRefines, NextRefines, Invariance, PTL DEF Spec
<1> QED
  BY <1>2, PTL DEF LedgerSpec, Ledger!Spec, Chain, ChainOf
=============================================================================
