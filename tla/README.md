# blobcast in TLA+

This directory specifies the core of blobcast: a full node that derives a rollup
from the blobs of one Celestia namespace, the copy of such a node's state by another, the
feed of new headers to subscribers, the indexer that follows it and the explorer that reads
the index, the upload and the export of directories, the gateway, the REST API, and the
encodings and commitments of blocks. TLC checks the specifications on small instances and
TLAPS proves the main invariants for every instance. Paths below are relative to the
repository root.

## The system

| part | state it keeps | operations | what makes it correct |
|---|---|---|---|
| **Chain synchronisation** `pkg/sync/chain.go`, `cmd/node/start.go` | `nextHeight`, `latestCelestiaHeight`, `prevBlock`; the pending transaction; the process-wide header-hash cache | `SyncChain`: genesis, historical catchup, live loop; per height `ProduceBlock` (`SyncBlobs`), `ApplyBlock`, `FinalizeBlock`, `Commit`, `publishNewHeader` | the stored chain is a linked, append-only, gap-free prefix; every block is a function of the Celestia history; everything recorded can be resolved |
| **Chain state** `pkg/state/chain.go`, `transaction.go` | pebble: blocks, hash index, MMR snapshots, chunks, manifests, finalized height | reads; one transaction at a time, committed as one batch | all or nothing, at any crash |
| **Header feed** `pkg/sync/chain.go` 575-661, `pkg/grpc/rollup/server.go` | the subscriber map, one 100-slot channel each | `SubscribeToNewHeaders`, `Unsubscribe`, `publishNewHeader`, `SubscribeToHeaders` (history, then live) | a subscriber misses no height; a slow or dead one never stops the chain |
| **Rapid sync** `pkg/sync/grpc.go`, `pkg/grpc/sync/server.go` | job and result channels, the batch being collected | `StreamBlocks`; receiver, worker pool, batch committer | the copy has no holes; finalized means stored; it terminates |
| **Submitter and upload** `pkg/sync/submit.go`, `sync.go`, `manifest.go`, `filesystem.go`, `pkg/state/upload.go` | two queues, the open batch; one upload record per chunk, file and directory | `Submit`, `run`, `submitBatch`, `PutFileData`, `UploadDirectory` | each item is answered once, with its own blob's identifier; an interrupted upload resumes |
| **Indexer** `pkg/indexer/service.go`, `pkg/state/indexer.go` | `lastIndexed`; the SQL index | subscribe, `indexBlock`, reconnect | every finalized block is indexed completely |
| **Cryptographic structures** `pkg/crypto/merkle`, `pkg/crypto/mmr` | peaks, nodes, leaf indexes | `AddLeaf`, `Root`, snapshots, proofs | proofs verify exactly for the leaves; a snapshot restores the range |
| **Codecs** `pkg/types`, `pkg/util` | none | block and identifier encodings | round trips |
| **Storage service** `pkg/grpc/storage`, `pkg/api/node` | none (reads the chain state) | chunks, manifests, file data, batches of manifests | answers only with complete, verified data |
| **Export** `pkg/sync/filesystem.go`, `cmd/files/export.go`, `pkg/storage`, `pkg/encryption` | the files and directories on disk | `ExportDirectory`, `ExportFile`, `WriteFile`, `Decrypt` | success means the disk has exactly the file; what an interrupted export left at a file's own place does no harm |
| **Gateway** `cmd/gateway` | none | `directoryHandler`, `serveFile` | serves the bytes asked for; a listing shows every file once |
| **REST API** `pkg/api/rest`, `pkg/grpc/rollup` | its own header-hash cache | chain, block and manifest routes | its answers agree with each other, for ever |
| **Explorer** `pkg/explorer` | none (reads the index) | listings, details, search, analytics | pages are consistent although the indexer writes between their queries |

The parts meet as follows. Celestia is the only input of `SyncChain`, which is the only
writer of the chain state of a running node. gRPC handlers read the same store
concurrently, without the transaction, and share the header-hash cache with `SyncChain`.
After each commit `publishNewHeader` hands the header to the subscribers' channels; the
indexer is the main subscriber and reads blocks and manifests back over gRPC; the explorer
reads the indexer's database, one query after another, while it is written. Export, gateway
and REST API are processes of their own that only call the node's services.
`blobcast node sync` fills a chain state from another node and later `blobcast node
start` continues from it. `blobcast files submit` writes to Celestia only; the node sees
its blobs like anyone's.

What is hard here: a process that may die between any two steps, with a store that must
be right afterwards; a cache keyed by height that outlives the value it was computed from;
a derived state (the MMR) that is stored only at some heights and inherited at the others;
acceptance rules that depend on the order of blobs within a height; heads that arrive, or
are missed, while a long catchup runs; several goroutines around bounded channels in the
feed, the rapid sync and the submitter.

## Modules

* `Envelopes` is the shared vocabulary. A blob is named by its commitment; `Envelope`
  says what it decodes to, which may be any kind of lie: wrong sizes, wrong hashes,
  references that do not exist, or nothing decodable. Hashes and roots are symbolic terms,
  so two are equal exactly if they commit to the same thing. `FileMatches` and
  `DirMatches` compute sizes, concatenations and Merkle roots as the code does.
* `BlobcastChain` is the node. Each action is one stretch of `SyncChain` between two
  points at which another goroutine, Celestia or a crash can be observed:

  | action | code |
  |---|---|
  | `ReadFinalizedHeight`, `CreateGenesisBlock`, `CommitGenesis`, `LatestHeight` | `SyncChain` up to line 103, `CreateGenesisBlock` |
  | `CatchUp` | one turn of the historical loop, 107-124, with `GetBlobs` |
  | `Subscribe`, `ReceiveHead`, `FollowHead` | the live loop, 159-181 |
  | `SyncChunk`, `SyncFileManifest`, `SyncDirectoryManifest`, `SyncInvalidBlob` | one iteration of `SyncBlobs` each |
  | `ProduceBlock`, `ApplyBlock`, `ApplyBlockError`, `FinalizeBlock`, `Commit`, `PublishNewHeader` | the calls of the same names |
  | `GetBlockByHeight(h)` | a gRPC reader, which fills the hash cache |
  | `Start`, `Crash` | `runStart`; a kill, or an error of Celestia that ends `SyncChain` |
  | `CelestiaBlock` | Celestia (external) |

  The pebble store is seven variables, written only by `CommitBatch`. The pending
  `ChainStateTransaction` is the record `tx`. `hashCache` is `blockHeaderHashCache`;
  `Hash` looks there first, exactly as `BlockHeader.Hash` does, so that a hash taken too
  early would be wrong in the model too.
* `RollupLedger` is what the node promises: a ledger that only grows, each block given by
  one function (`Derive`) of the blocks below and of one Celestia height's blobs. It has no
  process, transaction, snapshot or cache. `BlobcastChain` is checked, and proved, to
  implement it (`LedgerSpec`), the ledger being the stored blocks.
* `RapidSync` is `blobcast node sync`: the receiver, the worker pool and the batch committer
  of `syncWithStream` around the two channels, and the process that runs them.

  | action | code |
  |---|---|
  | `UpToDate`, `SyncChainFromGrpc` | `SyncChainFromGrpc`, with both early ends and the start of the goroutines |
  | `StreamBlocks`, `StreamEnds`, `StreamFails` | the receiving goroutine, with the remote's `StreamBlocks` |
  | `TakeJob`, `SendResult`, `WorkerExits` | `blockWorker`, `processStreamedBlock` |
  | `Collect`, `CommitBatch`, `CommitFails`, `CommitterEnds` | `batchCommitter`, `commitBatch` |
  | `CloseResults`, `Return`, `Exit`, `Kill` | the waits at the end of `syncWithStream`; the end of the process |

  The remote is a `BlobcastChain` node, of which only `FinalizedPrefix` and `AppendOnly`
  are used: a block is named by its height and has one content. The local store is the set
  of heights with a block, the set with a snapshot, and the finalized height.
* `HeaderFeed` is one node, its subscriber map, one gRPC handler per stream, and indexers as
  clients. `TakeSnapshot`, `Send`, `SendTimeout` and `DisconnectSlow` are the stretches of
  `publishNewHeader` between its locks; `ReadFinalizedHeight`, `SendHistory`, `GoLive`,
  `SendLive` and `HandlerReturns` those of the handler `SubscribeToHeaders`, whose deferred
  `Unsubscribe` is part of the last. `Window` stands for gRPC flow control: a handler blocks
  in `Send` while the client does not read. A client that meets an error in `indexBlock`
  subscribes again and leaves its old stream open, as the code does.
* `Indexer` opens up the one step `IndexNext` of `HeaderFeed`: `indexBlock` puts the block's
  row, then the rows of its chunks, files and directories, then the block's row again, each
  its own statement on tables with the code's keys, `ON CONFLICT` clauses and foreign keys.
  `indexChunk`, `indexFile` and `indexDirectory` execute one statement each; an item whose
  statement fails, or whose foreign key is missing, is skipped (`ItemFails`,
  `ForeignKeyFails`). The handler of its stream is `SubscribeToHeaders`, `SendHistory` and
  `GoLive`: it subscribes, reads the finalized height, sends the history from the requested
  height up to that one, and then every header that was published since it subscribed, whatever
  height was requested (`HeaderSent`). So headers published while the history was sent come a
  second time, and on a node that is behind `--start-height` so do headers at or below it, whose
  blocks are indexed. That none is lost on the way is `HeaderFeed`'s `NoGap`.
* `Explorer` extends it with the web server: each handler is an action per query
  (`handleHome`, `handleBlocks`, `handleBlockDetails`, ... `apiGetAnalytics`), with the failures
  it tolerates and those it gives up on, and a client that follows a listing page by page
  (`Get`, `NextPage`, `Leave`). The indexer steps between any two queries.
* `Submitter` is the goroutine `run` with its two queues, the open batch and the answers it
  gives, and Celestia as `CelestiaDA.StoreBatch` sees it: a transaction is included and
  answered (`BatchStored`), included but not answered and submitted again by `Retry`
  (`BatchAnswerLost`), or given up (`BatchRefused`). A commitment is the blob itself.
* `Upload` extends it with `blobcast files submit --dir`: per file the goroutine of
  `UploadDirectory` through `PutFileData` (`UploadFile`, `SubmitChunk`, `AwaitChunk`,
  `SubmitManifest`, `AwaitManifest`, `FileFails`), then `PutDirectoryManifest`
  (`DirectoryStored` and its failures), around the upload records, which together with
  Celestia survive the process (`Exit`, `Kill`).
* `StorageService` is what a node serves: chunks and manifests that it accepts while it serves
  (`Sync`), and the calls over them.
* `Export` is `blobcast files export`: the stretches of `ExportFile` and `ExportDirectory`
  between two calls or accesses to the disk (`EnsureTarget`, `ExportDirectory`, `CheckExisting`,
  `FetchData`, `WriteFile`), with failing calls (`CallFails`), a disk that fails at any access
  (`DiskFails`; `StatFails`, which `Exists` takes for an absent file) and kills, also in the
  middle of a write (`WriteStops`: some of the directories made, or the file opened and part of
  it written). The disk has files and directories: `EnsureDir` makes those above a file and
  fails at a file in their place, and a directory in the place of a file can be neither read nor
  written. `Encrypt` and `Decrypt` are terms that open only under their key.
* `Gateway` is `directoryHandler` and `serveFile`, one action per call to the node, and a
  browser that downloads, or visits all pages it finds links to. `NodeClients` composes the
  node with either client; clients share nothing, so one at a time is enough.
* `BlockCodec` is `pkg/types`, `pkg/util` and `pkg/crypto/merkle`: bytes are a length and, at
  their offsets, the words that were written at once, with a width and a byte order; reading
  anything else than what was written at an offset gives garbage. `MerkleMountainRange` is `pkg/crypto/mmr`: `AddLeaf` with
  its carries, bagging, the bit arithmetic of positions, inclusion proofs, snapshots; and a
  reference definition, one perfect tree per bit of the number of leaves.
* `BlockCommitments` is a node that builds, hashes, stores and reads back blocks with these
  (`CreateGenesisBlock`, `AddBlock`, `RestartNode`); a height is one step, since
  `BlobcastChain` has shown what a crash inside it does. It justifies that `BlobcastChain`
  takes a range as its list of leaves and a root as the list it commits to (`RangeExact`,
  `RootBinds`). `RestApi` is the REST process over that node's rollup and storage services,
  with its own cache and restarts.
* `MCBlobcastChain`, `MCRapidSync`, `MCHeaderFeed`, `MCExplorer`, `MCUpload`, `MCNodeClients`
  and `MCRestApi` are the instances for TLC.
* `BlobcastChainProofs` (with the refinement of `RollupLedger`), `RapidSyncProofs`,
  `HeaderFeedProofs`, `UploadProofs`, `ExplorerProofs` (the indexer), `ListingProofs` (the pages
  of the explorer), `NodeClientsProofs` (export and gateway) and `RestApiProofs` (the codecs,
  the Merkle roots and the REST API) hold the theorems.

Some variables have no counterpart in the code. History variables record what a property
compares with: `disturbed` (`RapidSync`) and `failures` (`Indexer`) that something failed, `there` and
`seen` (`Explorer`) what a reader was owed and shown, `before`, `beforeDirs`, `ready` and `failed`
(`Export`), `known`, `lost` and `found` (`Gateway`), `made` and `leaves` (`BlockCommitments`). `losses`
(`HeaderFeed`), `failures` and `runs` (`Export`) also count up to the bounds `MaxLosses`,
`MaxFailures` and `MaxRuns`. The constants named `Failures` select which kinds of failures a run
allows.

## Runs

| run | property | question |
|---|---|---|
| `chain` | `FinalizedPrefix` | are exactly the heights up to the finalized one stored, after any crash? |
| | `ParentLinked`, `HashIndexExact` | do parent hashes and the hash index agree with the stored headers, although they come from the cache? |
| | `StateRootExtends` | does each state root commit to the whole history, across empty blocks and restarts? |
| | `ReferencesResolved` | can every recorded file and directory be rebuilt from what was recorded before it? |
| | `StoreMatchesBlocks` | does the storage service hold exactly what blocks list? |
| | `AppliesUnlessFirstEmpty` | can any chain but one whose block 1 recorded nothing stop at a block that does not apply? |
| | `AppendOnly` | does any step rewrite or forget anything? |
| | `LedgerSpec` | is each block a function of the history alone? |
| | `LearnedHeightsFinalized` | is every height the node heard of finalized, the heads missed before the subscription included? |
| `rapid_sync` | `NoLoss` | is every received block in some goroutine's hands or stored? |
| | `CompleteOnSuccess` | does success mean that all requested heights are stored? |
| | `SameState` | is an undisturbed copy a store that a node can go on from, snapshots included, although batches are committed out of order? |
| | `SyncReturns` | does an undisturbed copy end? |
| `rapid_killed` | `SameStateAlways` (violated) | the same of a copy that was interrupted |
| `rapid_hang` | `SyncAlwaysReturns` (violated) | does the command end after a failed commit? |
| `header_feed` | `NoGap` | does an indexer ever skip a block, at the switch from history to live, when it is slow, when it or the node restarts? |
| | `ClosedOnce` | can two goroutines close the same channel? |
| | `PublishReturns` | can a slow, dead or abandoned subscriber stop the chain? |
| | `EventuallyIndexed` | does every finalized block reach every indexer? |
| `feed_shutdown` | `ShutdownCompletes` (violated) | does a node whose chain stopped exit? |
| `explorer` | `NoBlockSkipped` | are the indexed heights above the start height contiguous, whatever statement failed, wherever the indexer was killed and whichever headers came below it? |
| | `StorageCounts` | does a block's storage count only items whose rows are all there? |
| | `RowsComplete` | is every row that is begun completed, although a header that comes twice resets it? |
| | `PagesCover` | has a reader of a listing that grows meanwhile been shown every row that was there? |
| | `StorageBacked` | does a page ever show storage for items it does not show, its queries being made one by one? |
| | `ChunksListed` | are a file's chunks listed in order and completely, also while it is indexed again? |
| `indexer_killed` | `StorageUpdated` (violated) | is a block that counts as indexed complete, also if the indexer was killed? |
| `upload` | `BatchFits` | does a transaction exceed the limit? |
| | `ItemsKept` | is every submitted item in one place, and answered once? |
| | `RecordsPublished` | does every upload record name a blob on Celestia with the right contents, after kills, lost answers and repeated submissions, and the present contents of a directory that changed? |
| | `ManifestsResolve` | are all references of a published manifest at lower heights, so that nodes accept it? |
| | `UploadReturns` | does the command end, with full queues and failing files? |
| `rest` | `RangeExact` | is the stored range, after any restarts, the reference's, with the last state root its root and every leaf at its index? |
| | `ProofsVerify` | does a proof verify at every later size, and only for its own leaf? |
| | `BlocksDecode` | is a block read back the block written, with the hash it is indexed by and its child refers to, although bytes lose fractions of seconds and long chain ids? |
| | `RootBinds` | can two lists that one height could have share a Merkle root, the last node being repeated? |
| | `RestConsistent` | is every block, parent and manifest the API has shown found again by the hash, height and identifiers it showed, after restarts of either process? |
| `clients` | `ExportExact` | does a successful export leave exactly the files' data, over partial, foreign and encrypted files, at every path that the manifest has once and that did not have the encrypted text of the same file? |
| | `ExportCompletes` | can anything stop an export but a failed call or disk, an empty file, a wrong key, or a file where it needs a directory or the reverse? |
| | `GatewayServes` | are the bytes served, their count and the Content-Range those of the file asked for? |
| | `ListingComplete` | does a browser that follows all links see every file once, whatever calls failed? |
| `export_sealed` | `RecreatedExactly` (violated) | the same with the key over what an export without it has left |

The runs `chain` and `rapid_sync` also check their modules' `TypeOK`, which contains the
capacity of the channels.

Bounds of the chain. `MaxCelestia = 4` with `Offset = 1` gives the genesis height and three
derived ones: enough for an empty block between two others, for a reference to an earlier
height, for a restart with the parent in the store and then one in memory, and for catchup
followed by live heads. The five blob lists contain a file before, after and apart from its
chunks, a directory before, with and apart from its file, a manifest with a wrong size, and
an undecodable blob after a valid one. The blobs of the offset height are fixed: the genesis
block is built without them and no step reads them. Nothing else is bounded: crashes, restarts and
reads may happen any number of times.

Bounds of the others. `rapid_sync` has two workers, batches of two and heights up to 4: two
full batches and a partial one, a batch whose heights have a hole below, a second copy that
resumes in the middle, and any number of kills. `rapid_hang` needs 6, so that both channels
and both workers are full while the stream has more to send. `header_feed` has one indexer,
two streams (the one it reads and the one it left), channels and window of one message,
three heights and one lost connection: every channel fills, and a header is published in
each of the handler's phases. The node may be killed or stop, and blocks may fail to index,
any number of times. `upload` has two files that share a chunk, one chunk that
exceeds the transaction limit by itself, queues of one item, and five inclusions: an upload
needs four, so that one may be lost or made by an earlier command that was killed; between
commands the directory may change: it begins with two equal files, and one of them gets the
large chunk as its second.

`explorer` has three blocks: a chunk; a chunk with an empty file and a file that repeats the
first chunk; and a directory. So a manifest comes with and after what it refers to. It has start
heights 0 and 2: with 2, either the foreign key of the directory is missing, or the node is behind
and one or both of the first blocks are indexed although they are not above it. It has pages of one row, one kill or failure at any statement, and any number of stream errors
and failing queries.
`clients` has three chunks, files that are plain, encrypted, empty and with a wrong hash,
directories with subdirectories, three commands in any combination of keys over disks that are
empty or hold other files of the same or another size, a directory at a file's place or a file at
the target's, a command that leaves a file where another needs a directory, pages of one file, and
ranges inside, at and beyond the ends. Commands are bounded, so a state in which all have been run has no
successor (`CHECK_DEADLOCK FALSE`). `rest` has three heights with up to nine leaves, past two
powers of two, an empty block after others, lists of up to four entries in different orders, one of them another with its last entry repeated, a
chain id longer than 255 bytes, times with and without fractions, and texts that are no hash,
height or identifier.

Fairness. `BlobcastChain!FairSpec` asks only that the sync goroutine goes on while the
process is up (weak fairness of `SyncChain`). Celestia need not produce heights, nobody need
call the gRPC server, and nobody need restart a stopped process: the deployment files of the
repository set no restart policy. The property therefore allows the process to end. In
`RapidSync` each goroutine that can take a step does (Go's scheduler); the remote answers;
nobody need run the command again. In `HeaderFeed` the publisher and each handler go on, and
the indexer, whose `Start` loops for ever, subscribes and reads; a send that waits ends after
five seconds. In `Upload` all goroutines go on and a submission
ends, at the latest after its 30 seconds; nobody need run the command again. The
other specifications state safety only.

## What does not hold

1. `commitBatch` finalizes the greatest height of whichever blocks arrived first. A copy
   that is interrupted between two batches leaves a hole that no later copy fills, and
   missing snapshots make a node started on it compute other state roots.
2. After an error in `batchCommitter` nobody drains `results`. If the stream has more
   blocks than the channels take, the command waits for ever and the error is not reported.
3. `GracefulStop` waits for live header streams, and nothing closes their channels.
4. The block's row is put before its items and is what a restarted indexer resumes from: a
   killed indexer leaves that block incomplete.
5. `ExportFile` compares what is at the target with the hash of the stored data, which is the
   encrypted text. After an export without the key, the same export with the key finds that
   text, writes nothing and reports success, although `docs/cli.md:97` says "The directory will
   be recreated exactly as it was uploaded."

Seen in the code, and visible in the modules, but without a run of their own:

* If block 1 records nothing, no snapshot is stored, and `GetStateMMR(1)` fails when block 2
  is applied; the error ends the process and recurs after each restart, although
  `pkg/grpc/sync/server.go:49` says that "empty blocks don't have their own MMR, they inherit
  from previous blocks". `AppliesUnlessFirstEmpty` says that this happens there and in no other
  chain; deployed networks have a non-empty block 1.
* `pendingFileManifests` is keyed by pointer, so a directory in the same Celestia block as its
  files is dropped, although `docs/architecture.md:95` asks only that its files were seen. This
  is deterministic, hence `RollupLedger` states it as the rule.
* The blobs of the offset height itself are never read (`CreateGenesisBlock`), although
  `docs/architecture.md:88` says "greater than or equal to height offset".
* A copy is "up to date" when the remote is one block ahead (`UpToDate`); a later batch may set
  the finalized height back, also in a copy that succeeds (`RapidSync!CommitBatch`).
* `--start-height h` starts at h + 1 (`NewIndexerService`), although `cmd/indexer/start.go:30`
  calls it the "Block height to start indexing from"; and on a node that is behind h, blocks at
  or below h are indexed as they are published, and after a restart of the indexer some of them
  may be left out (`NoBlockSkipped` is about the heights above h). A header that comes twice
  resets its block's row while `lastIndexed` may be above it, so that a kill, or an error that ends
  `indexBlock` just then, leaves the row without its storage: the next stream begins above it.
  `RowsComplete` is about indexers that only lost streams.
* Files and directories are listed by block height alone: two of the same block may change
  places between two pages, and a reader may miss one (`PagesCover` excepts them). A file that
  repeats a chunk lists it once, at its last position, so that fewer chunks are listed than
  `chunk_count` says; a directory with one file at two paths keeps the last (`Upsert`).
* An empty file is never exported: its data arrives as nil. A file that an earlier export left
  where a later one needs a directory stops that one for good, and so does the reverse; nothing
  is removed first (`Obstructed`).
* Nothing checks a directory manifest for repeated paths: the later file is exported over the
  earlier, and if that happens to have the data that the later one has before decryption,
  it is taken for exported and not written (`ExportExact` excepts paths that come twice).
* A range "bytes=-n" is served as the first n + 1 bytes (`ServeRange`). A failed call to the
  node is shown as 404 by the gateway and by the REST routes of manifests.
* An identifier whose text has another length than 40 bytes is taken for the zero identifier
  (`BlobIdentifierFromBytes`); while only the genesis block exists there is no latest block
  (`GetLatestBlockRPC`).
* With a leaf that was added twice, `LeafIndex` would be wrong after a restore (`Snapshot`,
  `Restore`); a node adds none twice, since every root contains the Celestia height.
* A directory that changed after its upload was complete is taken for uploaded, since its record
  is found by its path (`DirKey`, `AlreadyComplete`): `RecordsPublished` and `ManifestsResolve`
  say nothing of it, and are about the chunks and files that a changed directory shares with an
  upload that was not completed. With an encryption key every attempt
  encrypts anew, so that an interrupted upload finds no record.

## Proofs

Every theorem is `Spec => []P` for the `P` of a run, or the refinement `Spec => LedgerSpec`,
for all values of the constants that satisfy the module's named assumptions. Bounds such as
`MaxHeight` and `MaxFailures` are constants too: a theorem holds for each of them. None of the
properties is inductive alone; the parts that were added follow, by component. TLC checked each
inductive invariant on the instance of the run before it was proved.

| module | theorems | assumptions on the constants |
|---|---|---|
| `BlobcastChainProofs` | `TypeOK`, `FinalizedPrefix`, `ParentLinked`, `HashIndexExact`, `StateRootExtends`, `StoreMatchesBlocks`, `ReferencesResolved`, `AppliesUnlessFirstEmpty`, the action property `AppendOnly`, the refinement `LedgerSpec` | the offset is positive; blob lists are sequences of blobs; envelopes are of a known kind |
| `RapidSyncProofs` | `TypeOK` (channel capacities included), `NoLoss`, `CompleteOnSuccess`, `SameState` | the pool is finite and not empty; batches are not empty |
| `HeaderFeedProofs` | `TypeOK`, `NoGap`, `ClosedOnce` | channels and windows take at least one message |
| `UploadProofs` | `TypeOK`, `RecordsPublished`, `ManifestsResolve`, `ItemsKept`, `BatchFits` | a directory maps paths to lists of chunks (`ContentAssumption`); queues take at least one item; for `BatchFits`, the size of a blob is a number |
| `ExplorerProofs` | `IndexerTypeOK`, `NoBlockSkipped`, `StorageCounts`, `RowsComplete` | bodies and manifests are lists, and bodies name manifests that exist (`BodyAssumption`) |
| `ListingProofs` | `PagesCover`, `ChunksListed`, `StorageBacked` | moreover, no two blocks have a chunk, file or directory in common (`IdentifierAssumption`: the identifier contains the Celestia height) |
| `NodeClientsProofs` | `ExportExact`, `ExportCompletes`, `GatewayServes`, `ListingComplete` | manifests are lists, a path is a sequence of names, and no identifier is of a file and of a directory (`ManifestAssumption`); ranges are absent, malformed or pairs (`GatewayAssumption`) |
| `RestApiProofs` | `BlocksDecode`, `RootBinds`, `RestConsistent` | the offset is a number; a height's bodies are records of three lists of commitments (`BodyAssumption`); chain ids are not empty (`ChainIDAssumption`) |

**The chain.** `IInv` adds:

* `ControlInv`: what each location says of `nextHeight`, of the finalized height and of
  `prevBlock` (if set, it is the stored block at the finalized height);
* `AcceptedInv`: what the transaction has collected was accepted by the rules, relative to
  the store and to the transaction;
* `StagedInv`: what is in the batch at each location, in particular that the staged hash is
  the hash of the staged block;
* `CacheInv`: the cache is right for every stored block, and beyond those knows only the
  block about to be committed. This is what fails if a block is hashed before its state
  root is set;
* `SnapshotInv`: the latest snapshot at or before a height exists if any does, and is the
  range the block's state root commits to;
* `GenesisInv`: block 0 is always the same block, so committing it again changes nothing.

Steps that leave the store alone preserve the store's part by `StoreUnchanged` and are
shown to preserve the process's part (`ProcessInv`) group by group; `CommitGenesisStep`
and `CommitStep` handle the two writes. For `AppliesUnlessFirstEmpty`, `FirstRecorded` adds that
a chain of two blocks has a snapshot at block 1: the second was only committed because there was
one to extend.

**The ledger.** A block is made by a loop over blobs with early exits and pending sets;
`Derive` gives it at once. `SyncedInv` connects them: after any number of iterations, what the
transaction has collected is what the rule picks among the blobs visited so far, each at the
place that its rank among the picked ones gives it. `Derive` is stated with ranks, not with a
filter, so that one more blob is one more element and no induction over sequences is needed.
Of all steps only the two commits change the ledger; `CommitGenesis` of an existing chain and
all others are stutters.

**Rapid sync.** `CompleteOnSuccess` follows from `NoLoss` only with what each wait of
`syncWithStream` has established, which is what `IInv` adds:

* `StreamInv`: the stream's position, and that the command passes the first wait only at the
  end of the stream with `blockJobs` closed;
* `WorkerInv`: a worker has returned only if `blockJobs` is closed and empty, and `results`
  is closed only if all have returned;
* `CommitterInv`: the committer has returned nil only if `results` is closed and drained and
  the last batch committed;
* `OutcomeInv`: success is reported only after all three.

Together, when success is reported no height is in flight, and `NoLoss` leaves the store.
Each hand-over is shown to lose nothing by lemmas on the range of a sequence under `Append`
and `Tail`, and of a function under `EXCEPT`. For `SameState`, `StateInv` adds that exactly the
stored non-empty blocks have snapshots and, of an undisturbed store, that a process at rest has
all heights up to the finalized one (`IdleInv`) and a copy at work has all below those it asked
for and none in flight above (`CopyInv`).

**Header feed.** The hazard is the time between the snapshot of the subscriber map and a
send, in which the handler may return and the client subscribe again. `RegisteredInv`: a
registered channel is open and has a handler, and one that the publisher still has to send to
but that is no longer registered is closed. `PrefixInv`: what an indexer has is a prefix of the
chain that reaches its last indexed height. `ReaderInv`: of the stream a client reads, what
is in the window, in the channel and still to be sent skips no height after the last indexed
one, though headers may come again; and the next header the publisher sends continues it.

**Upload.** An upload record is written from an answer, the answer from a batch, the batch from
queues; `RecordsPublished` therefore needs to know of every item on the way that its payload
belongs to its ticket (`PayloadInv`, `AnswerInv`), and of every goroutine that the chunks it no
longer waits for have records (`FileInv`). `HeightInv` bounds what is published, so that a new
inclusion is above all it refers to. `ItemsKept` needs `TicketInv`: the places of items are
disjoint, and the tickets in use are exactly those that some goroutine waits for. For
`BatchFits`, `BatchInv`: `currentBatchSize` is the number of bytes of the items in the batch
(`Bytes`, as pairs of an item's place and a byte of it), and a batch of more than one item is
within the limit, also while its next item is held back.

**Indexer.** `PositionInv`: neither `lastIndexed` nor the stream is ahead of the rows, so the next
header is of a block that has a row, or at or below the flag, or of the first block above it that
has none; when the handler goes live it has sent all headers that were published before it
subscribed, since they are not above the height up to which it sends the history. `StorageInv`:
`used` counts only complete items before the current one, and the statements of the current one
before `row` have been executed. `RowsInv`: without failures all items before the current one are
there, so a foreign key that can be found is found.

**Pages.** Rows are only added and keep their heights (`TablesInv` with `IdentifierAssumption`), so
the number of rows above a given one only grows. A row without an equal has that number, plus
one, as its place in every order that the query may choose (`PlaceIs`, by counting). `CoverInv`:
a row that was there and is not on an earlier page comes after those pages, and if it comes
after this one as well the total counts it, so that there is a next page (`MorePages`). The
chunks of a file have different positions, so their order exists and is unique (`OrderExists`).

**Storage shown.** A handler adds up storage first and lists or counts rows later. `BackedInv`: what
it read first was true of the tables then (`Reads`), and each later answer is at least what was
there at the first query (`AtLeast`), since rows are not removed. That the storage of a block is
covered by its own rows is `StorageInv`; that the sum over all blocks is covered by the
three counts is an argument about cardinality. A sum is the number of pairs of a block and a
unit of its storage (`StorageSum`); each pair leads to an item with a complete row, no two pairs
of different blocks to the same row (`OneBlock`, from `IdentifierAssumption`), and two of one
block only if the block lists the item twice, which `Repeats` counts.

**Export and gateway.** `StoreInv`: what the node serves is sound and complete, since it accepts a
manifest only then, and nothing is removed. `ExportInv`: of the targets that come once, those
before `next` are exact, or had the encrypted text when the command began, and the others are
untouched, and what is about to be written is the file's data or its decryption. `ReadyInv`: if
all was there when the export began, each call finds it. `DiskInv`: what the command has added to
the disk is what it needs, so whatever is in its way was there when it began, or is itself
needed both as a file and as a directory (`BlockedIs`).
`GatewayInv`: between its two calls the handler holds the file that was asked for.

**Browsing.** A browser visits a set of pages in any order. `BrowseInv`: the pages to visit are
pages that exist, what is shown is the page that was asked for, and each file of the directory
has either been shown once, or exactly one page still to visit leads to it: the page it is
on or an earlier one of the same directory, or one of a directory above (`LeadsTo`, `Covered`).
`VisitCovers` shows that a visit keeps this: the page's own files are shown, and of the others,
those of a subdirectory are led to by its first page and those further on by the next page
(`PageSplits`). At the end nothing is left to visit, so every file has been shown once.

**Blocks as bytes.** What is appended to bytes is read at its offset, and what was there before as
before (`ReadLeft`, `ReadRight`, `SliceLeft`, `SliceRight`). From this, field by field,
`BlockHeaderFromBytes` undoes `BlockHeader.Bytes` up to the fraction of the time and the end of a
long chain id (`HeaderDecodes`), and `BlockFromBytes` undoes `Block.Bytes` (`BlockDecodes`) for
lists of any length. `NodeInv`: what is stored are the blocks that were made, one for every
height, indexed by the hash of its header, each after the one its parent hash names
(`BlocksMade`, `BlocksStored`); the manifests of their lists are there (`KeysStored`); a cache holds
no other hashes than theirs (`CacheKnows`). It is inductive because the hash of a header that was
read back is the hash of the one written (`KeptBytes`): otherwise a restarted node, which hashes
a block it has read, would name another parent than one that still holds it in memory.

**REST API.** `RestInv` adds that the process's own cache, which outlives the node's restarts, is
right in the same sense, and that what the last answer showed are responses for blocks that were
made (`AnswerKnown`). Since no step of the node takes a block back (`NothingTakenBack`), asking
again by the hash, by the height or by the parent hash meets the same block.

**Merkle roots.** The last of an odd number of nodes is paired with itself, so that in general
[a, b, c] and [a, b, c, c] may have the same root; here they have not, because a leaf is hashed
with its index. The nodes of a level are pairwise different (`LevelsAre`), so a level determines
the one below it, its length included (`NextBinds`): only the last pair can be of a node with
itself. A leaf is never a pair (`LeafIsNoPair`), so two lists that have a level in common are
followed down to their leaves together (`LevelBinds`) and are equal (`RootBindsList`). Hashes are
terms, so this is a statement about the construction, up to collisions of BLAKE3. Statements
about every round are proved by the least round without them, which exists because numbers are
well-founded (`LeastNat`).

Left to TLC:

* liveness under fairness: `LearnedHeightsFinalized`, `SyncReturns`, `PublishReturns`,
  `EventuallyIndexed`, `UploadReturns`;
* `RangeExact` and `ProofsVerify`: what folds of `AddLeaf`, the loops over the bits of a position and
  the trees of the reference compute for every number of leaves needs induction over data,
  through powers of two that the provers do not know.

## Not modelled, and the plan

* A composition of a copy (`RapidSync`) with the node started on it (`BlobcastChain`), with
   the remote's chain as the abstract ledger.

`Submitter.Close` is not modelled: nothing calls it.

Out of reach or of no interest to a model: generated protobuf code, HTML templates and static
files, the columns of the index that no query selects by, the bits of AES-GCM, base36 and
protobuf, the backoff times of `Retry`, command-line parsing.
