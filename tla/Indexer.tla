------------------------------- MODULE Indexer -------------------------------
(***************************************************************************)
(* IndexerService.Start and indexBlock (pkg/indexer/service.go) on the     *)
(* tables of pkg/state/indexer.go.  A block is indexed by many statements, *)
(* each its own SQL transaction: its row in `blocks' with StorageUsed 0,   *)
(* the rows of its chunks, files and directories, then the row in `blocks' *)
(* again.  The indexer may be killed, and any statement may fail, between  *)
(* two of them; a statement whose foreign key is missing always fails.     *)
(*                                                                         *)
(* The header stream is used through what HeaderFeed establishes: first    *)
(* the history from the requested height on, then every header published   *)
(* since the handler subscribed, unfiltered.  Headers published while the  *)
(* history was sent come a second time, and so do headers at or below the  *)
(* requested height, if the flag is ahead of the node.                     *)
(*                                                                         *)
(* Left out: the columns no query selects by and no property reads (names, *)
(* hashes, times, sizes, tags).  Storage is counted in items: each chunk   *)
(* and manifest that was indexed adds 1.                                   *)
(***************************************************************************)
EXTENDS Integers, Sequences, FiniteSets

CONSTANTS
    MaxHeight,     \* bound on the node's finalized height
    Body,          \* Body[h]: the identifiers [chunks, files, dirs] of block h
    ChunksOf,      \* ChunksOf[f]: the chunks of a file manifest, in order
    FilesOf,       \* FilesOf[d]: the files [path, id] of a directory manifest
    StartHeights,  \* values of the flag --start-height, 0 if it is not given
    Failures,      \* which happen: "kill", "block", "item", "stream", "query"
    MaxFailures    \* bound on the number of kills and failures of blocks and items

Heights == 1 .. MaxHeight

ASSUME HeightAssumption == MaxHeight \in Nat /\ StartHeights \subseteq 0 .. MaxHeight

(* A list of identifiers, of the rows of a manifest. *)
IsList(s) == s \in Seq({s[i] : i \in DOMAIN s})

ASSUME BodyAssumption ==
    /\ DOMAIN Body = Heights
    /\ \A h \in Heights :
         /\ IsList(Body[h].chunks) /\ Body[h].files \in Seq(DOMAIN ChunksOf)
         /\ Body[h].dirs \in Seq(DOMAIN FilesOf)
    /\ \A f \in DOMAIN ChunksOf : IsList(ChunksOf[f])
    /\ \A d \in DOMAIN FilesOf : IsList(FilesOf[d])

(* SyncBlobs puts the Celestia height of a blob into its identifier: no two blocks have a *)
(* chunk, a file or a directory in common. *)
ASSUME IdentifierAssumption ==
    \A g, h \in Heights : g # h =>
        /\ \A i \in DOMAIN Body[g].chunks, j \in DOMAIN Body[h].chunks :
             Body[g].chunks[i] # Body[h].chunks[j]
        /\ \A i \in DOMAIN Body[g].files, j \in DOMAIN Body[h].files :
             Body[g].files[i] # Body[h].files[j]
        /\ \A i \in DOMAIN Body[g].dirs, j \in DOMAIN Body[h].dirs :
             Body[g].dirs[i] # Body[h].dirs[j]

ASSUME FailuresAssumption ==
    Failures \subseteq {"kill", "block", "item", "stream", "query"} /\ MaxFailures \in Nat

VARIABLES
    finalizedHeight,  \* of the node
    startHeight,      \* the flag
    \* the database
    storageUsed,      \* blocks: height -> storage_used
    chunks, files, directories,  \* blob id -> block_height
    fileChunks,       \* <<file, chunk>> -> chunk_index, from 1
    directoryFiles,   \* <<directory, file>> -> relative_path
    \* the process
    pc, lastIndexed,
    position, live,        \* the stream: last header received, live or history
    published, until,      \* its handler: last header published before it subscribed,
                           \* and the finalized height up to which it sends the history
    height, item, row,     \* indexBlock: the item, and its statement, to execute next
    used,                  \* its storageUsed
    failures               \* history: how often something other than the stream failed

node == <<finalizedHeight, startHeight>>
contents == <<chunks, files, directories, fileChunks, directoryFiles>>
db == <<storageUsed, contents>>
streamVars == <<position, live, published, until>>
indexing == <<height, item, row, used>>
indexerVars == <<node, db, pc, lastIndexed, streamVars, indexing, failures>>

-----------------------------------------------------------------------------
(* The items of block h in the order in which indexBlock visits them. *)
Tagged(kind, ids) == [i \in DOMAIN ids |-> [kind |-> kind, id |-> ids[i]]]

BlockItems == [h \in Heights |->
    Tagged("chunk", Body[h].chunks) \o Tagged("file", Body[h].files) \o Tagged("dir", Body[h].dirs)]
Items(h) == BlockItems[h]

(* The rows an item has besides its own: one per chunk of a file, per file of a *)
(* directory. *)
References(it) == CASE it.kind = "chunk" -> <<>>
                    [] it.kind = "file"  -> ChunksOf[it.id]
                    [] it.kind = "dir"   -> FilesOf[it.id]

(* INSERT ... ON CONFLICT (key) DO UPDATE. *)
Upsert(table, key, value) ==
    [k \in DOMAIN table \cup {key} |-> IF k = key THEN value ELSE table[k]]

(* MAX(height) of table blocks, 0 if it is empty. *)
GetLastIndexedHeight ==
    CHOOSE h \in {0} \cup DOMAIN storageUsed : \A g \in DOMAIN storageUsed : g <= h

(* The constructor takes the flag, if it is given, for the last indexed height. *)
NewIndexerService == IF startHeight = 0 THEN GetLastIndexedHeight ELSE startHeight

IndexerInit ==
    /\ finalizedHeight = 0 /\ startHeight \in StartHeights
    /\ storageUsed = <<>>
    /\ chunks = <<>> /\ files = <<>> /\ directories = <<>>
    /\ fileChunks = <<>> /\ directoryFiles = <<>>
    /\ pc = "subscribe" /\ lastIndexed = NewIndexerService
    /\ position = 0 /\ live = FALSE /\ published = 0 /\ until = 0
    /\ height = 0 /\ item = 0 /\ row = 0 /\ used = 0
    /\ failures = 0

(* The node finalizes a block. *)
Finalize ==
    /\ finalizedHeight < MaxHeight
    /\ finalizedHeight' = finalizedHeight + 1
    /\ UNCHANGED <<startHeight, db, pc, lastIndexed, streamVars, indexing, failures>>

Fails == failures < MaxFailures /\ failures' = failures + 1

(* The variables of a stream and of a call of indexBlock end with it. *)
CloseStream == position' = 0 /\ live' = FALSE /\ published' = 0 /\ until' = 0
EndBlock == height' = 0 /\ item' = 0 /\ row' = 0 /\ used' = 0

-----------------------------------------------------------------------------
(* The stream of headers.  The handler subscribes; the node publishes a header after it *)
(* has finalized its block, so the last one may be still to come. *)
SubscribeToHeaders ==
    /\ pc = "subscribe"
    /\ position' = lastIndexed
    /\ live' = FALSE
    /\ published' \in {finalizedHeight - 1, finalizedHeight} \cap Nat
    /\ until' = 0
    /\ pc' = "history"
    /\ UNCHANGED <<node, db, lastIndexed, indexing, failures>>

(* It reads the finalized height: the history it is going to send ends there. *)
SendHistory ==
    /\ pc = "history"
    /\ until' = finalizedHeight
    /\ pc' = "recv"
    /\ UNCHANGED <<node, db, lastIndexed, position, live, published, indexing, failures>>

(* All of the history, which may be none, has been received: from now on every header *)
(* after those published before the handler subscribed, whatever height was requested. *)
GoLive ==
    /\ pc = "recv" /\ ~live
    /\ position >= until
    /\ live' = TRUE
    /\ position' = published
    /\ published' = 0 /\ until' = 0
    /\ UNCHANGED <<node, db, pc, lastIndexed, indexing, failures>>

(* The next header can be received. *)
HeaderSent == pc = "recv" /\ position < IF live THEN finalizedHeight ELSE until

(* Recv returns an error. *)
StreamFails ==
    /\ "stream" \in Failures
    /\ pc \in {"history", "recv"}
    /\ pc' = "subscribe"
    /\ CloseStream
    /\ UNCHANGED <<node, db, lastIndexed, indexing, failures>>

-----------------------------------------------------------------------------
(* indexBlock. *)
PutBlockIndex(h, amount) == storageUsed' = Upsert(storageUsed, h, amount)

(* The next header arrives and its block is fetched and put, with StorageUsed 0. *)
BeginBlock ==
    /\ HeaderSent
    /\ position' = position + 1
    /\ PutBlockIndex(position + 1, 0)
    /\ height' = position + 1 /\ item' = 1 /\ row' = 1 /\ used' = 0
    /\ pc' = "index"
    /\ UNCHANGED <<node, contents, lastIndexed, live, published, until, failures>>

(* Mutant of BeginBlockFails: lastIndexed is set before indexBlock is called. *)
BeginBlockFailsAdvanced ==
    /\ "block" \in Failures
    /\ HeaderSent
    /\ lastIndexed' = position + 1
    /\ pc' = "subscribe"
    /\ CloseStream
    /\ Fails
    /\ UNCHANGED <<node, db, indexing>>

(* indexBlock returns an error before anything is put. *)
BeginBlockFails ==
    /\ "block" \in Failures
    /\ HeaderSent
    /\ pc' = "subscribe"
    /\ CloseStream
    /\ Fails
    /\ UNCHANGED <<node, db, lastIndexed, indexing>>

Current == Items(height)[item]
AtItem(kind) == pc = "index" /\ item <= Len(Items(height)) /\ Current.kind = kind

(* After a statement: the next one, or the next item once all rows of this one are put, *)
(* and only then its size is added. *)
Advance ==
    IF row <= Len(References(Current))
    THEN row' = row + 1 /\ UNCHANGED <<item, used>>
    ELSE item' = item + 1 /\ row' = 1 /\ used' = used + 1

indexChunk ==
    /\ AtItem("chunk")
    /\ chunks' = Upsert(chunks, Current.id, height)
    /\ Advance
    /\ UNCHANGED <<node, storageUsed, files, directories, fileChunks, directoryFiles,
                   pc, lastIndexed, streamVars, height, failures>>

(* UNIQUE(file_id, chunk_id): a chunk that comes again in the file only gets the later *)
(* index. *)
PutFileChunk(f, c, n) ==
    /\ c \in DOMAIN chunks
    /\ fileChunks' = Upsert(fileChunks, <<f, c>>, n)
    /\ UNCHANGED files

PutFileIndex(f) ==
    /\ files' = Upsert(files, f, height)
    /\ UNCHANGED fileChunks

indexFile ==
    /\ AtItem("file")
    /\ \/ row = 1 /\ PutFileIndex(Current.id)
       \/ row > 1 /\ PutFileChunk(Current.id, ChunksOf[Current.id][row - 1], row - 1)
    /\ Advance
    /\ UNCHANGED <<node, storageUsed, chunks, directories, directoryFiles,
                   pc, lastIndexed, streamVars, height, failures>>

PutDirectoryIndex(d) ==
    /\ directories' = Upsert(directories, d, height)
    /\ UNCHANGED directoryFiles

(* UNIQUE(directory_id, file_id): a file with two paths only keeps the later one. *)
PutDirectoryFile(d, entry) ==
    /\ entry.id \in DOMAIN files
    /\ directoryFiles' = Upsert(directoryFiles, <<d, entry.id>>, entry.path)
    /\ UNCHANGED directories

indexDirectory ==
    /\ AtItem("dir")
    /\ \/ row = 1 /\ PutDirectoryIndex(Current.id)
       \/ row > 1 /\ PutDirectoryFile(Current.id, FilesOf[Current.id][row - 1])
    /\ Advance
    /\ UNCHANGED <<node, storageUsed, chunks, files, fileChunks,
                   pc, lastIndexed, streamVars, height, failures>>

(* The chunk or file that a row refers to is not in its table. *)
ForeignKeyMissing ==
    \/ /\ AtItem("file") /\ row > 1
       /\ ChunksOf[Current.id][row - 1] \notin DOMAIN chunks
    \/ /\ AtItem("dir") /\ row > 1
       /\ FilesOf[Current.id][row - 1].id \notin DOMAIN files

(* Mutant of SkipItem: the size is added although an error was returned. *)
SkipItemCounted == item' = item + 1 /\ row' = 1 /\ used' = used + 1

(* An error of an item is only warned about: on to the next one. *)
SkipItem == item' = item + 1 /\ row' = 1 /\ UNCHANGED used

ForeignKeyFails ==
    /\ ForeignKeyMissing
    /\ SkipItem
    /\ UNCHANGED <<node, db, pc, lastIndexed, streamVars, height, failures>>

(* The manifest cannot be fetched from the node, or a statement fails. *)
ItemFails ==
    /\ "item" \in Failures
    /\ pc = "index" /\ item <= Len(Items(height))
    /\ SkipItem
    /\ Fails
    /\ UNCHANGED <<node, db, pc, lastIndexed, streamVars, height>>

(* Mutant of FinishBlock: the row is not put a second time. *)
FinishBlockOnce ==
    /\ pc = "index" /\ item > Len(Items(height))
    /\ lastIndexed' = height
    /\ pc' = "recv"
    /\ EndBlock
    /\ UNCHANGED <<node, db, streamVars, failures>>

(* The row is put again with the storage used, and the height is the last indexed. *)
FinishBlock ==
    /\ pc = "index" /\ item > Len(Items(height))
    /\ PutBlockIndex(height, used)
    /\ lastIndexed' = height
    /\ pc' = "recv"
    /\ EndBlock
    /\ UNCHANGED <<node, contents, streamVars, failures>>

FinishBlockFails ==
    /\ "block" \in Failures
    /\ pc = "index" /\ item > Len(Items(height))
    /\ pc' = "subscribe"
    /\ Fails
    /\ EndBlock /\ CloseStream
    /\ UNCHANGED <<node, db, lastIndexed>>

(* The indexer is killed and started again, with the same flag. *)
Restart ==
    /\ "kill" \in Failures
    /\ pc' = "subscribe"
    /\ lastIndexed' = NewIndexerService
    /\ Fails
    /\ EndBlock /\ CloseStream
    /\ UNCHANGED <<node, db>>

IndexerSteps ==
    \/ SubscribeToHeaders \/ SendHistory \/ GoLive \/ BeginBlock
    \/ indexChunk \/ indexFile \/ indexDirectory \/ ForeignKeyFails \/ FinishBlock

IndexerNext ==
    \/ Finalize \/ IndexerSteps
    \/ StreamFails \/ BeginBlockFails \/ ItemFails \/ FinishBlockFails \/ Restart

IndexerSpec == IndexerInit /\ [][IndexerNext]_indexerVars

-----------------------------------------------------------------------------
(***************************************************************************)
(* Properties.                                                             *)
(***************************************************************************)

(* All the rows of an item are in the database. *)
Complete(it) ==
    CASE it.kind = "chunk" -> it.id \in DOMAIN chunks
      [] it.kind = "file"  ->
           /\ it.id \in DOMAIN files
           /\ \A i \in DOMAIN ChunksOf[it.id] : <<it.id, ChunksOf[it.id][i]>> \in DOMAIN fileChunks
      [] it.kind = "dir"   ->
           /\ it.id \in DOMAIN directories
           /\ \A i \in DOMAIN FilesOf[it.id] : <<it.id, FilesOf[it.id][i].id>> \in DOMAIN directoryFiles

(* No block is skipped: the heights above the flag in table blocks are the first ones, *)
(* without a gap, whatever failed and wherever the indexer was killed.  At or below the *)
(* flag the table has what a node that was behind the flag happened to publish. *)
NoBlockSkipped ==
    LET above == {h \in DOMAIN storageUsed : h > startHeight}
    IN  above = startHeight + 1 .. startHeight + Cardinality(above)

(* StorageUsed never counts a chunk or manifest whose rows are not all there: *)
(* indexBlock adds an item's size only when indexChunk, indexFile or indexDirectory *)
(* succeeded, and a missing foreign key makes the items that need it fail as well. *)
StorageCounts ==
    \A h \in DOMAIN storageUsed :
        LET items == Items(h)
        IN  storageUsed[h] <= Cardinality({i \in DOMAIN items : Complete(items[i])})

(* Every chunk and file that the manifests of block h refer to is in a block above the *)
(* flag that is indexed no later than h, or in h itself. *)
Resolvable(h) ==
    LET earlier == (startHeight + 1 .. h) \cup {h}
        chunkIds == UNION {{Body[g].chunks[i] : i \in DOMAIN Body[g].chunks} : g \in earlier}
        fileIds == UNION {{Body[g].files[i] : i \in DOMAIN Body[g].files} : g \in earlier}
    IN  /\ \A i \in DOMAIN Body[h].files : \A n \in DOMAIN ChunksOf[Body[h].files[i]] :
             ChunksOf[Body[h].files[i]][n] \in chunkIds
        /\ \A i \in DOMAIN Body[h].dirs : \A n \in DOMAIN FilesOf[Body[h].dirs[i]] :
             FilesOf[Body[h].dirs[i]][n].id \in fileIds

(* The row of block h is there, with the storage of all its items. *)
BlockComplete(h) == h \in DOMAIN storageUsed /\ storageUsed[h] = Len(Items(h))

(* While only the stream fails, the row of every block but the one being indexed has the *)
(* storage of all its items, although a header that comes twice resets it, if its *)
(* manifests' foreign keys can be found. *)
RowsComplete ==
    failures = 0 =>
        \A h \in DOMAIN storageUsed \ {height} : Resolvable(h) => BlockComplete(h)

(* "Will be updated after indexing files/dirs", of StorageUsed 0 in indexBlock: a block *)
(* the indexer counts as indexed, and is not indexing again, has its storage, also if *)
(* the indexer was killed and started again. *)
StorageUpdated ==
    pc # "index" =>
        \A h \in DOMAIN storageUsed : h <= lastIndexed /\ Resolvable(h) => BlockComplete(h)
=============================================================================
