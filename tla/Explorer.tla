------------------------------ MODULE Explorer -------------------------------
(***************************************************************************)
(* The explorer (pkg/explorer/server.go): a web server over the indexer's  *)
(* database, which the indexer writes at the same time.  A handler makes   *)
(* one query after another, without a transaction around them, and the     *)
(* pages of a listing are separate requests.  One client is modelled; it   *)
(* asks for a page, or follows a listing from page to page.                *)
(***************************************************************************)
EXTENDS Indexer, FiniteSetsExt

CONSTANTS
    PageSize,      \* rows per page of a listing: 20
    RecentLimit,   \* blocks on the home page, and the API's default limit: 50
    MaxApiLimit,   \* the greatest limit the API takes: 100
    SearchLimit,   \* results of a search: 50
    ApiLimits,     \* values of the API's parameter limit
    Searches       \* the sets of files whose names match a query

ASSUME PagingAssumption ==
    /\ {PageSize, RecentLimit, MaxApiLimit, SearchLimit} \subseteq Nat \ {0}
    /\ ApiLimits \subseteq Int

VARIABLES
    request,   \* the handler that runs, its argument, and whether a query has failed
    got,       \* the answers to its queries so far
    there,     \* history: rows that were there when the client began
    seen       \* history: rows of the listing on earlier pages

clientVars == <<request, got, there, seen>>
vars == <<indexerVars, clientVars>>

Idle == [handler |-> "none", arg |-> 0, failed |-> FALSE]

(* How many queries each handler makes. *)
Queries == [none |-> 0, home |-> 2, blocks |-> 2, blockDetails |-> 4, files |-> 2,
            fileDetails |-> 2, directories |-> 2, directoryDetails |-> 1, search |-> 1,
            apiGetBlocks |-> 1, apiGetAnalytics |-> 4]

Running(handler) == request.handler = handler /\ Len(got) < Queries[handler]
Responded(handler) == request.handler = handler /\ Len(got) = Queries[handler]

-----------------------------------------------------------------------------
(* Queries. *)

BlockRows == [h \in DOMAIN storageUsed |-> h]

Table(listing) == CASE listing = "blocks"      -> BlockRows
                    [] listing = "files"       -> files
                    [] listing = "directories" -> directories

(* ORDER BY height DESC: rows of the same height may come in any order. *)
Orders(table) ==
    {s \in [1 .. Cardinality(DOMAIN table) -> DOMAIN table] :
        \A i, j \in DOMAIN s : i < j => s[i] # s[j] /\ table[s[i]] >= table[s[j]]}

(* ... LIMIT limit OFFSET offset: GetBlocks, GetFiles, GetDirectories, SearchFiles. *)
Select(table, limit, offset) ==
    {SubSeq(s, offset + 1, Min({offset + limit, Len(s)})) : s \in Orders(table)}

GetTotal(table) == Cardinality(DOMAIN table)

GetByBlockHeight(table, h) == {id \in DOMAIN table : table[id] = h}

SearchFiles(matching, limit, offset) ==
    Select([f \in DOMAIN files \cap matching |-> files[f]], limit, offset)

(* Mutant of GetFileChunks: the chunks come in the order they have in their blocks. *)
GetFileChunksByBlock(f) ==
    LET joined == {k \in DOMAIN fileChunks : k[1] = f}
        place(k) == <<chunks[k[2]], CHOOSE i \in DOMAIN Body[chunks[k[2]]].chunks :
                                      Body[chunks[k[2]]].chunks[i] = k[2]>>
        before(k, l) == \/ place(k)[1] < place(l)[1]
                        \/ place(k)[1] = place(l)[1] /\ place(k)[2] < place(l)[2]
        order == CHOOSE s \in [1 .. Cardinality(joined) -> joined] :
                   \A i, j \in DOMAIN s : i < j => before(s[i], s[j])
    IN  [i \in DOMAIN order |-> [chunk |-> order[i][2], index |-> fileChunks[order[i]]]]

(* The rows of file_chunks, joined with chunks, in the order of the file. *)
GetFileChunks(f) ==
    LET joined == {k \in DOMAIN fileChunks : k[1] = f /\ k[2] \in DOMAIN chunks}
        order == CHOOSE s \in [1 .. Cardinality(joined) -> joined] :
                   \A i, j \in DOMAIN s : i < j => s[i] # s[j] /\ fileChunks[s[i]] <= fileChunks[s[j]]
    IN  [i \in DOMAIN order |-> [chunk |-> order[i][2], index |-> fileChunks[order[i]]]]

(* What SUM(storage_used) adds up: in each row, the items it counts. *)
StorageSum == UNION {{h} \X (1 .. storageUsed[h]) : h \in DOMAIN storageUsed}

(* The queries of GetStorageAnalytics, in order; the distribution of types is left out. *)
GetStorageAnalytics ==
    <<[blocks |-> Cardinality(DOMAIN storageUsed), storage |-> Cardinality(StorageSum)],
      Cardinality(DOMAIN chunks), Cardinality(DOMAIN files), Cardinality(DOMAIN directories)>>

-----------------------------------------------------------------------------
(* What a handler does about its next query, the one after n answers. *)

Asks(n, answers) ==
    /\ Len(got) = n
    /\ \E a \in answers : got' = Append(got, a)
    /\ UNCHANGED <<indexerVars, request, there, seen>>

(* The query fails and the handler goes on with an empty answer. *)
Tolerates(n, empty) ==
    /\ "query" \in Failures
    /\ Len(got) = n
    /\ got' = Append(got, empty)
    /\ request' = [request EXCEPT !.failed = TRUE]
    /\ UNCHANGED <<indexerVars, there, seen>>

(* http.Error and return. *)
Returns(n) ==
    /\ Len(got) = n
    /\ request' = Idle /\ got' = <<>> /\ there' = {} /\ seen' = {}
    /\ UNCHANGED indexerVars

GivesUp(n) == "query" \in Failures /\ Returns(n)

(* The analytics, without which the page does as well, then the recent blocks.  The *)
(* counts in between are those of apiGetAnalytics. *)
handleHome ==
    /\ Running("home")
    /\ \/ Asks(0, {GetStorageAnalytics[1]})
       \/ Tolerates(0, [blocks |-> 0, storage |-> 0])
       \/ Asks(1, Select(BlockRows, RecentLimit, 0))
       \/ Tolerates(1, <<>>)

(* Mutant of Offset: pages are counted from 0. *)
OffsetFromZero(page) == page * PageSize

Offset(page) == (page - 1) * PageSize

(* handleBlocks, handleFiles and handleDirectories: the page, then the total. *)
HandleListing(listing) ==
    /\ Running(listing)
    /\ \/ Asks(0, Select(Table(listing), PageSize, Offset(request.arg)))
       \/ GivesUp(0)
       \/ Asks(1, {GetTotal(Table(listing))})
       \/ Tolerates(1, 0)

handleBlocks == HandleListing("blocks")
handleFiles == HandleListing("files")
handleDirectories == HandleListing("directories")

TotalPages == (got[2] + PageSize - 1) \div PageSize
HasNext == request.arg < TotalPages

(* Mutant of handleBlockDetails: the row of the block is read again at the end. *)
handleBlockDetailsLast ==
    LET h == request.arg IN
    /\ Running("blockDetails")
    /\ \/ h \in DOMAIN storageUsed /\ Asks(0, {storageUsed[h]})
       \/ Asks(1, {GetByBlockHeight(files, h)})
       \/ Asks(2, {GetByBlockHeight(directories, h)})
       \/ /\ Len(got) = 3
          /\ got' = Append([got EXCEPT ![1] = storageUsed[h]], GetByBlockHeight(chunks, h))
          /\ UNCHANGED <<indexerVars, request, there, seen>>

handleBlockDetails ==
    LET h == request.arg IN
    /\ Running("blockDetails")
    /\ \/ h \in DOMAIN storageUsed /\ Asks(0, {storageUsed[h]})
       \/ h \notin DOMAIN storageUsed /\ Returns(0)
       \/ GivesUp(0)
       \/ Asks(1, {GetByBlockHeight(files, h)})
       \/ Asks(2, {GetByBlockHeight(directories, h)})
       \/ Asks(3, {GetByBlockHeight(chunks, h)})
       \/ \E n \in 1 .. 3 : Tolerates(n, {})

handleFileDetails ==
    LET f == request.arg IN
    /\ Running("fileDetails")
    /\ \/ f \in DOMAIN files /\ Asks(0, {files[f]})
       \/ f \notin DOMAIN files /\ Returns(0)
       \/ GivesUp(0)
       \/ Asks(1, {GetFileChunks(f)})
       \/ Tolerates(1, <<>>)

handleDirectoryDetails ==
    LET d == request.arg IN
    /\ Running("directoryDetails")
    /\ \/ d \in DOMAIN directories /\ Asks(0, {directories[d]})
       \/ d \notin DOMAIN directories /\ Returns(0)
       \/ GivesUp(0)

handleSearch ==
    /\ Running("search")
    /\ Asks(0, SearchFiles(request.arg, SearchLimit, 0)) \/ Tolerates(0, <<>>)

(* A limit out of range is replaced by the default. *)
ApiLimit(l) == IF l > 0 /\ l <= MaxApiLimit THEN l ELSE RecentLimit

apiGetBlocks ==
    /\ Running("apiGetBlocks")
    /\ Asks(0, Select(BlockRows, ApiLimit(request.arg), 0)) \/ GivesUp(0)

apiGetAnalytics ==
    /\ Running("apiGetAnalytics")
    /\ \E n \in 0 .. 3 : Asks(n, {GetStorageAnalytics[n + 1]}) \/ GivesUp(n)

Handlers ==
    \/ handleHome \/ handleBlocks \/ handleBlockDetails \/ handleFiles \/ handleFileDetails
    \/ handleDirectories \/ handleDirectoryDetails \/ handleSearch
    \/ apiGetBlocks \/ apiGetAnalytics

-----------------------------------------------------------------------------
(* The client, along the routes of setupRoutes. *)

Requests(handler, arg) ==
    /\ request.handler = "none"
    /\ request' = [handler |-> handler, arg |-> arg, failed |-> FALSE]
    /\ UNCHANGED <<indexerVars, got, seen>>

Get ==
    \/ \E handler \in {"home", "apiGetAnalytics"} : Requests(handler, 0) /\ UNCHANGED there
    \/ \E listing \in {"blocks", "files", "directories"} :
         /\ Requests(listing, 1)
         /\ there' = DOMAIN Table(listing)
    \/ \E h \in Heights : Requests("blockDetails", h) /\ UNCHANGED there
    \/ \E f \in DOMAIN ChunksOf :
         /\ Requests("fileDetails", f)
         /\ there' = {k[2] : k \in {l \in DOMAIN fileChunks : l[1] = f}}
    \/ \E d \in DOMAIN FilesOf : Requests("directoryDetails", d) /\ UNCHANGED there
    \/ \E matching \in Searches : Requests("search", matching) /\ UNCHANGED there
    \/ \E l \in ApiLimits : Requests("apiGetBlocks", l) /\ UNCHANGED there

(* The link to the next page. *)
NextPage ==
    /\ request.handler \in {"blocks", "files", "directories"}
    /\ Responded(request.handler) /\ HasNext
    /\ seen' = seen \cup {got[1][i] : i \in DOMAIN got[1]}
    /\ request' = [request EXCEPT !.arg = @ + 1]
    /\ got' = <<>>
    /\ UNCHANGED <<indexerVars, there>>

Leave ==
    /\ request.handler # "none" /\ Responded(request.handler)
    /\ request' = Idle /\ got' = <<>> /\ there' = {} /\ seen' = {}
    /\ UNCHANGED indexerVars

Init == IndexerInit /\ request = Idle /\ got = <<>> /\ there = {} /\ seen = {}

Next == (IndexerNext /\ UNCHANGED clientVars) \/ Handlers \/ Get \/ NextPage \/ Leave

Spec == Init /\ [][Next]_vars

-----------------------------------------------------------------------------
(***************************************************************************)
(* Properties.                                                             *)
(***************************************************************************)

(* A client that follows a listing to its last page has been shown every row that was *)
(* there when it began, although rows move to later pages as the indexer adds more: for *)
(* blocks without exception; of several files or directories of one block, which the *)
(* queries may order differently each time, it may miss some. *)
PagesCover ==
    \A listing \in {"blocks", "files", "directories"} :
        Responded(listing) /\ ~HasNext /\ ~request.failed =>
            \A r \in there :
                LET table == Table(listing) IN
                \/ r \in seen \cup {got[1][i] : i \in DOMAIN got[1]}
                \/ \E q \in DOMAIN table \ {r} : table[q] = table[r]

(* The places where a block lists an item that it has listed before. *)
Repeated(h) == {i \in DOMAIN Items(h) : \E j \in 1 .. i - 1 : Items(h)[j] = Items(h)[i]}
Repeats == Cardinality(UNION {{h} \X Repeated(h) : h \in Heights})

(* No page shows storage for something it does not show: the row of a block, or the sum *)
(* over the blocks, is read before the items are listed or counted, so what the indexer *)
(* adds between the queries only adds to the latter. *)
StorageBacked ==
    /\ Responded("blockDetails") /\ ~request.failed =>
         LET shown == {i \in DOMAIN Items(request.arg) :
                         LET it == Items(request.arg)[i] IN
                         it.id \in CASE it.kind = "chunk" -> got[4]
                                     [] it.kind = "file"  -> got[2]
                                     [] it.kind = "dir"   -> got[3]}
         IN  got[1] <= Cardinality(shown)
    /\ Responded("apiGetAnalytics") =>
         got[1].storage <= got[2] + got[3] + got[4] + Repeats
    /\ Responded("home") /\ ~request.failed =>
         Len(got[2]) >= Min({got[1].blocks, RecentLimit})

(* The page of a file lists chunks of the manifest at their positions in it, in order and *)
(* each at most once, and every chunk that was recorded when it was asked for, also while *)
(* the file is being indexed a second time. *)
ChunksListed ==
    Responded("fileDetails") /\ ~request.failed =>
        LET list == got[2] manifest == ChunksOf[request.arg] IN
        /\ there \subseteq {list[i].chunk : i \in DOMAIN list}
        /\ \A i \in DOMAIN list : manifest[list[i].index] = list[i].chunk
        /\ \A i, j \in DOMAIN list :
             i < j => list[i].index < list[j].index /\ list[i].chunk # list[j].chunk
=============================================================================
