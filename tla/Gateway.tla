------------------------------- MODULE Gateway -------------------------------
(***************************************************************************)
(* The web gateway (cmd/gateway/start.go): directoryHandler and serveFile  *)
(* over a node's storage service.  A path is the sequence of its names,    *)
(* and a name a number, so that names have an order.  One browser is       *)
(* modelled: it downloads by identifier and path, or visits all pages of a *)
(* directory and of its subdirectories.                                    *)
(***************************************************************************)
EXTENDS StorageService, SequencesExt

CONSTANTS
    SubPaths,         \* the paths that are asked for
    Ranges,           \* Range headers: NoRange, BadRange, or [first, last]
    NoRange, BadRange,
    Blank,            \* a bound that is not given
    FilesPerPage,     \* 100
    GatewayFailures   \* which happen: "rpc"

ASSUME GatewayAssumption ==
    /\ FilesPerPage \in Nat \ {0} /\ GatewayFailures \subseteq {"rpc"}
    /\ Blank \notin Nat
    /\ LET bound == Nat \cup {Blank}
       IN  Ranges \subseteq {NoRange, BadRange} \cup [first : bound, last : bound]

VARIABLES
    at,         \* where the handler is, "idle" if there is no request
    request,    \* [id, subPath, page, range]
    fileId,     \* the file that is served
    response,   \* [status, ...]
    known,      \* history: the identifier was in the chain state when it was asked for
    lost,       \* history: a call has failed during the request
    todo,       \* pages <<subPath, page>> of the directory that is browsed, to visit
    found       \* history: the paths of the files on the pages visited, in order

gatewayVars == <<at, request, fileId, response, known, lost, todo, found>>

NoResponse == [status |-> 0]

-----------------------------------------------------------------------------
(* Listings. *)

(* The places of the files below a path, and the name there of each. *)
Below(files, subPath) == {i \in DOMAIN files : IsStrictPrefix(subPath, files[i].path)}

NameBelow(files, subPath, i) == files[i].path[Len(subPath) + 1]

Names(files, subPath) == {NameBelow(files, subPath, i) : i \in Below(files, subPath)}

(* children: a name is a directory or a file by the last entry that has it. *)
IsDirectory(files, subPath, name) ==
    \E i \in Below(files, subPath) :
        /\ NameBelow(files, subPath, i) = name
        /\ \A j \in Below(files, subPath) : NameBelow(files, subPath, j) = name => j <= i
        /\ Len(files[i].path) > Len(subPath) + 1

Directories(files, subPath) == {n \in Names(files, subPath) : IsDirectory(files, subPath, n)}

(* The other names, sorted. *)
FileNames(files, subPath) ==
    LET names == Names(files, subPath) \ Directories(files, subPath)
    IN  CHOOSE s \in [1 .. Cardinality(names) -> names] : \A i, j \in DOMAIN s : i < j => s[i] < s[j]

TotalPages(files, subPath) ==
    LET n == Len(FileNames(files, subPath))
    IN  IF n = 0 THEN 1 ELSE (n + FilesPerPage - 1) \div FilesPerPage

(* Mutant of PagedFiles: the page ends one file early. *)
PagedFilesShort(files, subPath, page) ==
    LET names == FileNames(files, subPath)
        start == (page - 1) * FilesPerPage
        end == IF start + FilesPerPage < Len(names) THEN start + FilesPerPage - 1 ELSE Len(names)
    IN  SubSeq(names, start + 1, end)

PagedFiles(files, subPath, page) ==
    LET names == FileNames(files, subPath)
        start == (page - 1) * FilesPerPage
        end == IF start + FilesPerPage < Len(names) THEN start + FilesPerPage ELSE Len(names)
    IN  SubSeq(names, start + 1, end)

(* The first entry with that path. *)
Lookup(files, path) ==
    LET matching == {i \in DOMAIN files : files[i].path = path}
    IN  {files[i].id : i \in {j \in matching : \A k \in matching : j <= k}}

(* The page that is shown: one beyond the last is the last. *)
ShownPage(files) ==
    LET pages == TotalPages(files, request.subPath)
    IN  IF request.page > pages THEN pages ELSE request.page

(* The page of a directory: its subdirectories, and the files of this page with, if the *)
(* batch of manifests was had, their sizes. *)
RenderDirectory(files, manifests) ==
    LET page == ShownPage(files)
        paged == PagedFiles(files, request.subPath, page)
        item(name) == [path |-> Append(request.subPath, name),
                       size |-> UNION {{m[f].size : f \in Lookup(files, Append(request.subPath, name))}
                                         : m \in manifests}]
    IN  [status |-> 200, listing |-> TRUE,
         dirs |-> {Append(request.subPath, n) : n \in Directories(files, request.subPath)},
         files |-> [i \in DOMAIN paged |-> item(paged[i])],
         page |-> page, hasNext |-> page < TotalPages(files, request.subPath)]

-----------------------------------------------------------------------------
(* Files. *)

Error(status) == [status |-> status]

(* Mutant of ServeRange: the end is exclusive. *)
ServeRangeExclusive(text, range) ==
    LET start == IF range.first = Blank THEN 0 ELSE range.first
        end == IF range.last = Blank \/ range.last >= Len(text) THEN Len(text) - 1 ELSE range.last
    IN  IF start >= Len(text) \/ start > end THEN Error(416)
        ELSE [status |-> 206, start |-> start, end |-> end, body |-> SubSeq(text, start + 1, end)]

ServeRange(text, range) ==
    LET start == IF range.first = Blank THEN 0 ELSE range.first
        end == IF range.last = Blank \/ range.last >= Len(text) THEN Len(text) - 1 ELSE range.last
    IN  IF start >= Len(text) \/ start > end THEN Error(416)
        ELSE [status |-> 206, start |-> start, end |-> end, body |-> SubSeq(text, start + 1, end + 1)]

Serve(text) ==
    CASE request.range = NoRange  -> [status |-> 200, listing |-> FALSE, body |-> text]
      [] request.range = BadRange -> Error(416)
      [] OTHER                    -> ServeRange(text, request.range)

-----------------------------------------------------------------------------
(* The handlers.  Each call to the node is a step, and may fail. *)

Goes(place) == at' = place /\ UNCHANGED <<stored, request, response, known, lost, todo, found>>

Responds(r) ==
    /\ response' = r /\ at' = "done"
    /\ UNCHANGED <<stored, request, fileId, known, lost, todo, found>>

(* Neither a directory nor a file: not found.  A path is not looked at for a file. *)
directoryHandler ==
    \/ /\ at = "directory"
       /\ GetDirectoryManifest(request.id) = {}
       /\ Goes("file") /\ UNCHANGED fileId
    \/ /\ at = "directory"
       /\ \E files \in GetDirectoryManifest(request.id) :
            \/ \E f \in Lookup(files, request.subPath) : fileId' = f /\ Goes("manifest")
            \/ /\ Lookup(files, request.subPath) = {}
               /\ Goes("batch") /\ UNCHANGED fileId
    \/ /\ at = "file"
       /\ GetFileManifest(request.id) # {}
       /\ fileId' = request.id /\ Goes("manifest")
    \/ /\ at = "file"
       /\ GetFileManifest(request.id) = {}
       /\ Responds(Error(404))

(* The manifests of the page in one call, without which it does as well. *)
listDirectory ==
    /\ at = "batch"
    /\ LET files == DirManifest[request.id]
           paged == PagedFiles(files, request.subPath, ShownPage(files))
           ids == [i \in DOMAIN paged |->
                     CHOOSE f \in Lookup(files, Append(request.subPath, paged[i])) : TRUE]
       IN  Responds(RenderDirectory(files, BatchGetFileManifest(ids)))

serveFile ==
    \/ /\ at = "manifest"
       /\ GetFileManifest(fileId) # {}
       /\ Goes("data") /\ UNCHANGED fileId
    \/ /\ at = "data"
       /\ \E text \in GetFileData(fileId) : Responds(Serve(text))
    \/ /\ \/ at = "manifest" /\ GetFileManifest(fileId) = {}
          \/ at = "data" /\ GetFileData(fileId) = {}
       /\ Responds(Error(500))

(* The call of this step fails: a directory is then taken for a file, a file for missing. *)
GatewayCallFails ==
    /\ "rpc" \in GatewayFailures
    /\ lost' = TRUE
    /\ \/ /\ at = "directory"
          /\ at' = "file" /\ UNCHANGED response
       \/ /\ at = "file"
          /\ at' = "done" /\ response' = Error(404)
       \/ /\ at = "batch"
          /\ at' = "done" /\ response' = RenderDirectory(DirManifest[request.id], {})
       \/ /\ at \in {"manifest", "data"}
          /\ at' = "done" /\ response' = Error(500)
    /\ UNCHANGED <<stored, request, fileId, known, todo, found>>

-----------------------------------------------------------------------------
(* The browser. *)

Blobs == DOMAIN FileManifest \cup DOMAIN DirManifest
None == [id |-> {}, subPath |-> <<>>, page |-> 0, range |-> NoRange]

GatewayInit ==
    /\ at = "idle" /\ request = None /\ fileId = {} /\ response = NoResponse
    /\ known = FALSE /\ lost = FALSE /\ todo = {} /\ found = <<>>

Get(id, subPath, page, range) ==
    /\ at = "idle"
    /\ at' = "directory"
    /\ request' = [id |-> id, subPath |-> subPath, page |-> page, range |-> range]
    /\ known' = (id \in dirManifests \cup fileManifests)
    /\ UNCHANGED <<stored, fileId, response, lost>>

Download ==
    /\ todo = {}
    /\ \E id \in Blobs, subPath \in SubPaths :
         Get(id, subPath, 2, NoRange) \/ \E range \in Ranges : Get(id, subPath, 1, range)
    /\ UNCHANGED <<todo, found>>

Browse(d) ==
    /\ todo = {}
    /\ Get(d, <<>>, 1, NoRange)
    /\ todo' = {<<<<>>, 1>>} /\ found' = <<>>

(* The browser reads a page and goes on to another it has a link to, or again to one that *)
(* failed; links to subdirectories are followed from their first page. *)
Follow ==
    /\ at = "done" /\ todo # {}
    /\ LET visited == <<request.subPath, request.page>>
           ok == response.status = 200 /\ response.listing
           links == IF response.page = 1 THEN {<<d, 1>> : d \in response.dirs} ELSE {}
           more == IF response.hasNext THEN {<<request.subPath, request.page + 1>>} ELSE {}
       IN  IF ok THEN /\ todo' = (todo \ {visited}) \cup links \cup more
                      /\ found' = found \o [i \in DOMAIN response.files |-> response.files[i].path]
                 ELSE UNCHANGED <<todo, found>>
    /\ at' = IF todo' = {} THEN "browsed" ELSE "directory"
    /\ request' = IF todo' = {} THEN request
                  ELSE LET p == CHOOSE p \in todo' : TRUE
                       IN  [request EXCEPT !.subPath = p[1], !.page = p[2]]
    /\ response' = NoResponse /\ fileId' = {} /\ lost' = FALSE
    /\ UNCHANGED <<stored, known>>

Leave ==
    /\ (at = "done" /\ todo = {}) \/ at = "browsed"
    /\ at' = "idle" /\ request' = None /\ fileId' = {} /\ response' = NoResponse
    /\ known' = FALSE /\ lost' = FALSE /\ todo' = {} /\ found' = <<>>
    /\ UNCHANGED stored

GatewayNext ==
    \/ directoryHandler \/ listDirectory \/ serveFile \/ GatewayCallFails
    \/ Download \/ (\E d \in DOMAIN DirManifest : Browse(d)) \/ Follow \/ Leave

-----------------------------------------------------------------------------
(***************************************************************************)
(* Properties.                                                             *)
(***************************************************************************)

(* What was asked for: the file of that path in the directory, or the file itself. *)
Asked == IF request.id \in DOMAIN DirManifest THEN Lookup(DirManifest[request.id], request.subPath)
         ELSE {request.id}

Contents(f) == FileManifest[f].hash.hash

(* A download gives the bytes of the file that was named and no others: all of them, or *)
(* those from start to end that the Content-Range says, which for a range with a first *)
(* byte are all the bytes of the range that the file has.  What the node had when it was *)
(* asked for is found unless a call failed. *)
GatewayServes ==
    /\ at = "done" /\ response.status = 200 /\ ~response.listing =>
         \E f \in Asked : response.body = Contents(f)
    /\ at = "done" /\ response.status = 206 =>
         \E f \in Asked :
            /\ response.end < Len(Contents(f))
            /\ response.body = SubSeq(Contents(f), response.start + 1, response.end + 1)
            /\ Len(response.body) = response.end - response.start + 1
            /\ request.range.first # Blank =>
                 \A i \in 0 .. Len(Contents(f)) - 1 :
                    (request.range.first <= i /\ (request.range.last # Blank => i <= request.range.last))
                      <=> (response.start <= i /\ i <= response.end)
    /\ at = "done" /\ response.status \in {404, 500} /\ known => lost

(* A directory in which no name is both a file and a directory, as on any disk. *)
Unambiguous(files) ==
    \A i, j \in DOMAIN files : i # j => ~IsPrefix(files[i].path, files[j].path)

(* A browser that follows all links from a directory has been shown every file of it, *)
(* and each once, whatever calls failed on the way. *)
ListingComplete ==
    at = "browsed" /\ Unambiguous(DirManifest[request.id]) =>
        /\ Elements(found) = {DirManifest[request.id][i].path : i \in DOMAIN DirManifest[request.id]}
        /\ Len(found) = Len(DirManifest[request.id])
=============================================================================
