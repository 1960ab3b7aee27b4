------------------------------- MODULE RestApi -------------------------------
(***************************************************************************)
(* The REST API (`blobcast api start`, pkg/api/rest): a process of its own *)
(* that answers from the rollup and storage services of a node.  It hashes *)
(* the headers it is sent itself, with the same cache by height as the     *)
(* node's.  The route parameter of a block is text [zeroX, digits, length, *)
(* value]: whether it starts with 0x, what its other characters are, how   *)
(* many it has in all, and the bytes or the number they stand for.         *)
(***************************************************************************)
EXTENDS BlockCommitments

CONSTANTS
    OtherTexts,             \* texts that are neither the height nor the hash of a block
    ManifestIds             \* the identifiers of manifests that are asked for

VARIABLES
    restCache,     \* the REST process's blockHeaderHashCache
    answer         \* the last answer [status, body], Nothing before

vars == <<nodeVars, restCache, answer>>

Nothing == [status |-> 0, body |-> {}]
Failed(status) == [status |-> status, body |-> {}]
Ok(body) == [status |-> 200, body |-> {body}]

HashText(hash) == [zeroX |-> TRUE, digits |-> "hex", length |-> 66, value |-> Raw(32, hash)]
HeightText(height) == [zeroX |-> FALSE, digits |-> "decimal", length |-> 1, value |-> height]

-----------------------------------------------------------------------------
(* The rollup and storage services; {} is codes.NotFound. *)

BlockProto(block) == [Header |-> HeaderProto(block.header), Body |-> BodyProto(block.body)]

GetBlockByHeightRPC(height) == {BlockProto(block) : block \in GetBlock(height)}

(* Only asked with 32 bytes; others are InvalidArgument. *)
GetBlockByHashRPC(hash) == {BlockProto(block) : block \in GetBlockByHash(hash)}

(* The genesis block alone is not a latest block. *)
GetLatestBlockRPC == IF finalizedHeight = 0 THEN {} ELSE GetBlockByHeightRPC(finalizedHeight)

GetChainInfoRPC ==
    [ChainId |-> chainID, FinalizedHeight |-> finalizedHeight,
     CelestiaHeightOffset |-> Offset]

(* The text is parsed again by the service. *)
GetManifestRPC(text, manifests) ==
    {id \in BlobIdentifierFromString(text) : IdBytes(id) \in manifests}

-----------------------------------------------------------------------------
(* The handlers. *)

blockToResponse(p) ==
    LET header == BlockHeaderFromProto(p.Header)
        ids(l) == [i \in DOMAIN p.Body[l] |-> Id(BlobIdentifierFromProto(p.Body[l][i]))]
    IN  [chainID |-> header.chainID, height |-> header.height,
         celestiaBlockHeight |-> header.celestiaBlockHeight,
         timestamp |-> header.timestamp.seconds, hash |-> HashText(Hash(header, restCache)),
         parentHash |-> HashText(header.parentHash),
         roots |-> [f \in HeaderHashes \ {"parentHash"} |-> HashText(header[f])],
         dirs |-> ids("dirs"), files |-> ids("files"), chunks |-> ids("chunks")]

BlockAnswer(found, up) ==
    IF ~up THEN Failed(500)
    ELSE IF found = {} THEN Failed(404)
    ELSE Ok(blockToResponse(CHOOSE p \in found : TRUE))

getBlockByHeight(text, up) ==
    IF text.zeroX \/ text.digits # "decimal" THEN Failed(400)
    ELSE BlockAnswer(GetBlockByHeightRPC(text.value), up)

getBlockByHash(text, up) ==
    IF text.digits = "other" \/ text.length # (IF text.zeroX THEN 66 ELSE 64) THEN Failed(400)
    ELSE BlockAnswer(GetBlockByHashRPC(HashAt(text.value, 0)), up)

getBlockByHeightOrHash(text, up) ==
    IF text.zeroX \/ text.length = 64 THEN getBlockByHash(text, up) ELSE getBlockByHeight(text, up)

getLatestBlock(up) == BlockAnswer(GetLatestBlockRPC, up)

getChainInfo(up) == IF up THEN Ok(GetChainInfoRPC) ELSE Failed(500)

(* Whatever goes wrong behind the handler is a missing manifest. *)
GetManifest(text, manifests, up) ==
    IF BlobIdentifierFromString(text) = {} THEN Failed(400)
    ELSE LET id == CHOOSE i \in BlobIdentifierFromString(text) : TRUE IN
         IF up /\ GetManifestRPC(Id(id), manifests) # {} THEN Ok(id) ELSE Failed(404)

getFileManifest(text, up) == GetManifest(text, fileManifests, up)

getDirectoryManifest(text, up) == GetManifest(text, dirManifests, up)

-----------------------------------------------------------------------------
Init == NodeInit /\ restCache = <<>> /\ answer = Nothing

(* A block that is sent has its hash cached, as the response shows it. *)
AnswerBlock(reply) ==
    /\ answer' = reply
    /\ restCache' = IF reply.body = {} THEN restCache
                    ELSE LET response == CHOOSE r \in reply.body : TRUE IN
                         Put(restCache, response.height, HashAt(response.hash.value, 0))
    /\ UNCHANGED nodeVars

AnswerOther(reply) == answer' = reply /\ UNCHANGED <<nodeVars, restCache>>

BlockTexts ==
    {HeightText(height) : height \in 0 .. MaxHeight} \cup
    {HashText(hash) : hash \in DOMAIN blockHashes} \cup OtherTexts

(* The identifiers of any list, and text that is not one: another prefix, not base36, or *)
(* base36 of too few bytes. *)
ManifestTexts ==
    {Id(id) : id \in ManifestIds} \cup
    {[prefix |-> "0x", base36 |-> U64(1)], [prefix |-> "bc", base36 |-> NotBase36],
     [prefix |-> "bc", base36 |-> U64(1)]}

(* setupRoutes.  A call to the node may fail. *)
Request ==
    \E up \in BOOLEAN :
        \/ \E text \in BlockTexts : AnswerBlock(getBlockByHeightOrHash(text, up))
        \/ AnswerBlock(getLatestBlock(up))
        \/ AnswerOther(getChainInfo(up))
        \/ \E text \in ManifestTexts : AnswerOther(getFileManifest(text, up))
        \/ \E text \in ManifestTexts : AnswerOther(getDirectoryManifest(text, up))

RestartRest ==
    /\ restCache # <<>>
    /\ restCache' = <<>>
    /\ UNCHANGED <<nodeVars, answer>>

Next == (NodeNext /\ UNCHANGED <<restCache, answer>>) \/ Request \/ RestartRest

Spec == Init /\ [][Next]_vars

-----------------------------------------------------------------------------
(* Whatever the API answered stays true of what it answers later, after further blocks and *)
(* restarts of either process: the block it showed is found again by the hash and by the *)
(* height it showed, its parent by the parent hash, and the manifests of its files and *)
(* directories by their identifiers; the finalized height it showed has a block. *)
RestConsistent ==
    \A r \in answer.body :
        /\ "parentHash" \in DOMAIN r =>
             /\ getBlockByHeightOrHash(r.hash, TRUE) = Ok(r)
             /\ getBlockByHeightOrHash(HeightText(r.height), TRUE) = Ok(r)
             /\ r.height > 0 =>
                  \A parent \in getBlockByHeightOrHash(HeightText(r.height - 1), TRUE).body :
                      /\ parent.hash = r.parentHash
                      /\ getBlockByHeightOrHash(r.parentHash, TRUE) = Ok(parent)
             /\ \A i \in DOMAIN r.files : getFileManifest(r.files[i], TRUE).status = 200
             /\ \A i \in DOMAIN r.dirs : getDirectoryManifest(r.dirs[i], TRUE).status = 200
        /\ ("FinalizedHeight" \in DOMAIN r /\ r.FinalizedHeight > 0) =>
             getBlockByHeightOrHash(HeightText(r.FinalizedHeight), TRUE).status = 200
=============================================================================
