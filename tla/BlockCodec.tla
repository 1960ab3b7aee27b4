----------------------------- MODULE BlockCodec ------------------------------
(***************************************************************************)
(* Blocks, headers and identifiers as bytes, as protobuf messages and as   *)
(* text (pkg/types, pkg/util, pkg/crypto), and the Merkle roots over the   *)
(* lists of a block (pkg/crypto/merkle).                                   *)
(*                                                                         *)
(* Bytes are a length and the words that were written, each at its offset: *)
(* a word is the width, the byte order and the value of what was written   *)
(* at once.  Reading at another offset, or with another width or byte      *)
(* order, gives Garbage.  A hash is the term of the bytes hashed.  A       *)
(* string is the first `length` bytes of a text, a time a number of        *)
(* seconds and a fraction of one.                                          *)
(***************************************************************************)
EXTENDS Integers, Sequences, SequencesExt

Zero == [zero |-> TRUE]
Garbage == [garbage |-> TRUE]

ShortStringMax == 255

(* A word by itself; an empty one leaves no bytes. *)
Word(width, order, value) ==
    [length |-> width,
     words |-> [o \in {0} \cap 0 .. width - 1 |-> [width |-> width, order |-> order, value |-> value]]]

U32(v) == Word(4, "little", v)
U64(v) == Word(8, "little", v)
BytesFromUint64Key(v) == Word(8, "big", v)
Raw(width, value) == Word(width, "none", value)

(* append(a, b...) *)
a ++ b ==
    [length |-> a.length + b.length,
     words |-> [o \in DOMAIN a.words \cup {a.length + p : p \in DOMAIN b.words} |->
                  IF o < a.length THEN a.words[o] ELSE b.words[o - a.length]]]

(* Only the seconds are written. *)
BytesFromTime(t) == U64(t.seconds)

BytesFromShortString(s) ==
    LET cut == [s EXCEPT !.length = IF @ > ShortStringMax THEN ShortStringMax ELSE @]
    IN  Raw(1, cut.length) ++ Raw(cut.length, cut)

(* b[from:from+n] *)
Slice(b, from, n) ==
    [length |-> n, words |-> [o \in {p \in 0 .. n - 1 : from + p \in DOMAIN b.words} |-> b.words[from + o]]]

Read(b, at, width, order) ==
    IF at \in DOMAIN b.words /\ b.words[at].width = width /\ b.words[at].order = order
    THEN b.words[at].value
    ELSE Garbage

Uint32FromBytes(b, at) == Read(b, at, 4, "little")
Uint64FromBytes(b, at) == Read(b, at, 8, "little")
Uint64FromBytesKey(b) == Read(b, 0, 8, "big")
ByteAt(b, at) == Read(b, at, 1, "none")
HashAt(b, at) == Read(b, at, 32, "none")
ShortStringFromBytes(b, at, length) == Read(b, at, length, "none")

HashBytes(b) == [hash |-> b]

-----------------------------------------------------------------------------
(* Identifiers. *)

NoIdentifier == [height |-> 0, commitment |-> Zero]

IdBytes(id) == U64(id.height) ++ Raw(32, id.commitment)

(* Bytes of another length give the zero identifier, not an error. *)
BlobIdentifierFromBytes(b) ==
    IF b.length # 40 THEN NoIdentifier
    ELSE [height |-> Uint64FromBytes(b, 0), commitment |-> HashAt(b, 8)]

(* "bc" and the base36 of the bytes. *)
Id(id) == [prefix |-> "bc", base36 |-> IdBytes(id)]

NotBase36 == Garbage

(* Errors: another prefix, or what is not base36. *)
BlobIdentifierFromString(s) ==
    IF s.prefix # "bc" \/ s.base36 = NotBase36 THEN {}
    ELSE {BlobIdentifierFromBytes(s.base36)}

IdProto(id) == [Height |-> id.height, Commitment |-> Raw(32, id.commitment)]

BlobIdentifierFromProto(p) == [height |-> p.Height, commitment |-> HashAt(p.Commitment, 0)]

-----------------------------------------------------------------------------
(* Merkle roots. *)

(* Mutant of LeafNode: every leaf is hashed with the same index. *)
LeafNodeUnindexed(i, leaf) == HashBytes(U64(0) ++ leaf)

LeafNode(i, leaf) == HashBytes(U64(i) ++ leaf)

PairHash(left, right) == HashBytes(Raw(32, left) ++ Raw(32, right))

(* The last of an odd number of nodes is its own right neighbour. *)
NextLevel(nodes) ==
    [i \in 1 .. (Len(nodes) + 1) \div 2 |->
        PairHash(nodes[2 * i - 1], IF 2 * i <= Len(nodes) THEN nodes[2 * i] ELSE nodes[2 * i - 1])]

(* levels[k]: the nodes after k rounds, as many as leave the root alone. *)
ReduceNodes(nodes) ==
    LET levels[k \in 0 .. Len(nodes)] == IF k = 0 THEN nodes ELSE NextLevel(levels[k - 1])
        rounds == CHOOSE k \in 0 .. Len(nodes) :
                    Len(levels[k]) = 1 /\ \A j \in 0 .. k - 1 : Len(levels[j]) > 1
    IN  levels[rounds][1]

CalculateMerkleRoot(leaves) ==
    IF leaves = <<>> THEN Zero
    ELSE ReduceNodes([i \in DOMAIN leaves |-> LeafNode(i - 1, leaves[i])])

BlobIdentifiersMerkleRoot(ids) ==
    CalculateMerkleRoot([i \in DOMAIN ids |-> IdBytes(ids[i])])

-----------------------------------------------------------------------------
(* Blocks. *)

(* What SyncBlobs and ProduceBlock fill in; ApplyBlock sets parent hash and state root. *)
NewBlockFromHeader(header, body) ==
    [header |-> [header EXCEPT !.version = 1,
                               !.dirsRoot = BlobIdentifiersMerkleRoot(body.dirs),
                               !.filesRoot = BlobIdentifiersMerkleRoot(body.files),
                               !.chunksRoot = BlobIdentifiersMerkleRoot(body.chunks)],
     body |-> body]

NewHeader == [version |-> 0, chainID |-> [text |-> "", length |-> 0], height |-> 0,
              celestiaBlockHeight |-> 0, timestamp |-> [seconds |-> 0, fraction |-> 0],
              parentHash |-> Zero, dirsRoot |-> Zero, filesRoot |-> Zero, chunksRoot |-> Zero,
              stateRoot |-> Zero]

HeaderBytes(h) ==
    LET place == U64(h.height) ++ U64(h.celestiaBlockHeight) ++ BytesFromTime(h.timestamp)
        roots == Raw(32, h.dirsRoot) ++ Raw(32, h.filesRoot) ++ Raw(32, h.chunksRoot)
    IN  U32(h.version) ++ BytesFromShortString(h.chainID) ++ place ++
        Raw(32, h.parentHash) ++ roots ++ Raw(32, h.stateRoot)

(* The identifiers one after another, 40 bytes each. *)
ListBytes(ids) ==
    [length |-> 40 * Len(ids),
     words |-> [o \in UNION {{40 * (i - 1) + p : p \in {0, 8}} : i \in DOMAIN ids} |->
                  IdBytes(ids[(o \div 40) + 1]).words[o % 40]]]

BodyBytes(body) ==
    LET counts == U32(Len(body.dirs)) ++ U32(Len(body.files)) ++ U32(Len(body.chunks))
        lists == ListBytes(body.dirs) ++ ListBytes(body.files) ++ ListBytes(body.chunks)
    IN  counts ++ lists

BlockBytes(block) ==
    LET header == HeaderBytes(block.header)
    IN  U32(header.length) ++ header ++ BodyBytes(block.body)

(* Mutant of BlockHeaderFromBytes: two roots are read in the wrong order. *)
BlockHeaderFromBytesSwapped(b) ==
    LET idLength == ByteAt(b, 4)
        rest == 5 + idLength
    IN  [version |-> Uint32FromBytes(b, 0), chainID |-> ShortStringFromBytes(b, 5, idLength),
         height |-> Uint64FromBytes(b, rest), celestiaBlockHeight |-> Uint64FromBytes(b, rest + 8),
         timestamp |-> [seconds |-> Uint64FromBytes(b, rest + 16), fraction |-> 0],
         parentHash |-> HashAt(b, rest + 24), dirsRoot |-> HashAt(b, rest + 88),
         filesRoot |-> HashAt(b, rest + 56), chunksRoot |-> HashAt(b, rest + 120),
         stateRoot |-> HashAt(b, rest + 152)]

BlockHeaderFromBytes(b) ==
    LET idLength == ByteAt(b, 4)
        rest == 5 + idLength
    IN  [version |-> Uint32FromBytes(b, 0), chainID |-> ShortStringFromBytes(b, 5, idLength),
         height |-> Uint64FromBytes(b, rest), celestiaBlockHeight |-> Uint64FromBytes(b, rest + 8),
         timestamp |-> [seconds |-> Uint64FromBytes(b, rest + 16), fraction |-> 0],
         parentHash |-> HashAt(b, rest + 24), dirsRoot |-> HashAt(b, rest + 56),
         filesRoot |-> HashAt(b, rest + 88), chunksRoot |-> HashAt(b, rest + 120),
         stateRoot |-> HashAt(b, rest + 152)]

BlockBodyFromBytes(b) ==
    LET dirs == Uint32FromBytes(b, 0)
        files == Uint32FromBytes(b, 4)
        list(from, n) == [i \in 1 .. n |->
                            BlobIdentifierFromBytes(Slice(b, 12 + 40 * (from + i - 1), 40))]
    IN  [dirs |-> list(0, dirs), files |-> list(dirs, files),
         chunks |-> list(dirs + files, Uint32FromBytes(b, 8))]

BlockFromBytes(b) ==
    LET length == Uint32FromBytes(b, 0) IN
    [header |-> BlockHeaderFromBytes(Slice(b, 4, length)),
     body |-> BlockBodyFromBytes(Slice(b, 4 + length, b.length - 4 - length))]

-----------------------------------------------------------------------------
(* Protobuf messages: times keep their fraction, hashes are bytes. *)

HeaderHashes == {"parentHash", "dirsRoot", "filesRoot", "chunksRoot", "stateRoot"}

HeaderProto(h) == [f \in DOMAIN h |-> IF f \in HeaderHashes THEN Raw(32, h[f]) ELSE h[f]]

(* Mutant of BlockHeaderFromProto: the state root is not taken over. *)
BlockHeaderFromProtoStateless(p) ==
    [f \in DOMAIN p |-> IF f = "stateRoot" THEN Zero
                        ELSE IF f \in HeaderHashes THEN HashAt(p[f], 0) ELSE p[f]]

BlockHeaderFromProto(p) == [f \in DOMAIN p |-> IF f \in HeaderHashes THEN HashAt(p[f], 0) ELSE p[f]]

BodyProto(body) == [l \in DOMAIN body |-> [i \in DOMAIN body[l] |-> IdProto(body[l][i])]]

BlockBodyFromProto(p) ==
    [l \in DOMAIN p |-> [i \in DOMAIN p[l] |-> BlobIdentifierFromProto(p[l][i])]]
=============================================================================
