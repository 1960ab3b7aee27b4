---------------------------- MODULE RestApiProofs ----------------------------
(***************************************************************************)
(* Blocks survive their encodings, and the REST API does not contradict    *)
(* itself, for every chain: BlocksDecode, RootBinds and RestConsistent.    *)
(***************************************************************************)
EXTENDS RestApi, TLAPS, WellFoundedInduction

-----------------------------------------------------------------------------
(***************************************************************************)
(* Bytes: what is appended is read at its offset, and the rest as before.  *)
(***************************************************************************)
IsBytes(b) ==
    /\ b = [length |-> b.length, words |-> [o \in DOMAIN b.words |-> b.words[o]]]
    /\ b.length \in Nat
    /\ DOMAIN b.words \subseteq 0 .. b.length - 1

LEMMA WordIs ==
    ASSUME NEW w \in Nat, NEW order, NEW v
    PROVE  /\ IsBytes(Word(w, order, v)) /\ Word(w, order, v).length = w
           /\ w > 0 => Read(Word(w, order, v), 0, w, order) = v
BY DEF IsBytes, Word, Read

LEMMA AppendIs ==
    ASSUME NEW a, NEW b, IsBytes(a), IsBytes(b)
    PROVE  IsBytes(a ++ b) /\ (a ++ b).length = a.length + b.length
BY DEF IsBytes, ++

LEMMA ReadLeft ==
    ASSUME NEW a, NEW b, IsBytes(a), IsBytes(b), NEW at \in Nat, at < a.length, NEW w, NEW order
    PROVE  Read(a ++ b, at, w, order) = Read(a, at, w, order)
<1>1. at \in DOMAIN (a ++ b).words <=> at \in DOMAIN a.words
  BY DEF IsBytes, ++
<1>2. at \in DOMAIN a.words => (a ++ b).words[at] = a.words[at]
  BY DEF IsBytes, ++
<1> QED
  BY <1>1, <1>2 DEF Read

LEMMA ReadRight ==
    ASSUME NEW a, NEW b, IsBytes(a), IsBytes(b), NEW at \in Nat, NEW w, NEW order
    PROVE  Read(a ++ b, a.length + at, w, order) = Read(b, at, w, order)
<1>1. a.length + at \in DOMAIN (a ++ b).words <=> at \in DOMAIN b.words
  BY DEF IsBytes, ++
<1>2. at \in DOMAIN b.words => (a ++ b).words[a.length + at] = b.words[at]
  BY DEF IsBytes, ++
<1> QED
  BY <1>1, <1>2 DEF Read

LEMMA SliceLeft ==
    ASSUME NEW a, NEW b, IsBytes(a), IsBytes(b), NEW from \in Nat, NEW n \in Nat, from + n <= a.length
    PROVE  Slice(a ++ b, from, n) = Slice(a, from, n)
<1>1. ASSUME NEW p \in 0 .. n - 1
      PROVE  /\ from + p \in DOMAIN (a ++ b).words <=> from + p \in DOMAIN a.words
             /\ from + p \in DOMAIN a.words => (a ++ b).words[from + p] = a.words[from + p]
  BY DEF IsBytes, ++
<1> QED
  BY <1>1 DEF Slice

LEMMA SliceRight ==
    ASSUME NEW a, NEW b, IsBytes(a), IsBytes(b), NEW from \in Nat, NEW n \in Nat
    PROVE  Slice(a ++ b, a.length + from, n) = Slice(b, from, n)
<1>1. ASSUME NEW p \in 0 .. n - 1
      PROVE  /\ a.length + from + p \in DOMAIN (a ++ b).words <=> from + p \in DOMAIN b.words
             /\ from + p \in DOMAIN b.words => (a ++ b).words[a.length + from + p] = b.words[from + p]
  BY DEF IsBytes, ++
<1> QED
  BY <1>1 DEF Slice

LEMMA SliceWhole ==
    ASSUME NEW b, IsBytes(b)
    PROVE  Slice(b, 0, b.length) = b
<1>1. {p \in 0 .. b.length - 1 : 0 + p \in DOMAIN b.words} = DOMAIN b.words
  BY DEF IsBytes
<1> QED
  BY <1>1 DEF Slice, IsBytes

LEMMA ThreeIs ==
    ASSUME NEW a, NEW b, NEW c, IsBytes(a), IsBytes(b), IsBytes(c)
    PROVE  /\ IsBytes(a ++ b ++ c)
           /\ (a ++ b ++ c).length = a.length + b.length + c.length
<1>1. PICK ab : ab = a ++ b
  OBVIOUS
<1>2. IsBytes(ab) /\ ab.length = a.length + b.length
  BY <1>1, AppendIs
<1> QED
  BY <1>1, <1>2, AppendIs

LEMMA ReadThree ==
    ASSUME NEW a, NEW b, NEW c, IsBytes(a), IsBytes(b), IsBytes(c), NEW at \in Nat, NEW w, NEW order
    PROVE  /\ at < a.length => Read(a ++ b ++ c, at, w, order) = Read(a, at, w, order)
           /\ at < b.length => Read(a ++ b ++ c, a.length + at, w, order) = Read(b, at, w, order)
           /\ Read(a ++ b ++ c, a.length + b.length + at, w, order) = Read(c, at, w, order)
<1>1. PICK ab : ab = a ++ b
  OBVIOUS
<1>2. IsBytes(ab) /\ ab.length = a.length + b.length
  BY <1>1, AppendIs
<1>3. a.length \in Nat /\ b.length \in Nat
  BY DEF IsBytes
<1>4. ASSUME at < a.length PROVE Read(ab ++ c, at, w, order) = Read(a, at, w, order)
  <2>1. Read(ab ++ c, at, w, order) = Read(ab, at, w, order)
    BY <1>2, <1>3, <1>4, ReadLeft
  <2> QED
    BY <1>1, <1>4, <2>1, ReadLeft
<1>5. ASSUME at < b.length PROVE Read(ab ++ c, a.length + at, w, order) = Read(b, at, w, order)
  <2>1. Read(ab ++ c, a.length + at, w, order) = Read(ab, a.length + at, w, order)
    BY <1>2, <1>3, <1>5, ReadLeft
  <2> QED
    BY <1>1, <2>1, ReadRight
<1>6. Read(ab ++ c, ab.length + at, w, order) = Read(c, at, w, order)
  BY <1>2, ReadRight
<1> QED
  BY <1>1, <1>2, <1>4, <1>5, <1>6

-----------------------------------------------------------------------------
(***************************************************************************)
(* Headers.                                                                *)
(***************************************************************************)
IsHeader(h) ==
    /\ h = [version |-> h.version, chainID |-> h.chainID, height |-> h.height,
            celestiaBlockHeight |-> h.celestiaBlockHeight, timestamp |-> h.timestamp,
            parentHash |-> h.parentHash, dirsRoot |-> h.dirsRoot, filesRoot |-> h.filesRoot,
            chunksRoot |-> h.chunksRoot, stateRoot |-> h.stateRoot]
    /\ h.chainID = [text |-> h.chainID.text, length |-> h.chainID.length]
    /\ h.chainID.length \in Nat \ {0}
    /\ h.timestamp = [seconds |-> h.timestamp.seconds, fraction |-> h.timestamp.fraction]

(* What the bytes of a header keep of it. *)
Cut(id) == [id EXCEPT !.length = IF @ > ShortStringMax THEN ShortStringMax ELSE @]
Kept(h) ==
    [version |-> h.version, chainID |-> Cut(h.chainID), height |-> h.height,
     celestiaBlockHeight |-> h.celestiaBlockHeight,
     timestamp |-> [seconds |-> h.timestamp.seconds, fraction |-> 0],
     parentHash |-> h.parentHash, dirsRoot |-> h.dirsRoot, filesRoot |-> h.filesRoot,
     chunksRoot |-> h.chunksRoot, stateRoot |-> h.stateRoot]

LEMMA CutIs ==
    ASSUME NEW h, IsHeader(h)
    PROVE  /\ Cut(h.chainID).length \in 1 .. 255
           /\ Cut(h.chainID) = [text |-> h.chainID.text, length |-> Cut(h.chainID).length]
           /\ Cut(Cut(h.chainID)) = Cut(h.chainID)
<1>1. PICK id : id = h.chainID
  OBVIOUS
<1>2. id = [text |-> id.text, length |-> id.length] /\ id.length \in Nat \ {0}
  BY <1>1 DEF IsHeader
<1>3. PICK n \in 1 .. 255 : n = IF id.length > 255 THEN 255 ELSE id.length
  BY <1>2
<1>4. Cut(id) = [text |-> id.text, length |-> n]
  BY <1>2, <1>3 DEF Cut, ShortStringMax
<1>5. PICK c : c = Cut(id)
  OBVIOUS
<1>6. c.text = id.text /\ c.length = n /\ c = [text |-> id.text, length |-> n]
  BY <1>4, <1>5
<1>7. Cut(c) = c
  <2>1. Cut(c) = [c EXCEPT !.length = n]
    BY <1>6 DEF Cut, ShortStringMax
  <2> QED
    BY <1>6, <2>1
<1> QED
  BY ONLY <1>1, <1>5, <1>6, <1>7

LEMMA KeptIs ==
    ASSUME NEW h, IsHeader(h)
    PROVE  IsHeader(Kept(h))
<1>1. PICK id : id = Cut(h.chainID)
  OBVIOUS
<1>2. id = [text |-> h.chainID.text, length |-> id.length] /\ id.length \in 1 .. 255
  BY <1>1, CutIs
<1> QED
  BY <1>1, <1>2 DEF IsHeader, Kept

(* As BlocksDecode says it. *)
LEMMA KeptExcept ==
    ASSUME NEW b, b = [header |-> b.header, body |-> b.body], IsHeader(b.header)
    PROVE  [b EXCEPT !.header.timestamp.fraction = 0,
                     !.header.chainID.length = IF @ > ShortStringMax THEN ShortStringMax ELSE @]
             = [header |-> Kept(b.header), body |-> b.body]
<1>1. PICK h : h = b.header
  OBVIOUS
<1>2. IsHeader(h)
  BY <1>1
<1>3. PICK t : t = [seconds |-> h.timestamp.seconds, fraction |-> 0]
  OBVIOUS
<1>4. t = [h.timestamp EXCEPT !.fraction = 0]
  BY <1>2, <1>3 DEF IsHeader
<1>5. PICK g : g = [h EXCEPT !.timestamp = t]
  OBVIOUS
<1>6. /\ [b EXCEPT !.header.timestamp.fraction = 0] = [header |-> g, body |-> b.body]
      /\ g.chainID = h.chainID
  BY <1>1, <1>2, <1>4, <1>5 DEF IsHeader
<1>7. PICK c : c = [header |-> g, body |-> b.body]
  OBVIOUS
<1>8. PICK id : id = Cut(h.chainID)
  OBVIOUS
<1>9. [c EXCEPT !.header.chainID.length = IF @ > ShortStringMax THEN ShortStringMax ELSE @]
        = [header |-> [g EXCEPT !.chainID = id], body |-> b.body]
  <2>1. PICK n : n = IF h.chainID.length > ShortStringMax THEN ShortStringMax ELSE h.chainID.length
    OBVIOUS
  <2>2. id = [h.chainID EXCEPT !.length = n]
    BY <1>8, <2>1 DEF Cut
  <2>3. c.header = g /\ c.header.chainID = h.chainID
    BY <1>6, <1>7
  <2>4. [c EXCEPT !.header.chainID.length = IF @ > ShortStringMax THEN ShortStringMax ELSE @]
          = [c EXCEPT !.header.chainID.length = n]
    BY <2>1, <2>3
  <2>5. [c EXCEPT !.header.chainID.length = n] = [c EXCEPT !.header = [g EXCEPT !.chainID = id]]
    BY <2>2, <2>3
  <2>6. ASSUME NEW x PROVE [c EXCEPT !.header = x] = [header |-> x, body |-> b.body]
    BY <1>7
  <2>7. [c EXCEPT !.header = [g EXCEPT !.chainID = id]]
          = [header |-> [g EXCEPT !.chainID = id], body |-> b.body]
    BY ONLY <2>6
  <2> QED
    BY ONLY <2>4, <2>5, <2>7
<1>10. [g EXCEPT !.chainID = id] = Kept(h)
  <2>1. g = [version |-> h.version, chainID |-> h.chainID, height |-> h.height,
             celestiaBlockHeight |-> h.celestiaBlockHeight, timestamp |-> t,
             parentHash |-> h.parentHash, dirsRoot |-> h.dirsRoot, filesRoot |-> h.filesRoot,
             chunksRoot |-> h.chunksRoot, stateRoot |-> h.stateRoot]
    BY <1>2, <1>5 DEF IsHeader
  <2> QED
    BY <1>3, <1>8, <2>1 DEF Kept
<1> QED
  BY <1>1, <1>6, <1>7, <1>9, <1>10

(* BlockHeader.Bytes does not see the rest. *)
LEMMA KeptBytes ==
    ASSUME NEW h, IsHeader(h)
    PROVE  HeaderBytes(Kept(h)) = HeaderBytes(h)
<1>1. PICK k : k = Kept(h)
  OBVIOUS
<1>2. BytesFromShortString(k.chainID) = BytesFromShortString(h.chainID)
  <2>1. ASSUME NEW id
        PROVE  BytesFromShortString(id) = Raw(1, Cut(id).length) ++ Raw(Cut(id).length, Cut(id))
    BY DEF BytesFromShortString, Cut
  <2>2. k.chainID = Cut(h.chainID) /\ Cut(k.chainID) = Cut(h.chainID)
    BY <1>1, CutIs DEF Kept
  <2> QED
    BY <2>1, <2>2
<1>3. BytesFromTime(k.timestamp) = BytesFromTime(h.timestamp)
  BY <1>1 DEF BytesFromTime, Kept
<1>4. /\ k.version = h.version /\ k.height = h.height
      /\ k.celestiaBlockHeight = h.celestiaBlockHeight /\ k.parentHash = h.parentHash
      /\ k.dirsRoot = h.dirsRoot /\ k.filesRoot = h.filesRoot /\ k.chunksRoot = h.chunksRoot
      /\ k.stateRoot = h.stateRoot
  BY <1>1 DEF Kept
<1>5. HeaderBytes(k) = HeaderBytes(h)
  BY <1>2, <1>3, <1>4 DEF HeaderBytes
<1> QED
  BY <1>1, <1>5

(* The five pieces of a header's bytes. *)
ChainIDBytes(h) == BytesFromShortString(h.chainID)
PlaceBytes(h) == U64(h.height) ++ U64(h.celestiaBlockHeight) ++ BytesFromTime(h.timestamp)
RootsBytes(h) == Raw(32, h.dirsRoot) ++ Raw(32, h.filesRoot) ++ Raw(32, h.chunksRoot)
FrontBytes(h) == U32(h.version) ++ ChainIDBytes(h) ++ PlaceBytes(h)

LEMMA ChainIDReads ==
    ASSUME NEW h, IsHeader(h)
    PROVE  /\ IsBytes(ChainIDBytes(h)) /\ ChainIDBytes(h).length = 1 + Cut(h.chainID).length
           /\ Read(ChainIDBytes(h), 0, 1, "none") = Cut(h.chainID).length
           /\ Read(ChainIDBytes(h), 1, Cut(h.chainID).length, "none") = Cut(h.chainID)
<1>1. PICK id, n : id = Cut(h.chainID) /\ n = Cut(h.chainID).length
  OBVIOUS
<1>2. n \in 1 .. 255
  BY <1>1, CutIs
<1>3. PICK a, b : a = Word(1, "none", n) /\ b = Word(n, "none", id)
  OBVIOUS
<1>4. ChainIDBytes(h) = a ++ b
  BY <1>1, <1>3 DEF ChainIDBytes, BytesFromShortString, Raw, Cut
<1>5. IsBytes(a) /\ a.length = 1 /\ Read(a, 0, 1, "none") = n
  BY <1>3, WordIs
<1>6. IsBytes(b) /\ b.length = n /\ Read(b, 0, n, "none") = id
  BY <1>2, <1>3, WordIs
<1>7. IsBytes(a ++ b) /\ (a ++ b).length = 1 + n
  BY <1>5, <1>6, AppendIs
<1>8. Read(a ++ b, 0, 1, "none") = n
  BY <1>5, <1>6, ReadLeft
<1>9. Read(a ++ b, 1, n, "none") = id
  <2>1. Read(a ++ b, 1 + 0, n, "none") = Read(b, 0, n, "none")
    BY <1>5, <1>6, ReadRight
  <2> QED
    BY <1>6, <2>1
<1> QED
  BY <1>1, <1>4, <1>7, <1>8, <1>9

(* Three words in a row. *)
LEMMA WordsRead ==
    ASSUME NEW w \in Nat \ {0}, NEW order, NEW x, NEW y, NEW z, NEW b,
           b = Word(w, order, x) ++ Word(w, order, y) ++ Word(w, order, z)
    PROVE  /\ IsBytes(b) /\ b.length = 3 * w
           /\ Read(b, 0, w, order) = x /\ Read(b, w, w, order) = y /\ Read(b, 2 * w, w, order) = z
<1>1. PICK p, q, r : p = Word(w, order, x) /\ q = Word(w, order, y) /\ r = Word(w, order, z)
  OBVIOUS
<1>2. /\ IsBytes(p) /\ p.length = w /\ Read(p, 0, w, order) = x
      /\ IsBytes(q) /\ q.length = w /\ Read(q, 0, w, order) = y
      /\ IsBytes(r) /\ r.length = w /\ Read(r, 0, w, order) = z
  BY <1>1, WordIs
<1>3. b = p ++ q ++ r
  BY <1>1
<1>4. IsBytes(b) /\ b.length = 3 * w
  BY <1>2, <1>3, ThreeIs
<1>5. /\ Read(b, 0, w, order) = x /\ Read(b, w + 0, w, order) = y
      /\ Read(b, w + w + 0, w, order) = z
  BY <1>2, <1>3, ReadThree
<1> QED
  BY <1>4, <1>5

LEMMA PlaceReads ==
    ASSUME NEW h, IsHeader(h)
    PROVE  /\ IsBytes(PlaceBytes(h)) /\ PlaceBytes(h).length = 24
           /\ Read(PlaceBytes(h), 0, 8, "little") = h.height
           /\ Read(PlaceBytes(h), 8, 8, "little") = h.celestiaBlockHeight
           /\ Read(PlaceBytes(h), 16, 8, "little") = h.timestamp.seconds
<1>1. PlaceBytes(h) = Word(8, "little", h.height) ++ Word(8, "little", h.celestiaBlockHeight)
                        ++ Word(8, "little", h.timestamp.seconds)
  BY DEF PlaceBytes, U64, BytesFromTime
<1>2. PICK b : b = PlaceBytes(h)
  OBVIOUS
<1>3. PICK w \in Nat \ {0} : w = 8
  OBVIOUS
<1>4. /\ IsBytes(b) /\ b.length = 3 * w
      /\ Read(b, 0, w, "little") = h.height
      /\ Read(b, w, w, "little") = h.celestiaBlockHeight
      /\ Read(b, 2 * w, w, "little") = h.timestamp.seconds
  BY <1>1, <1>2, <1>3, WordsRead
<1> QED
  BY <1>2, <1>3, <1>4

LEMMA RootsReads ==
    ASSUME NEW h, IsHeader(h)
    PROVE  /\ IsBytes(RootsBytes(h)) /\ RootsBytes(h).length = 96
           /\ Read(RootsBytes(h), 0, 32, "none") = h.dirsRoot
           /\ Read(RootsBytes(h), 32, 32, "none") = h.filesRoot
           /\ Read(RootsBytes(h), 64, 32, "none") = h.chunksRoot
<1>1. RootsBytes(h) = Word(32, "none", h.dirsRoot) ++ Word(32, "none", h.filesRoot)
                        ++ Word(32, "none", h.chunksRoot)
  BY DEF RootsBytes, Raw
<1>2. PICK b : b = RootsBytes(h)
  OBVIOUS
<1>3. PICK w \in Nat \ {0} : w = 32
  OBVIOUS
<1>4. /\ IsBytes(b) /\ b.length = 3 * w
      /\ Read(b, 0, w, "none") = h.dirsRoot
      /\ Read(b, w, w, "none") = h.filesRoot
      /\ Read(b, 2 * w, w, "none") = h.chunksRoot
  BY <1>1, <1>2, <1>3, WordsRead
<1> QED
  BY <1>2, <1>3, <1>4

LEMMA FrontReads ==
    ASSUME NEW h, IsHeader(h), NEW n \in Nat, n = Cut(h.chainID).length
    PROVE  /\ IsBytes(FrontBytes(h)) /\ FrontBytes(h).length = 29 + n
           /\ Read(FrontBytes(h), 0, 4, "little") = h.version
           /\ Read(FrontBytes(h), 4, 1, "none") = n
           /\ Read(FrontBytes(h), 5, n, "none") = Cut(h.chainID)
           /\ Read(FrontBytes(h), 5 + n, 8, "little") = h.height
           /\ Read(FrontBytes(h), 13 + n, 8, "little") = h.celestiaBlockHeight
           /\ Read(FrontBytes(h), 21 + n, 8, "little") = h.timestamp.seconds
<1>1. PICK a, b, c : a = Word(4, "little", h.version) /\ b = ChainIDBytes(h) /\ c = PlaceBytes(h)
  OBVIOUS
<1>2. FrontBytes(h) = a ++ b ++ c
  BY <1>1 DEF FrontBytes, U32
<1>3. IsBytes(a) /\ a.length = 4 /\ Read(a, 0, 4, "little") = h.version
  BY <1>1, WordIs
<1>4. /\ IsBytes(b) /\ b.length = 1 + n
      /\ Read(b, 0, 1, "none") = n /\ Read(b, 1, n, "none") = Cut(h.chainID)
  BY <1>1, ChainIDReads
<1>5. /\ IsBytes(c) /\ c.length = 24
      /\ Read(c, 0, 8, "little") = h.height /\ Read(c, 8, 8, "little") = h.celestiaBlockHeight
      /\ Read(c, 16, 8, "little") = h.timestamp.seconds
  BY <1>1, PlaceReads
<1>6. n \in 1 .. 255
  BY CutIs
<1>7. IsBytes(a ++ b ++ c) /\ (a ++ b ++ c).length = 29 + n
  BY <1>3, <1>4, <1>5, ThreeIs
<1>8. Read(a ++ b ++ c, 0, 4, "little") = h.version
  BY <1>3, <1>4, <1>5, ReadThree
<1>9. Read(a ++ b ++ c, 4 + 0, 1, "none") = n /\ Read(a ++ b ++ c, 4 + 1, n, "none") = Cut(h.chainID)
  BY <1>3, <1>4, <1>5, <1>6, ReadThree
<1>10. ASSUME NEW at \in Nat PROVE Read(a ++ b ++ c, 5 + n + at, 8, "little") = Read(c, at, 8, "little")
  <2>1. Read(a ++ b ++ c, a.length + b.length + at, 8, "little") = Read(c, at, 8, "little")
    BY <1>3, <1>4, <1>5, ReadThree
  <2>2. a.length + b.length + at = 5 + n + at
    BY <1>3, <1>4
  <2> QED
    BY <2>1, <2>2
<1>11. /\ Read(a ++ b ++ c, 5 + n + 0, 8, "little") = h.height
       /\ Read(a ++ b ++ c, 5 + n + 8, 8, "little") = h.celestiaBlockHeight
       /\ Read(a ++ b ++ c, 5 + n + 16, 8, "little") = h.timestamp.seconds
  BY <1>5, <1>10
<1> QED
  BY <1>2, <1>7, <1>8, <1>9, <1>11

(* BlockHeaderFromBytes undoes BlockHeader.Bytes, up to what these do not keep. *)
LEMMA HeaderDecodes ==
    ASSUME NEW h, IsHeader(h)
    PROVE  /\ BlockHeaderFromBytes(HeaderBytes(h)) = Kept(h)
           /\ IsBytes(HeaderBytes(h))
<1>1. PICK n \in Nat : n = Cut(h.chainID).length
  <2>1. Cut(h.chainID).length \in 1 .. 255
    BY CutIs
  <2> QED
    BY <2>1
<1>2. PICK a, b, c, d : /\ a = FrontBytes(h) /\ b = Word(32, "none", h.parentHash)
                        /\ c = RootsBytes(h) /\ d = Word(32, "none", h.stateRoot)
  OBVIOUS
<1>3. PICK t : t = a ++ b ++ c
  OBVIOUS
<1>4. HeaderBytes(h) = t ++ d
  BY <1>2, <1>3 DEF HeaderBytes, FrontBytes, ChainIDBytes, PlaceBytes, RootsBytes, Raw
<1>5. IsBytes(a) /\ a.length = 29 + n
  BY <1>1, <1>2, FrontReads
<1>6. IsBytes(b) /\ b.length = 32 /\ Read(b, 0, 32, "none") = h.parentHash
  BY <1>2, WordIs
<1>7. /\ IsBytes(c) /\ c.length = 96
      /\ Read(c, 0, 32, "none") = h.dirsRoot /\ Read(c, 32, 32, "none") = h.filesRoot
      /\ Read(c, 64, 32, "none") = h.chunksRoot
  BY <1>2, RootsReads
<1>8. IsBytes(d) /\ d.length = 32 /\ Read(d, 0, 32, "none") = h.stateRoot
  BY <1>2, WordIs
<1>9. IsBytes(t) /\ t.length = 157 + n
  BY <1>3, <1>5, <1>6, <1>7, ThreeIs
<1>10. IsBytes(t ++ d)
  BY <1>8, <1>9, AppendIs
<1>11. ASSUME NEW at \in Nat, at < 29 + n, NEW w, NEW order
       PROVE  Read(t ++ d, at, w, order) = Read(a, at, w, order)
  <2>1. Read(t ++ d, at, w, order) = Read(t, at, w, order)
    BY <1>8, <1>9, <1>11, ReadLeft
  <2> QED
    BY <1>3, <1>5, <1>6, <1>7, <1>11, <2>1, ReadThree
<1>12. Read(t ++ d, 29 + n, 32, "none") = h.parentHash
  <2>1. Read(t, 29 + n + 0, 32, "none") = h.parentHash
    BY <1>3, <1>5, <1>6, <1>7, ReadThree
  <2> QED
    BY <1>8, <1>9, <2>1, ReadLeft
<1>13. ASSUME NEW at \in Nat, at < 96
       PROVE  Read(t ++ d, 61 + n + at, 32, "none") = Read(c, at, 32, "none")
  <2>1. Read(t, 29 + n + 32 + at, 32, "none") = Read(c, at, 32, "none")
    BY <1>3, <1>5, <1>6, <1>7, ReadThree
  <2>2. Read(t ++ d, 61 + n + at, 32, "none") = Read(t, 61 + n + at, 32, "none")
    BY <1>8, <1>9, <1>13, ReadLeft
  <2> QED
    BY <2>1, <2>2
<1>14. Read(t ++ d, 157 + n + 0, 32, "none") = h.stateRoot
  BY <1>8, <1>9, ReadRight
<1>15. PICK e : e = t ++ d
  OBVIOUS
<1>16. /\ Read(e, 0, 4, "little") = h.version /\ Read(e, 4, 1, "none") = n
       /\ Read(e, 5, n, "none") = Cut(h.chainID)
       /\ Read(e, 5 + n, 8, "little") = h.height
       /\ Read(e, 13 + n, 8, "little") = h.celestiaBlockHeight
       /\ Read(e, 21 + n, 8, "little") = h.timestamp.seconds
  BY <1>1, <1>2, <1>11, <1>15, FrontReads
<1>17. /\ Read(e, 61 + n + 0, 32, "none") = h.dirsRoot
       /\ Read(e, 61 + n + 32, 32, "none") = h.filesRoot
       /\ Read(e, 61 + n + 64, 32, "none") = h.chunksRoot
  BY <1>7, <1>13, <1>15
<1>18. PICK r \in Nat : r = 5 + n
  OBVIOUS
<1>19. /\ Read(e, r, 8, "little") = h.height
       /\ Read(e, r + 8, 8, "little") = h.celestiaBlockHeight
       /\ Read(e, r + 16, 8, "little") = h.timestamp.seconds
       /\ Read(e, r + 24, 32, "none") = h.parentHash
       /\ Read(e, r + 56, 32, "none") = h.dirsRoot
       /\ Read(e, r + 88, 32, "none") = h.filesRoot
       /\ Read(e, r + 120, 32, "none") = h.chunksRoot
       /\ Read(e, r + 152, 32, "none") = h.stateRoot
  BY <1>12, <1>14, <1>15, <1>16, <1>17, <1>18
<1>20. BlockHeaderFromBytes(e) = Kept(h)
  BY <1>16, <1>18, <1>19 DEF BlockHeaderFromBytes, ByteAt, Uint32FromBytes, Uint64FromBytes,
     HashAt, ShortStringFromBytes, Kept
<1> QED
  BY <1>4, <1>10, <1>15, <1>20

(* Hash terms that are equal are of headers that differ in nothing that is kept. *)
LEMMA HashBinds ==
    ASSUME NEW h, NEW k, IsHeader(h), IsHeader(k),
           HashBytes(HeaderBytes(h)) = HashBytes(HeaderBytes(k))
    PROVE  Kept(h) = Kept(k)
<1>1. PICK a, b : a = HeaderBytes(h) /\ b = HeaderBytes(k)
  OBVIOUS
<1>2. a = b
  BY <1>1 DEF HashBytes
<1> QED
  BY <1>1, <1>2, HeaderDecodes

-----------------------------------------------------------------------------
(***************************************************************************)
(* Identifiers, bodies and blocks.                                         *)
(***************************************************************************)
Identifiers == [height : Nat, commitment : Commitments]
IdBodies == [dirs : Seq(Identifiers), files : Seq(Identifiers), chunks : Seq(Identifiers)]

LEMMA IdIs ==
    ASSUME NEW id \in Identifiers
    PROVE  /\ IsBytes(IdBytes(id)) /\ IdBytes(id).length = 40
           /\ DOMAIN IdBytes(id).words = {0, 8}
           /\ BlobIdentifierFromBytes(IdBytes(id)) = id
<1>1. PICK a, b : a = Word(8, "little", id.height) /\ b = Word(32, "none", id.commitment)
  OBVIOUS
<1>2. IdBytes(id) = a ++ b
  BY <1>1 DEF IdBytes, U64, Raw
<1>3. /\ IsBytes(a) /\ a.length = 8 /\ Read(a, 0, 8, "little") = id.height
      /\ IsBytes(b) /\ b.length = 32 /\ Read(b, 0, 32, "none") = id.commitment
  BY <1>1, WordIs
<1>4. DOMAIN a.words = {0} /\ DOMAIN b.words = {0}
  BY <1>1 DEF Word
<1>5. IsBytes(a ++ b) /\ (a ++ b).length = 40
  BY <1>3, AppendIs
<1>6. DOMAIN (a ++ b).words = {0, 8}
  BY <1>3, <1>4 DEF ++
<1>7. Read(a ++ b, 0, 8, "little") = id.height
  BY <1>3, ReadLeft
<1>8. Read(a ++ b, 8 + 0, 32, "none") = id.commitment
  BY <1>3, ReadRight
<1>9. id = [height |-> id.height, commitment |-> id.commitment]
  BY DEF Identifiers
<1>10. BlobIdentifierFromBytes(a ++ b) = id
  BY <1>5, <1>7, <1>8, <1>9 DEF BlobIdentifierFromBytes, Uint64FromBytes, HashAt
<1> QED
  BY <1>2, <1>5, <1>6, <1>10

LEMMA ListIs ==
    ASSUME NEW ids \in Seq(Identifiers)
    PROVE  /\ IsBytes(ListBytes(ids)) /\ ListBytes(ids).length = 40 * Len(ids)
           /\ \A i \in DOMAIN ids : Slice(ListBytes(ids), 40 * (i - 1), 40) = IdBytes(ids[i])
<1>1. PICK n \in Nat : n = Len(ids)
  OBVIOUS
<1>2. DOMAIN ids = 1 .. n
  BY <1>1
<1>3. PICK b : b = ListBytes(ids)
  OBVIOUS
<1>4. PICK D : D = UNION {{40 * (i - 1) + p : p \in {0, 8}} : i \in DOMAIN ids}
  OBVIOUS
<1>5. b.length = 40 * n /\ DOMAIN b.words = D
      /\ \A o \in D : b.words[o] = IdBytes(ids[(o \div 40) + 1]).words[o % 40]
  BY <1>1, <1>3, <1>4 DEF ListBytes
<1>6. \A o \in D : \E i \in 1 .. n : o = 40 * (i - 1) \/ o = 40 * (i - 1) + 8
  BY <1>2, <1>4
<1>7. D \subseteq 0 .. 40 * n - 1
  BY <1>6
<1>8. IsBytes(b)
  <2>1. b = [length |-> b.length, words |-> [o \in DOMAIN b.words |-> b.words[o]]]
    BY <1>3 DEF ListBytes
  <2>2. 40 * n \in Nat
    OBVIOUS
  <2> QED
    BY <1>5, <1>7, <2>1, <2>2 DEF IsBytes
<1>9. ASSUME NEW i \in 1 .. n PROVE Slice(b, 40 * (i - 1), 40) = IdBytes(ids[i])
  <2>1. PICK at \in Nat : at = 40 * (i - 1)
    OBVIOUS
  <2>2. ASSUME NEW p \in 0 .. 39 PROVE at + p \in D <=> p \in {0, 8}
    <3>1. ASSUME at + p \in D PROVE p \in {0, 8}
      <4>1. PICK j \in 1 .. n : at + p = 40 * (j - 1) \/ at + p = 40 * (j - 1) + 8
        BY <1>6, <3>1
      <4>2. i = j
        BY <2>1, <4>1
      <4> QED
        BY <2>1, <4>1, <4>2
    <3>2. ASSUME p \in {0, 8} PROVE at + p \in D
      <4>1. at + p \in {40 * (i - 1) + q : q \in {0, 8}}
        BY <2>1, <3>2
      <4> QED
        BY <1>2, <1>4, <4>1
    <3> QED
      BY <3>1, <3>2
  <2>3. ASSUME NEW p \in {0, 8} PROVE b.words[at + p] = IdBytes(ids[i]).words[p]
    <3>1. (at + p) \div 40 = i - 1 /\ (at + p) % 40 = p
      <4>1. PICK k \in Nat : k = i - 1 /\ at = 40 * k
        BY <2>1
      <4>2. (40 * k + 0) \div 40 = k /\ (40 * k + 0) % 40 = 0
        OBVIOUS
      <4>3. (40 * k + 8) \div 40 = k /\ (40 * k + 8) % 40 = 8
        OBVIOUS
      <4> QED
        BY <4>1, <4>2, <4>3
    <3>2. at + p \in D
      <4>1. p \in 0 .. 39
        OBVIOUS
      <4> QED
        BY <2>2, <4>1
    <3> QED
      BY <1>5, <3>1, <3>2
  <2>4. PICK e : e = IdBytes(ids[i])
    OBVIOUS
  <2>5. IsBytes(e) /\ e.length = 40 /\ DOMAIN e.words = {0, 8}
    BY <1>2, <2>4, IdIs
  <2>6. PICK S : S = {p \in 0 .. 40 - 1 : at + p \in DOMAIN b.words}
    OBVIOUS
  <2>7. S = {0, 8}
    <3>1. ASSUME NEW p PROVE p \in S <=> p \in {0, 8}
      <4>1. p \in S <=> p \in 0 .. 39 /\ at + p \in D
        BY <1>5, <2>6
      <4>2. p \in {0, 8} => p \in 0 .. 39
        OBVIOUS
      <4>3. CASE p \in 0 .. 39
        BY <2>2, <4>1, <4>3
      <4> QED
        BY <4>1, <4>2, <4>3
    <3> QED
      BY <3>1
  <2>8. Slice(b, at, 40) = [length |-> 40, words |-> [o \in {0, 8} |-> e.words[o]]]
    <3>1. Slice(b, at, 40) = [length |-> 40, words |-> [o \in S |-> b.words[at + o]]]
      BY <2>6 DEF Slice
    <3> QED
      BY <2>3, <2>4, <2>7, <3>1
  <2>9. e = [length |-> 40, words |-> [o \in {0, 8} |-> e.words[o]]]
    BY <2>5 DEF IsBytes
  <2> QED
    BY <2>1, <2>4, <2>8, <2>9
<1> QED
  BY <1>1, <1>2, <1>3, <1>5, <1>8, <1>9

LEMMA SliceThree ==
    ASSUME NEW a, NEW b, NEW c, IsBytes(a), IsBytes(b), IsBytes(c), NEW from \in Nat, NEW n \in Nat
    PROVE  /\ from + n <= a.length => Slice(a ++ b ++ c, from, n) = Slice(a, from, n)
           /\ from + n <= b.length => Slice(a ++ b ++ c, a.length + from, n) = Slice(b, from, n)
           /\ Slice(a ++ b ++ c, a.length + b.length + from, n) = Slice(c, from, n)
<1>1. PICK ab : ab = a ++ b
  OBVIOUS
<1>2. IsBytes(ab) /\ ab.length = a.length + b.length
  BY <1>1, AppendIs
<1>3. a.length \in Nat /\ b.length \in Nat
  BY DEF IsBytes
<1>4. ASSUME from + n <= a.length PROVE Slice(ab ++ c, from, n) = Slice(a, from, n)
  <2>1. Slice(ab ++ c, from, n) = Slice(ab, from, n)
    BY <1>2, <1>3, <1>4, SliceLeft
  <2> QED
    BY <1>1, <1>4, <2>1, SliceLeft
<1>5. ASSUME from + n <= b.length PROVE Slice(ab ++ c, a.length + from, n) = Slice(b, from, n)
  <2>1. a.length + from \in Nat /\ a.length + from + n <= ab.length
    BY <1>2, <1>3, <1>5
  <2>2. Slice(ab ++ c, a.length + from, n) = Slice(ab, a.length + from, n)
    BY <1>2, <2>1, SliceLeft
  <2> QED
    BY <1>1, <2>2, SliceRight
<1>6. Slice(ab ++ c, ab.length + from, n) = Slice(c, from, n)
  BY <1>2, SliceRight
<1> QED
  BY <1>1, <1>2, <1>4, <1>5, <1>6

LEMMA BodyDecodes ==
    ASSUME NEW body \in IdBodies
    PROVE  IsBytes(BodyBytes(body)) /\ BlockBodyFromBytes(BodyBytes(body)) = body
<1>1. PICK D, F, C : D = body.dirs /\ F = body.files /\ C = body.chunks
  OBVIOUS
<1>2. /\ D \in Seq(Identifiers) /\ F \in Seq(Identifiers) /\ C \in Seq(Identifiers)
      /\ body = [dirs |-> D, files |-> F, chunks |-> C]
  BY <1>1 DEF IdBodies
<1>3. PICK d \in Nat, f \in Nat, c \in Nat : d = Len(D) /\ f = Len(F) /\ c = Len(C)
  BY <1>2
<1>4. DOMAIN D = 1 .. d /\ DOMAIN F = 1 .. f /\ DOMAIN C = 1 .. c
  BY <1>2, <1>3
<1>5. PICK n : n = Word(4, "little", d) ++ Word(4, "little", f) ++ Word(4, "little", c)
  OBVIOUS
<1>6. /\ IsBytes(n) /\ n.length = 12
      /\ Read(n, 0, 4, "little") = d /\ Read(n, 4, 4, "little") = f /\ Read(n, 8, 4, "little") = c
  BY <1>5, WordsRead
<1>7. PICK x, y, z : x = ListBytes(D) /\ y = ListBytes(F) /\ z = ListBytes(C)
  OBVIOUS
<1>8. /\ IsBytes(x) /\ x.length = 40 * d
      /\ IsBytes(y) /\ y.length = 40 * f
      /\ IsBytes(z) /\ z.length = 40 * c
  BY <1>2, <1>3, <1>7, ListIs
<1>9. PICK l : l = x ++ y ++ z
  OBVIOUS
<1>9a. ASSUME NEW at \in Nat
       PROVE  /\ at + 40 <= x.length => Slice(l, at, 40) = Slice(x, at, 40)
              /\ at + 40 <= y.length => Slice(l, x.length + at, 40) = Slice(y, at, 40)
              /\ Slice(l, x.length + y.length + at, 40) = Slice(z, at, 40)
  BY <1>8, <1>9, SliceThree
<1>10. IsBytes(l)
  BY <1>8, <1>9, ThreeIs
<1>11. BodyBytes(body) = n ++ l
  BY <1>1, <1>3, <1>5, <1>7, <1>9 DEF BodyBytes, U32
<1>12. IsBytes(n ++ l)
  BY <1>6, <1>10, AppendIs
<1>13. /\ Read(n ++ l, 0, 4, "little") = d /\ Read(n ++ l, 4, 4, "little") = f
       /\ Read(n ++ l, 8, 4, "little") = c
  BY <1>6, <1>10, ReadLeft
<1>14. ASSUME NEW from \in Nat PROVE Slice(n ++ l, 12 + from, 40) = Slice(l, from, 40)
  BY <1>6, <1>10, SliceRight
<1>15. ASSUME NEW i \in 1 .. d PROVE Slice(n ++ l, 12 + 40 * (0 + i - 1), 40) = IdBytes(D[i])
  <2>1. PICK at \in Nat : at = 40 * (i - 1) /\ at = 40 * (0 + i - 1) /\ at + 40 <= 40 * d
    <3>1. PICK at : at = 40 * (i - 1)
      OBVIOUS
    <3>2. at \in Nat /\ at + 40 <= 40 * d
      BY <3>1
    <3>3. at = 40 * (0 + i - 1)
      BY <3>1
    <3> QED
      BY <3>1, <3>2, <3>3
  <2>2. Slice(l, at, 40) = Slice(x, at, 40)
    BY <1>8, <1>9a, <2>1
  <2>3. Slice(x, at, 40) = IdBytes(D[i])
    BY <1>2, <1>4, <1>7, <2>1, ListIs
  <2> QED
    BY <1>14, <2>1, <2>2, <2>3
<1>16. ASSUME NEW i \in 1 .. f PROVE Slice(n ++ l, 12 + 40 * (d + i - 1), 40) = IdBytes(F[i])
  <2>1. PICK at \in Nat : at = 40 * (i - 1) /\ 40 * d + at = 40 * (d + i - 1) /\ at + 40 <= 40 * f
    <3>1. PICK at : at = 40 * (i - 1)
      OBVIOUS
    <3>2. at \in Nat /\ at + 40 <= 40 * f
      BY <3>1
    <3>3. 40 * d + at = 40 * (d + i - 1)
      BY <3>1
    <3> QED
      BY <3>1, <3>2, <3>3
  <2>2. Slice(l, 40 * d + at, 40) = Slice(y, at, 40)
    BY <1>8, <1>9a, <2>1
  <2>3. Slice(y, at, 40) = IdBytes(F[i])
    BY <1>2, <1>4, <1>7, <2>1, ListIs
  <2>4. 40 * d + at \in Nat
    BY <2>1
  <2> QED
    BY <1>14, <2>1, <2>2, <2>3, <2>4
<1>17. ASSUME NEW i \in 1 .. c PROVE Slice(n ++ l, 12 + 40 * (d + f + i - 1), 40) = IdBytes(C[i])
  <2>1. PICK at \in Nat : at = 40 * (i - 1) /\ 40 * d + 40 * f + at = 40 * (d + f + i - 1)
                           /\ at + 40 <= 40 * c
    <3>1. PICK at : at = 40 * (i - 1)
      OBVIOUS
    <3>2. at \in Nat /\ at + 40 <= 40 * c
      BY <3>1
    <3>3. 40 * d + 40 * f + at = 40 * (d + f + i - 1)
      BY <3>1
    <3> QED
      BY <3>1, <3>2, <3>3
  <2>2. Slice(l, 40 * d + 40 * f + at, 40) = Slice(z, at, 40)
    BY <1>8, <1>9a, <2>1
  <2>3. Slice(z, at, 40) = IdBytes(C[i])
    BY <1>2, <1>4, <1>7, <2>1, ListIs
  <2>4. 40 * d + 40 * f + at \in Nat
    BY <2>1
  <2> QED
    BY <1>14, <2>1, <2>2, <2>3, <2>4
<1>18. ASSUME NEW id \in Identifiers PROVE BlobIdentifierFromBytes(IdBytes(id)) = id
  BY IdIs
<1>19. PICK e : e = n ++ l
  OBVIOUS
<1>20. /\ D = [i \in 1 .. d |-> BlobIdentifierFromBytes(Slice(e, 12 + 40 * (0 + i - 1), 40))]
       /\ F = [i \in 1 .. f |-> BlobIdentifierFromBytes(Slice(e, 12 + 40 * (d + i - 1), 40))]
       /\ C = [i \in 1 .. c |-> BlobIdentifierFromBytes(Slice(e, 12 + 40 * (d + f + i - 1), 40))]
  BY <1>2, <1>4, <1>15, <1>16, <1>17, <1>18, <1>19
<1>21. BlockBodyFromBytes(e) = [dirs |-> D, files |-> F, chunks |-> C]
  BY <1>13, <1>19, <1>20 DEF BlockBodyFromBytes, Uint32FromBytes
<1> QED
  BY <1>2, <1>11, <1>12, <1>19, <1>21

(* BlockFromBytes undoes Block.Bytes. *)
LEMMA BlockDecodes ==
    ASSUME NEW h, IsHeader(h), NEW body \in IdBodies
    PROVE  BlockFromBytes(BlockBytes([header |-> h, body |-> body])) = [header |-> Kept(h), body |-> body]
<1>1. PICK b, c : b = HeaderBytes(h) /\ c = BodyBytes(body)
  OBVIOUS
<1>2. PICK a : a = Word(4, "little", b.length)
  OBVIOUS
<1>3. IsBytes(b) /\ IsBytes(c) /\ BlockHeaderFromBytes(b) = Kept(h) /\ BlockBodyFromBytes(c) = body
  BY <1>1, HeaderDecodes, BodyDecodes
<1>4. IsBytes(a) /\ a.length = 4 /\ Read(a, 0, 4, "little") = b.length
  BY <1>2, WordIs
<1>5. b.length \in Nat /\ c.length \in Nat
  BY <1>3 DEF IsBytes
<1>6. PICK e : e = a ++ b ++ c
  OBVIOUS
<1>7. BlockBytes([header |-> h, body |-> body]) = e
  BY <1>1, <1>2, <1>6 DEF BlockBytes, U32
<1>8. e.length = 4 + b.length + c.length
  BY <1>3, <1>4, <1>6, ThreeIs
<1>9. Read(e, 0, 4, "little") = b.length
  BY <1>3, <1>4, <1>6, ReadThree
<1>10. Slice(e, 4 + 0, b.length) = Slice(b, 0, b.length)
  BY <1>3, <1>4, <1>5, <1>6, SliceThree
<1>11. Slice(e, 4 + b.length + 0, c.length) = Slice(c, 0, c.length)
  BY <1>3, <1>4, <1>5, <1>6, SliceThree
<1>12. Slice(b, 0, b.length) = b /\ Slice(c, 0, c.length) = c
  BY <1>3, SliceWhole
<1>13. Slice(e, 4, b.length) = b /\ Slice(e, 4 + b.length, e.length - 4 - b.length) = c
  BY <1>5, <1>8, <1>10, <1>11, <1>12
<1>14. BlockFromBytes(e) = [header |-> Kept(h), body |-> body]
  BY <1>3, <1>9, <1>13 DEF BlockFromBytes, Uint32FromBytes
<1> QED
  BY <1>7, <1>14

-----------------------------------------------------------------------------
(***************************************************************************)
(* The node's invariant: what is stored are the blocks that were made, one *)
(* for every height, each after the one its parent hash names, indexed by  *)
(* the hash of its header; and the process remembers no other hash.  Since *)
(* a block is read back without the fraction of its time, this needs that  *)
(* the hash does not see it (KeptBytes).                                   *)
(***************************************************************************)
HashOf(b) == HashBytes(HeaderBytes(b.header))

(* What every start makes as long as nothing is finalized. *)
GenesisBlock ==
    [NewBlockFromHeader(NewHeader, NoBody) EXCEPT
       !.header.chainID = chainID, !.header.celestiaBlockHeight = Offset,
       !.header.timestamp = CelestiaTime(Offset)]

IsBlock(b, height) ==
    /\ b = [header |-> b.header, body |-> b.body]
    /\ IsHeader(b.header) /\ b.header.height = height
    /\ b.body \in IdBodies
    /\ b.header.dirsRoot = BlobIdentifiersMerkleRoot(b.body.dirs)
    /\ b.header.filesRoot = BlobIdentifiersMerkleRoot(b.body.files)
    /\ b.header.chunksRoot = BlobIdentifiersMerkleRoot(b.body.chunks)

BlocksMade ==
    /\ chainID \in ChainIDs /\ finalizedHeight \in Nat /\ finalizedHeight <= Len(Bodies)
    /\ \E S : made \in Seq(S)
    /\ IF finalizedHeight = 0 THEN Len(made) \in {0, 1} ELSE Len(made) = finalizedHeight + 1
    /\ \A k \in 1 .. Len(made) : IsBlock(made[k], k - 1)
    /\ \A k \in 1 .. Len(made) - 1 : made[k + 1].header.parentHash = HashOf(made[k])
    /\ made # <<>> => made[1] = GenesisBlock

BlocksStored ==
    /\ DOMAIN blocks = 0 .. Len(made) - 1
    /\ DOMAIN blockHashes = {HashOf(made[k]) : k \in 1 .. Len(made)}
    /\ \A k \in 1 .. Len(made) :
         /\ blocks[k - 1] = BlockBytes(made[k])
         /\ blockHashes[HashOf(made[k])] = BytesFromUint64Key(k - 1)

KeysStored ==
    \A k \in 1 .. Len(made) : /\ Keys(made[k].body.files) \subseteq fileManifests
                              /\ Keys(made[k].body.dirs) \subseteq dirManifests

(* The hashes a process may have cached. *)
CacheKnows(cache) ==
    \A h \in DOMAIN cache : h + 1 \in 1 .. Len(made) /\ cache[h] = HashOf(made[h + 1])

PrevKnown == prevBlock = {} \/ (made # <<>> /\ prevBlock = {made[Len(made)]})

NodeInv == BlocksMade /\ BlocksStored /\ KeysStored /\ CacheKnows(hashCache) /\ PrevKnown

(* What GetBlock and GetBlockByHash read. *)
Stored(b) == [header |-> Kept(b.header), body |-> b.body]

LEMMA MadeIs ==
    ASSUME BlocksMade
    PROVE  /\ Len(made) \in Nat /\ DOMAIN made = 1 .. Len(made)
           /\ made = <<>> <=> Len(made) = 0
<1>1. PICK S : made \in Seq(S)
  BY DEF BlocksMade
<1> QED
  BY <1>1

LEMMA StoredIs ==
    ASSUME BlocksMade, BlocksStored
    PROVE  /\ \A k \in 1 .. Len(made) : /\ GetBlock(k - 1) = {Stored(made[k])}
                                        /\ GetBlockByHash(HashOf(made[k])) = {Stored(made[k])}
           /\ \A height : height \notin 0 .. Len(made) - 1 => GetBlock(height) = {}
           /\ \A hash : \/ GetBlockByHash(hash) = {}
                        \/ \E k \in 1 .. Len(made) : GetBlockByHash(hash) = {Stored(made[k])}
<1>1. Len(made) \in Nat
  BY MadeIs
<1>2. ASSUME NEW k \in 1 .. Len(made) PROVE GetBlock(k - 1) = {Stored(made[k])}
  <2>1. PICK b : b = made[k]
    OBVIOUS
  <2>2. b = [header |-> b.header, body |-> b.body] /\ IsHeader(b.header) /\ b.body \in IdBodies
    BY <2>1 DEF BlocksMade, IsBlock
  <2>3. k - 1 \in DOMAIN blocks /\ blocks[k - 1] = BlockBytes(b)
    BY <1>1, <2>1 DEF BlocksStored
  <2>4. BlockFromBytes(BlockBytes(b)) = Stored(b)
    BY <2>2, BlockDecodes DEF Stored
  <2> QED
    BY <2>1, <2>3, <2>4 DEF GetBlock
<1>3. ASSUME NEW height, height \notin 0 .. Len(made) - 1 PROVE GetBlock(height) = {}
  BY <1>3 DEF GetBlock, BlocksStored
<1>4. ASSUME NEW k \in 1 .. Len(made) PROVE GetBlockByHash(HashOf(made[k])) = {Stored(made[k])}
  <2>1. /\ HashOf(made[k]) \in DOMAIN blockHashes
        /\ blockHashes[HashOf(made[k])] = BytesFromUint64Key(k - 1)
    BY DEF BlocksStored
  <2>2. Uint64FromBytesKey(BytesFromUint64Key(k - 1)) = k - 1
    BY WordIs DEF Uint64FromBytesKey, BytesFromUint64Key
  <2> QED
    BY <1>2, <2>1, <2>2 DEF GetBlockByHash
<1>5. ASSUME NEW hash, GetBlockByHash(hash) # {}
      PROVE  \E k \in 1 .. Len(made) : GetBlockByHash(hash) = {Stored(made[k])}
  <2>1. hash \in DOMAIN blockHashes
    BY <1>5 DEF GetBlockByHash
  <2>2. PICK k \in 1 .. Len(made) : hash = HashOf(made[k])
    BY <2>1 DEF BlocksStored
  <2> QED
    BY <1>4, <2>2
<1> QED
  BY <1>2, <1>3, <1>4, <1>5

(* BlocksDecode follows. *)
LEMMA DecodeFromInv ==
    ASSUME BlocksMade, BlocksStored
    PROVE  BlocksDecode
<1> SUFFICES ASSUME NEW height \in DOMAIN blocks
             PROVE  LET block == BlockFromBytes(blocks[height])
                        hash == HashBytes(HeaderBytes(block.header))
                        written == made[height + 1]
                    IN  /\ block = [written EXCEPT
                                      !.header.timestamp.fraction = 0,
                                      !.header.chainID.length = IF @ > ShortStringMax THEN ShortStringMax ELSE @]
                        /\ GetBlockByHash(hash) = {block}
                        /\ \A next \in GetBlock(height + 1) : next.header.parentHash = hash
  BY DEF BlocksDecode
<1>1. Len(made) \in Nat /\ height \in 0 .. Len(made) - 1
  BY MadeIs DEF BlocksStored
<1>2. PICK k \in 1 .. Len(made) : height = k - 1 /\ height + 1 = k
  BY <1>1
<1>3. PICK b : b = made[k]
  OBVIOUS
<1>4. b = [header |-> b.header, body |-> b.body] /\ IsHeader(b.header)
  BY <1>3 DEF BlocksMade, IsBlock
<1>5. PICK block : block = BlockFromBytes(blocks[height])
  OBVIOUS
<1>6. block = Stored(b)
  <2>1. GetBlock(k - 1) = {Stored(made[k])}
    BY StoredIs
  <2> QED
    BY <1>2, <1>3, <1>5, <2>1 DEF GetBlock
<1>7. HashBytes(HeaderBytes(block.header)) = HashOf(b)
  <2>1. block.header = Kept(b.header)
    BY <1>6 DEF Stored
  <2> QED
    BY <1>4, <2>1, KeptBytes DEF HashOf
<1>8. block = [b EXCEPT !.header.timestamp.fraction = 0,
                        !.header.chainID.length = IF @ > ShortStringMax THEN ShortStringMax ELSE @]
  BY <1>4, <1>6, KeptExcept DEF Stored
<1>9. GetBlockByHash(HashOf(b)) = {block}
  BY <1>3, <1>6, StoredIs
<1>10. ASSUME NEW next \in GetBlock(height + 1) PROVE next.header.parentHash = HashOf(b)
  <2>1. k \in 0 .. Len(made) - 1
    BY <1>2, <1>10, StoredIs
  <2>2. k + 1 \in 1 .. Len(made) /\ k \in 1 .. Len(made) - 1
    BY <1>1, <2>1
  <2>3. GetBlock(k + 1 - 1) = {Stored(made[k + 1])}
    BY <2>2, StoredIs
  <2>4. next = Stored(made[k + 1])
    BY <1>1, <1>2, <2>3
  <2>5. made[k + 1].header.parentHash = HashOf(b)
    BY <1>3, <2>2 DEF BlocksMade
  <2> QED
    BY <2>4, <2>5 DEF Stored, Kept
<1> QED
  BY <1>2, <1>3, <1>5, <1>7, <1>8, <1>9, <1>10

-----------------------------------------------------------------------------
(***************************************************************************)
(* What the steps make.                                                    *)
(***************************************************************************)
(* A block with one field of its header set. *)
With(b, f, v) == [header |-> [b.header EXCEPT ![f] = v], body |-> b.body]

HeaderFields == {"version", "chainID", "height", "celestiaBlockHeight", "timestamp", "parentHash",
                 "dirsRoot", "filesRoot", "chunksRoot", "stateRoot"}

IsShaped(b) ==
    /\ b = [header |-> b.header, body |-> b.body]
    /\ b.header = [version |-> b.header.version, chainID |-> b.header.chainID,
                   height |-> b.header.height, celestiaBlockHeight |-> b.header.celestiaBlockHeight,
                   timestamp |-> b.header.timestamp, parentHash |-> b.header.parentHash,
                   dirsRoot |-> b.header.dirsRoot, filesRoot |-> b.header.filesRoot,
                   chunksRoot |-> b.header.chunksRoot, stateRoot |-> b.header.stateRoot]

LEMMA WithIs ==
    ASSUME NEW b, IsShaped(b), NEW f \in HeaderFields, NEW v
    PROVE  /\ IsShaped(With(b, f, v)) /\ With(b, f, v).body = b.body
           /\ With(b, f, v).header[f] = v
           /\ \A g \in HeaderFields \ {f} : With(b, f, v).header[g] = b.header[g]
<1>1. PICK h : h = [b.header EXCEPT ![f] = v]
  OBVIOUS
<1>2. DOMAIN b.header = HeaderFields
  BY DEF IsShaped, HeaderFields
<1>3. DOMAIN h = HeaderFields /\ h = [g \in HeaderFields |-> h[g]]
  BY <1>1, <1>2
<1>4. h[f] = v /\ \A g \in HeaderFields \ {f} : h[g] = b.header[g]
  BY <1>1, <1>2
<1>5. h = [version |-> h.version, chainID |-> h.chainID, height |-> h.height,
           celestiaBlockHeight |-> h.celestiaBlockHeight, timestamp |-> h.timestamp,
           parentHash |-> h.parentHash, dirsRoot |-> h.dirsRoot, filesRoot |-> h.filesRoot,
           chunksRoot |-> h.chunksRoot, stateRoot |-> h.stateRoot]
  BY <1>3 DEF HeaderFields
<1>6. With(b, f, v) = [header |-> h, body |-> b.body]
  BY <1>1 DEF With
<1> QED
  BY <1>4, <1>5, <1>6 DEF IsShaped

LEMMA SetIs ==
    ASSUME NEW b, IsShaped(b), NEW v
    PROVE  /\ [b EXCEPT !.header.chainID = v] = With(b, "chainID", v)
           /\ [b EXCEPT !.header.height = v] = With(b, "height", v)
           /\ [b EXCEPT !.header.celestiaBlockHeight = v] = With(b, "celestiaBlockHeight", v)
           /\ [b EXCEPT !.header.timestamp = v] = With(b, "timestamp", v)
           /\ [b EXCEPT !.header.parentHash = v] = With(b, "parentHash", v)
           /\ [b EXCEPT !.header.stateRoot = v] = With(b, "stateRoot", v)
<1>1. ASSUME NEW y PROVE [b EXCEPT !.header = y] = [header |-> y, body |-> b.body]
  BY DEF IsShaped
<1>2. [b EXCEPT !.header.chainID = v] = With(b, "chainID", v)
  BY <1>1 DEF With
<1>3. [b EXCEPT !.header.height = v] = With(b, "height", v)
  BY <1>1 DEF With
<1>4. [b EXCEPT !.header.celestiaBlockHeight = v] = With(b, "celestiaBlockHeight", v)
  BY <1>1 DEF With
<1>5. [b EXCEPT !.header.timestamp = v] = With(b, "timestamp", v)
  BY <1>1 DEF With
<1>6. [b EXCEPT !.header.parentHash = v] = With(b, "parentHash", v)
  BY <1>1 DEF With
<1>7. [b EXCEPT !.header.stateRoot = v] = With(b, "stateRoot", v)
  BY <1>1 DEF With
<1> QED
  BY <1>2, <1>3, <1>4, <1>5, <1>6, <1>7

LEMMA NewBlockIs ==
    ASSUME NEW body, NEW b, b = NewBlockFromHeader(NewHeader, body)
    PROVE  /\ IsShaped(b) /\ b.body = body
           /\ b.header.height = 0
           /\ b.header.dirsRoot = BlobIdentifiersMerkleRoot(body.dirs)
           /\ b.header.filesRoot = BlobIdentifiersMerkleRoot(body.files)
           /\ b.header.chunksRoot = BlobIdentifiersMerkleRoot(body.chunks)
<1>1. PICK r, s, t : /\ r = BlobIdentifiersMerkleRoot(body.dirs)
                     /\ s = BlobIdentifiersMerkleRoot(body.files)
                     /\ t = BlobIdentifiersMerkleRoot(body.chunks)
  OBVIOUS
<1>2. PICK g : g = [NewHeader EXCEPT !.version = 1, !.dirsRoot = r, !.filesRoot = s, !.chunksRoot = t]
  OBVIOUS
<1>3. b = [header |-> g, body |-> body]
  BY <1>1, <1>2 DEF NewBlockFromHeader
<1>4. /\ g = [version |-> g.version, chainID |-> g.chainID, height |-> g.height,
              celestiaBlockHeight |-> g.celestiaBlockHeight, timestamp |-> g.timestamp,
              parentHash |-> g.parentHash, dirsRoot |-> g.dirsRoot, filesRoot |-> g.filesRoot,
              chunksRoot |-> g.chunksRoot, stateRoot |-> g.stateRoot]
      /\ g.height = 0 /\ g.dirsRoot = r /\ g.filesRoot = s /\ g.chunksRoot = t
  BY <1>2 DEF NewHeader
<1> QED
  BY <1>1, <1>3, <1>4 DEF IsShaped

LEMMA ShapedBlock ==
    ASSUME NEW b, IsShaped(b), NEW height, b.header.height = height,
           b.header.chainID \in ChainIDs, NEW t, b.header.timestamp = CelestiaTime(t),
           b.body \in IdBodies,
           b.header.dirsRoot = BlobIdentifiersMerkleRoot(b.body.dirs),
           b.header.filesRoot = BlobIdentifiersMerkleRoot(b.body.files),
           b.header.chunksRoot = BlobIdentifiersMerkleRoot(b.body.chunks)
    PROVE  IsBlock(b, height)
<1>1. PICK id, time : id = b.header.chainID /\ time = b.header.timestamp
  OBVIOUS
<1>2. id = [text |-> id.text, length |-> id.length] /\ id.length \in Nat \ {0}
  BY <1>1, ChainIDAssumption
<1>3. time = [seconds |-> time.seconds, fraction |-> time.fraction]
  BY <1>1 DEF CelestiaTime
<1>4. IsHeader(b.header)
  BY <1>1, <1>2, <1>3 DEF IsHeader, IsShaped
<1> QED
  BY <1>4 DEF IsBlock, IsShaped

LEMMA GenesisIs ==
    ASSUME chainID \in ChainIDs
    PROVE  IsBlock(GenesisBlock, 0) /\ GenesisBlock.body = NoBody
<1>1. PICK b : b = NewBlockFromHeader(NewHeader, NoBody)
  OBVIOUS
<1>2. /\ IsShaped(b) /\ b.body = NoBody /\ b.header.height = 0
      /\ b.header.dirsRoot = BlobIdentifiersMerkleRoot(NoBody.dirs)
      /\ b.header.filesRoot = BlobIdentifiersMerkleRoot(NoBody.files)
      /\ b.header.chunksRoot = BlobIdentifiersMerkleRoot(NoBody.chunks)
  BY <1>1, NewBlockIs
<1>3. PICK c : c = With(b, "chainID", chainID)
  OBVIOUS
<1>4. PICK d : d = With(c, "celestiaBlockHeight", Offset)
  OBVIOUS
<1>5. PICK e : e = With(d, "timestamp", CelestiaTime(Offset))
  OBVIOUS
<1>6. IsShaped(c) /\ c.body = b.body /\ c.header["chainID"] = chainID
      /\ \A g \in HeaderFields \ {"chainID"} : c.header[g] = b.header[g]
  BY <1>2, <1>3, WithIs DEF HeaderFields
<1>7. IsShaped(d) /\ d.body = c.body
      /\ \A g \in HeaderFields \ {"celestiaBlockHeight"} : d.header[g] = c.header[g]
  BY <1>4, <1>6, WithIs DEF HeaderFields
<1>8. IsShaped(e) /\ e.body = d.body /\ e.header["timestamp"] = CelestiaTime(Offset)
      /\ \A g \in HeaderFields \ {"timestamp"} : e.header[g] = d.header[g]
  BY <1>5, <1>7, WithIs DEF HeaderFields
<1>9. GenesisBlock = e
  <2>1. [b EXCEPT !.header.chainID = chainID] = c
    BY <1>2, <1>3, SetIs
  <2>2. [c EXCEPT !.header.celestiaBlockHeight = Offset] = d
    BY <1>4, <1>6, SetIs
  <2>3. [d EXCEPT !.header.timestamp = CelestiaTime(Offset)] = e
    BY <1>5, <1>7, SetIs
  <2> QED
    BY <1>1, <2>1, <2>2, <2>3 DEF GenesisBlock
<1>10. e.header.height = 0 /\ e.header.chainID = chainID
       /\ e.header.timestamp = CelestiaTime(Offset)
       /\ e.header.dirsRoot = b.header.dirsRoot /\ e.header.filesRoot = b.header.filesRoot
       /\ e.header.chunksRoot = b.header.chunksRoot
  BY <1>2, <1>6, <1>7, <1>8 DEF HeaderFields
<1>11. e.body = NoBody /\ NoBody \in IdBodies
  BY <1>2, <1>6, <1>7, <1>8 DEF NoBody, IdBodies
<1>12. IsBlock(e, 0)
  BY <1>2, <1>8, <1>10, <1>11, ShapedBlock
<1> QED
  BY <1>9, <1>11, <1>12

CommitmentBodies ==
    [dirs : Seq(Commitments), files : Seq(Commitments), chunks : Seq(Commitments)]

(* The identifiers that ProduceBlock makes of commitments. *)
IdsAt(height, body) ==
    [l \in DOMAIN body |-> [i \in DOMAIN body[l] |-> [height |-> height + Offset, commitment |-> body[l][i]]]]

LEMMA IdsIs ==
    ASSUME NEW height \in Nat, NEW body \in CommitmentBodies
    PROVE  IdsAt(height, body) \in IdBodies
<1>1. ASSUME NEW s \in Seq(Commitments)
      PROVE  [i \in DOMAIN s |-> [height |-> height + Offset, commitment |-> s[i]]] \in Seq(Identifiers)
  <2>1. PICK n \in Nat : n = Len(s) /\ DOMAIN s = 1 .. n
    OBVIOUS
  <2>2. \A i \in 1 .. n : [height |-> height + Offset, commitment |-> s[i]] \in Identifiers
    BY <2>1, HeightAssumption DEF Identifiers
  <2> QED
    BY <2>1, <2>2
<1>2. /\ DOMAIN body = {"dirs", "files", "chunks"}
      /\ body.dirs \in Seq(Commitments) /\ body.files \in Seq(Commitments)
      /\ body.chunks \in Seq(Commitments)
  BY DEF CommitmentBodies
<1>3. PICK d, f, c :
        /\ d = [i \in DOMAIN body.dirs |-> [height |-> height + Offset, commitment |-> body.dirs[i]]]
        /\ f = [i \in DOMAIN body.files |-> [height |-> height + Offset, commitment |-> body.files[i]]]
        /\ c = [i \in DOMAIN body.chunks |-> [height |-> height + Offset, commitment |-> body.chunks[i]]]
  OBVIOUS
<1>4. d \in Seq(Identifiers) /\ f \in Seq(Identifiers) /\ c \in Seq(Identifiers)
  BY <1>1, <1>2, <1>3
<1>5. IdsAt(height, body) = [dirs |-> d, files |-> f, chunks |-> c]
  <2>1. PICK e : e = IdsAt(height, body)
    OBVIOUS
  <2>2. e = [l \in {"dirs", "files", "chunks"} |-> e[l]]
    BY <1>2, <2>1 DEF IdsAt
  <2>3. e["dirs"] = d /\ e["files"] = f /\ e["chunks"] = c
    BY <1>2, <1>3, <2>1 DEF IdsAt
  <2>4. e = [dirs |-> d, files |-> f, chunks |-> c]
    BY <2>2, <2>3
  <2> QED
    BY <2>1, <2>4
<1> QED
  BY <1>4, <1>5 DEF IdBodies

LEMMA ProducedIs ==
    ASSUME chainID \in ChainIDs, NEW height \in Nat, NEW body \in CommitmentBodies,
           NEW p, p = ProduceBlock(height, body)
    PROVE  IsBlock(p, height) /\ IsShaped(p) /\ p.body = IdsAt(height, body)
           /\ p.header.chainID = chainID /\ p.header.timestamp = CelestiaTime(height + Offset)
<1>1. PICK ids : ids = IdsAt(height, body)
  OBVIOUS
<1>2. ids \in IdBodies
  BY <1>1, IdsIs
<1>3. PICK a : a = NewBlockFromHeader(NewHeader, ids)
  OBVIOUS
<1>4. /\ IsShaped(a) /\ a.body = ids
      /\ a.header.dirsRoot = BlobIdentifiersMerkleRoot(ids.dirs)
      /\ a.header.filesRoot = BlobIdentifiersMerkleRoot(ids.files)
      /\ a.header.chunksRoot = BlobIdentifiersMerkleRoot(ids.chunks)
  BY <1>3, NewBlockIs
<1>5. PICK b : b = With(a, "chainID", chainID)
  OBVIOUS
<1>6. PICK c : c = With(b, "height", height)
  OBVIOUS
<1>7. PICK d : d = With(c, "celestiaBlockHeight", height + Offset)
  OBVIOUS
<1>8. PICK e : e = With(d, "timestamp", CelestiaTime(height + Offset))
  OBVIOUS
<1>9. IsShaped(b) /\ b.body = a.body /\ b.header["chainID"] = chainID
      /\ \A g \in HeaderFields \ {"chainID"} : b.header[g] = a.header[g]
  BY <1>4, <1>5, WithIs DEF HeaderFields
<1>10. IsShaped(c) /\ c.body = b.body /\ c.header["height"] = height
       /\ \A g \in HeaderFields \ {"height"} : c.header[g] = b.header[g]
  BY <1>6, <1>9, WithIs DEF HeaderFields
<1>11. IsShaped(d) /\ d.body = c.body
       /\ \A g \in HeaderFields \ {"celestiaBlockHeight"} : d.header[g] = c.header[g]
  BY <1>7, <1>10, WithIs DEF HeaderFields
<1>12. IsShaped(e) /\ e.body = d.body /\ e.header["timestamp"] = CelestiaTime(height + Offset)
       /\ \A g \in HeaderFields \ {"timestamp"} : e.header[g] = d.header[g]
  BY <1>8, <1>11, WithIs DEF HeaderFields
<1>13. p = e
  <2>1. [a EXCEPT !.header.chainID = chainID] = b
    BY <1>4, <1>5, SetIs
  <2>2. [b EXCEPT !.header.height = height] = c
    BY <1>6, <1>9, SetIs
  <2>3. [c EXCEPT !.header.celestiaBlockHeight = height + Offset] = d
    BY <1>7, <1>10, SetIs
  <2>4. [d EXCEPT !.header.timestamp = CelestiaTime(height + Offset)] = e
    BY <1>8, <1>11, SetIs
  <2>5. p = [NewBlockFromHeader(NewHeader, IdsAt(height, body)) EXCEPT
               !.header.chainID = chainID, !.header.height = height,
               !.header.celestiaBlockHeight = height + Offset,
               !.header.timestamp = CelestiaTime(height + Offset)]
    BY DEF ProduceBlock, IdsAt
  <2> QED
    BY <1>1, <1>3, <2>1, <2>2, <2>3, <2>4, <2>5
<1>14. e.header.height = height /\ e.header.chainID = chainID
       /\ e.header.timestamp = CelestiaTime(height + Offset)
       /\ e.header.dirsRoot = a.header.dirsRoot /\ e.header.filesRoot = a.header.filesRoot
       /\ e.header.chunksRoot = a.header.chunksRoot
  BY <1>9, <1>10, <1>11, <1>12 DEF HeaderFields
<1>15. e.body = ids
  BY <1>4, <1>9, <1>10, <1>11, <1>12
<1>16. IsBlock(e, height)
  BY <1>2, <1>4, <1>12, <1>14, <1>15, ShapedBlock
<1> QED
  BY <1>1, <1>12, <1>13, <1>14, <1>15, <1>16

(* With the parent hash and the state root that ApplyBlock sets. *)
Applied(p, hash, root) == [p EXCEPT !.header.parentHash = hash, !.header.stateRoot = root]

LEMMA AppliedIs ==
    ASSUME chainID \in ChainIDs, NEW height \in Nat, NEW body \in CommitmentBodies,
           NEW p, p = ProduceBlock(height, body), NEW hash, NEW root, NEW b,
           b = Applied(p, hash, root)
    PROVE  IsBlock(b, height) /\ b.header.parentHash = hash /\ b.body = p.body
<1>1. /\ IsBlock(p, height) /\ IsShaped(p)
      /\ p.header.chainID = chainID /\ p.header.timestamp = CelestiaTime(height + Offset)
  BY ProducedIs
<1>2. PICK c : c = With(p, "parentHash", hash)
  OBVIOUS
<1>3. PICK d : d = With(c, "stateRoot", root)
  OBVIOUS
<1>4. IsShaped(c) /\ c.body = p.body /\ c.header["parentHash"] = hash
      /\ \A g \in HeaderFields \ {"parentHash"} : c.header[g] = p.header[g]
  BY <1>1, <1>2, WithIs DEF HeaderFields
<1>5. IsShaped(d) /\ d.body = c.body
      /\ \A g \in HeaderFields \ {"stateRoot"} : d.header[g] = c.header[g]
  BY <1>3, <1>4, WithIs DEF HeaderFields
<1>6. b = d
  <2>1. [p EXCEPT !.header.parentHash = hash] = c
    BY <1>1, <1>2, SetIs
  <2>2. [c EXCEPT !.header.stateRoot = root] = d
    BY <1>3, <1>4, SetIs
  <2> QED
    BY <2>1, <2>2 DEF Applied
<1>7. d.header.height = p.header.height /\ d.header.chainID = p.header.chainID
      /\ d.header.timestamp = p.header.timestamp /\ d.header.parentHash = hash
      /\ d.header.dirsRoot = p.header.dirsRoot /\ d.header.filesRoot = p.header.filesRoot
      /\ d.header.chunksRoot = p.header.chunksRoot
  BY <1>4, <1>5 DEF HeaderFields
<1>8. d.body = p.body
  BY <1>4, <1>5
<1>9. IsBlock(d, height)
  BY <1>1, <1>5, <1>7, <1>8, ShapedBlock DEF IsBlock
<1> QED
  BY <1>6, <1>7, <1>8, <1>9

-----------------------------------------------------------------------------
(***************************************************************************)
(* NodeInv is inductive.  No step takes back a block: a process that       *)
(* outlives the node's (the REST API's cache, an answer) stays right.      *)
(***************************************************************************)
NothingTakenBack ==
    /\ Len(made') \in Nat /\ Len(made) <= Len(made') /\ finalizedHeight <= finalizedHeight'
    /\ \A k \in 1 .. Len(made) : made'[k] = made[k]

LEMMA NodeInitially == NodeInit => NodeInv
<1> SUFFICES ASSUME NodeInit PROVE NodeInv
  OBVIOUS
<1>1. made = <<>> /\ made \in Seq({}) /\ Len(made) = 0
  BY DEF NodeInit
<1>2. BlocksMade
  BY <1>1, BodyAssumption DEF NodeInit, BlocksMade
<1>3. BlocksStored /\ KeysStored /\ CacheKnows(hashCache) /\ PrevKnown
  BY <1>1 DEF NodeInit, BlocksStored, KeysStored, CacheKnows, PrevKnown
<1> QED
  BY <1>2, <1>3 DEF NodeInv

(* The hash of a header, cached or not. *)
LEMMA HashIs ==
    ASSUME BlocksMade, NEW cache, CacheKnows(cache), NEW b, NEW k \in 1 .. Len(made) + 1,
           b.header.height = k - 1, k \in 1 .. Len(made) => HashOf(b) = HashOf(made[k])
    PROVE  /\ Hash(b.header, cache) = HashOf(b)
           /\ DOMAIN Cached(b.header, cache) = DOMAIN cache \cup {k - 1}
           /\ \A h \in DOMAIN Cached(b.header, cache) :
                Cached(b.header, cache)[h] = IF h = k - 1 THEN HashOf(b) ELSE HashOf(made[h + 1])
<1>1. Len(made) \in Nat
  BY MadeIs
<1>2. Hash(b.header, cache) = HashOf(b)
  <2>1. CASE k - 1 \in DOMAIN cache
    <3>1. k \in 1 .. Len(made) /\ cache[k - 1] = HashOf(made[k])
      BY <1>1, <2>1 DEF CacheKnows
    <3> QED
      BY <2>1, <3>1 DEF Hash
  <2>2. CASE k - 1 \notin DOMAIN cache
    BY <2>2 DEF Hash, HashOf
  <2> QED
    BY <2>1, <2>2
<1>3. Cached(b.header, cache) = Put(cache, k - 1, HashOf(b))
  BY <1>2 DEF Cached
<1>4. PICK j, v : j = k - 1 /\ v = HashOf(b)
  OBVIOUS
<1>5. PICK c : c = Put(cache, j, v)
  OBVIOUS
<1>6. DOMAIN c = DOMAIN cache \cup {j} /\ c[j] = v /\ \A x \in DOMAIN cache : x # j => c[x] = cache[x]
  BY <1>5 DEF Put
<1>7. \A h \in DOMAIN c : c[h] = IF h = j THEN v ELSE HashOf(made[h + 1])
  BY <1>6 DEF CacheKnows
<1> QED
  BY <1>2, <1>3, <1>4, <1>5, <1>6, <1>7

LEMMA GenesisStep ==
    ASSUME NodeInv, CreateGenesisBlock
    PROVE  NodeInv' /\ NothingTakenBack
<1>1. BlocksMade /\ BlocksStored /\ KeysStored /\ CacheKnows(hashCache)
  BY DEF NodeInv
<1>2. PICK b : b = GenesisBlock
  OBVIOUS
<1>3. /\ finalizedHeight = 0 /\ finalizedHeight' = 0 /\ chainID' = chainID
      /\ fileManifests' = fileManifests /\ dirManifests' = dirManifests
      /\ hashCache' = Cached(b.header, hashCache)
      /\ PutBlock(b)
  BY <1>2 DEF CreateGenesisBlock, GenesisBlock
<1>4. IsBlock(b, 0) /\ b.body = NoBody /\ b.header.height = 0
  BY <1>1, <1>2, GenesisIs DEF BlocksMade, IsBlock
<1>5. Len(made) \in {0, 1} /\ (Len(made) = 1 => made[1] = b)
  BY <1>1, <1>2, <1>3, MadeIs DEF BlocksMade
<1>6. made' = <<b>>
  <2>1. PICK S : made \in Seq(S)
    BY <1>1 DEF BlocksMade
  <2>2. SubSeq(made, 1, 0) = <<>>
    BY <2>1
  <2>3. made' = <<>> \o <<b>>
    BY <1>3, <1>4, <2>2 DEF PutBlock
  <2>4. <<>> \o <<b>> = <<b>>
    OBVIOUS
  <2> QED
    BY <2>3, <2>4
<1>7. Len(made') = 1 /\ made'[1] = b /\ made' # <<>> /\ made' \in Seq({b})
  BY <1>6
<1>8. NothingTakenBack
  <2>1. ASSUME NEW k \in 1 .. Len(made) PROVE k = 1 /\ Len(made) = 1
    <3>1. CASE Len(made) = 0
      BY <3>1
    <3>2. CASE Len(made) = 1
      BY <3>2
    <3> QED
      BY <1>5, <3>1, <3>2
  <2>2. Len(made) <= 1
    BY <1>5
  <2> QED
    BY <1>3, <1>5, <1>7, <2>1, <2>2 DEF NothingTakenBack
<1>9. /\ Hash(b.header, hashCache) = HashOf(b)
      /\ DOMAIN hashCache' = DOMAIN hashCache \cup {0}
      /\ \A h \in DOMAIN hashCache' : hashCache'[h] = IF h = 0 THEN HashOf(b) ELSE HashOf(made[h + 1])
  <2>1. PICK k : k = 1
    OBVIOUS
  <2>2. /\ k \in 1 .. Len(made) + 1 /\ b.header.height = k - 1
        /\ k \in 1 .. Len(made) => HashOf(b) = HashOf(made[k])
    BY <1>4, <1>5, <2>1
  <2>3. /\ Hash(b.header, hashCache) = HashOf(b)
        /\ DOMAIN Cached(b.header, hashCache) = DOMAIN hashCache \cup {k - 1}
        /\ \A h \in DOMAIN Cached(b.header, hashCache) :
             Cached(b.header, hashCache)[h] = IF h = k - 1 THEN HashOf(b) ELSE HashOf(made[h + 1])
    BY <1>1, <2>2, HashIs
  <2>4. k - 1 = 0
    BY <2>1
  <2> QED
    BY <1>3, <2>3, <2>4
<1>10. DOMAIN hashCache \subseteq {0}
  BY <1>1, <1>5 DEF CacheKnows
<1>11. CacheKnows(hashCache)'
  BY <1>7, <1>9, <1>10 DEF CacheKnows
<1>12. BlocksMade'
  <2>1. chainID' \in ChainIDs /\ finalizedHeight' = 0 /\ GenesisBlock' = GenesisBlock
    BY <1>1, <1>3 DEF BlocksMade, GenesisBlock
  <2>2. finalizedHeight' <= Len(Bodies)
    BY <1>1, <1>3 DEF BlocksMade
  <2> QED
    BY <1>2, <1>4, <1>7, <2>1, <2>2 DEF BlocksMade
<1>13. BlocksStored'
  <2>1. blocks' = Put(blocks, 0, BlockBytes(b))
    BY <1>3, <1>4 DEF PutBlock
  <2>2. blockHashes' = Put(blockHashes, HashOf(b), BytesFromUint64Key(0))
    <3>1. Hash(b.header, hashCache') = HashOf(b)
      BY <1>4, <1>9 DEF Hash
    <3> QED
      BY <1>3, <1>4, <3>1 DEF PutBlock
  <2>3. DOMAIN blocks \subseteq {0} /\ DOMAIN blockHashes \subseteq {HashOf(b)}
    BY <1>1, <1>5 DEF BlocksStored
  <2>4. DOMAIN blocks' = {0} /\ blocks'[0] = BlockBytes(b)
    <3>1. DOMAIN blocks' = DOMAIN blocks \cup {0} /\ blocks'[0] = BlockBytes(b)
      BY <2>1 DEF Put
    <3> QED
      BY <2>3, <3>1
  <2>5. DOMAIN blockHashes' = {HashOf(b)} /\ blockHashes'[HashOf(b)] = BytesFromUint64Key(0)
    <3>1. /\ DOMAIN blockHashes' = DOMAIN blockHashes \cup {HashOf(b)}
          /\ blockHashes'[HashOf(b)] = BytesFromUint64Key(0)
      BY <2>2 DEF Put
    <3> QED
      BY <2>3, <3>1
  <2>6. DOMAIN blocks' = 0 .. Len(made') - 1
        /\ DOMAIN blockHashes' = {HashOf(made'[k]) : k \in 1 .. Len(made')}
    BY <1>7, <2>4, <2>5
  <2> QED
    BY <1>7, <2>4, <2>5, <2>6 DEF BlocksStored
<1>14. KeysStored'
  <2>1. Keys(b.body.files) = {} /\ Keys(b.body.dirs) = {}
    BY <1>4 DEF NoBody, Keys
  <2> QED
    BY <1>7, <2>1 DEF KeysStored
<1>15. PrevKnown'
  BY <1>3, <1>7 DEF PutBlock, PrevKnown
<1> QED
  BY <1>8, <1>11, <1>12, <1>13, <1>14, <1>15 DEF NodeInv

(* A history and one block more. *)
LEMMA WholeIs ==
    ASSUME NEW S, NEW s \in Seq(S), NEW n \in Nat, n = Len(s)
    PROVE  SubSeq(s, 1, n) = s
<1>1. PICK t : t = SubSeq(s, 1, n)
  OBVIOUS
<1>2. t \in Seq(S)
  BY <1>1
<1>3. Len(t) = n
  BY <1>1
<1>4. \A i \in 1 .. n : t[i] = s[i]
  BY <1>1
<1> QED
  BY <1>1, <1>2, <1>3, <1>4

LEMMA LongerIs ==
    ASSUME NEW S, NEW s \in Seq(S), NEW n \in Nat, n = Len(s), NEW e, NEW t, t = s \o <<e>>
    PROVE  /\ t \in Seq(S \cup {e}) /\ Len(t) = n + 1
           /\ t[n + 1] = e /\ \A i \in 1 .. n : t[i] = s[i]
<1>1. PICK T : T = S \cup {e}
  OBVIOUS
<1>2. s \in Seq(T)
  BY <1>1
<1>3. PICK u : u = <<e>>
  OBVIOUS
<1>4. u \in Seq(T) /\ Len(u) = 1 /\ u[1] = e
  BY <1>1, <1>3
<1>5. t \in Seq(T)
  BY <1>2, <1>3, <1>4
<1>6. Len(t) = n + 1
  BY <1>2, <1>3, <1>4
<1>7. t[n + 1] = e /\ \A i \in 1 .. n : t[i] = s[i]
  BY <1>2, <1>3, <1>4
<1> QED
  BY <1>1, <1>5, <1>6, <1>7

LEMMA HeightIs ==
    ASSUME NodeInv, finalizedHeight > 0 \/ prevBlock # {}
    PROVE  Len(made) \in Nat /\ Len(made) = finalizedHeight + 1 /\ Len(made) \in 1 .. Len(made)
<1>1. BlocksMade /\ PrevKnown
  BY DEF NodeInv
<1>2. Len(made) \in Nat /\ (made = <<>> <=> Len(made) = 0) /\ finalizedHeight \in Nat
  BY <1>1, MadeIs DEF BlocksMade
<1>3. CASE finalizedHeight > 0
  BY <1>1, <1>2, <1>3 DEF BlocksMade
<1>4. CASE finalizedHeight = 0
  <2>1. prevBlock # {} /\ made # <<>>
    BY <1>1, <1>4 DEF PrevKnown
  <2> QED
    BY <1>1, <1>2, <1>4, <2>1 DEF BlocksMade
<1> QED
  BY <1>2, <1>3, <1>4

(* In memory or read back, the previous block is the last one made. *)
LEMMA PrevIs ==
    ASSUME NodeInv, finalizedHeight > 0 \/ prevBlock # {}, NEW prev \in PrevBlock(finalizedHeight + 1)
    PROVE  HashOf(prev) = HashOf(made[Len(made)]) /\ prev.header.height = Len(made) - 1
<1>1. BlocksMade /\ BlocksStored /\ PrevKnown
  BY DEF NodeInv
<1>2. PICK N \in Nat : N = Len(made) /\ N = finalizedHeight + 1 /\ N \in 1 .. Len(made)
  BY HeightIs
<1>3. PICK b : b = made[N]
  OBVIOUS
<1>4. IsHeader(b.header) /\ b.header.height = N - 1
  BY <1>1, <1>2, <1>3 DEF BlocksMade, IsBlock
<1>5. CASE prevBlock # {}
  BY <1>1, <1>2, <1>3, <1>4, <1>5 DEF PrevBlock, PrevKnown
<1>6. CASE prevBlock = {}
  <2>1. prev \in GetBlock(N - 1)
    BY <1>2, <1>6 DEF PrevBlock
  <2>2. prev = Stored(b)
    BY <1>1, <1>2, <1>3, <2>1, StoredIs
  <2>3. prev.header = Kept(b.header)
    BY <2>2 DEF Stored
  <2> QED
    BY <1>2, <1>3, <1>4, <2>3, KeptBytes DEF HashOf, Kept
<1> QED
  BY <1>5, <1>6

LEMMA AddStep ==
    ASSUME NodeInv, AddBlock
    PROVE  NodeInv' /\ NothingTakenBack
<1>1. BlocksMade /\ BlocksStored /\ KeysStored /\ CacheKnows(hashCache)
  BY DEF NodeInv
<1>2. finalizedHeight > 0 \/ prevBlock # {}
  BY DEF AddBlock
<1>3. PICK N \in Nat : N = Len(made) /\ N = finalizedHeight + 1 /\ N \in 1 .. Len(made)
  BY <1>2, HeightIs
<1>4. finalizedHeight' = N /\ chainID' = chainID /\ chainID \in ChainIDs /\ finalizedHeight \in Nat
  BY <1>1, <1>3 DEF AddBlock, BlocksMade
<1>5. PICK body \in Bodies[N] : ApplyBlock(N, body)
  BY <1>3 DEF AddBlock
<1>6. body \in CommitmentBodies
  <2>1. N \in 1 .. Len(Bodies)
    <3>1. Len(Bodies) \in Nat /\ finalizedHeight < Len(Bodies)
      BY BodyAssumption DEF AddBlock, MaxHeight
    <3> QED
      BY <1>3, <1>4, <3>1
  <2> QED
    BY <1>5, <2>1, BodyAssumption DEF CommitmentBodies
<1>7. PICK prev \in PrevBlock(N) : \E range \in GetStateMMR(N - 1) :
         LET produced == ProduceBlock(N, body)
             new == NewLeaves(produced.header)
             extended == AddLeaves(range, new)
             block == [produced EXCEPT !.header.parentHash = Hash(prev.header, hashCache),
                                       !.header.stateRoot = Root(extended)]
         IN  /\ hashCache' = Cached(block.header, Cached(prev.header, hashCache))
             /\ PutBlock(block)
             /\ stateMMRs' = IF new = <<>> THEN stateMMRs
                             ELSE Put(stateMMRs, N, Snapshot(extended))
             /\ leaves' = leaves \o new
             /\ fileManifests' = fileManifests \cup Keys(block.body.files)
             /\ dirManifests' = dirManifests \cup Keys(block.body.dirs)
  BY <1>5 DEF ApplyBlock
<1>8. PICK root : LET b == [ProduceBlock(N, body) EXCEPT
                              !.header.parentHash = Hash(prev.header, hashCache),
                              !.header.stateRoot = root]
                  IN  /\ hashCache' = Cached(b.header, Cached(prev.header, hashCache))
                      /\ PutBlock(b)
                      /\ fileManifests' = fileManifests \cup Keys(b.body.files)
                      /\ dirManifests' = dirManifests \cup Keys(b.body.dirs)
  BY <1>7
<1>9. PICK b : b = [ProduceBlock(N, body) EXCEPT !.header.parentHash = Hash(prev.header, hashCache),
                                                 !.header.stateRoot = root]
  OBVIOUS
<1>10. /\ hashCache' = Cached(b.header, Cached(prev.header, hashCache))
       /\ PutBlock(b)
       /\ fileManifests' = fileManifests \cup Keys(b.body.files)
       /\ dirManifests' = dirManifests \cup Keys(b.body.dirs)
  BY <1>8, <1>9
<1>11. IsBlock(b, N) /\ b.header.parentHash = Hash(prev.header, hashCache) /\ b.header.height = N
  <2>1. IsBlock(b, N) /\ b.header.parentHash = Hash(prev.header, hashCache)
    <3>1. PICK p : p = ProduceBlock(N, body)
      OBVIOUS
    <3>2. PICK hash : hash = Hash(prev.header, hashCache)
      OBVIOUS
    <3>3. b = Applied(p, hash, root)
      BY <1>9, <3>1, <3>2 DEF Applied
    <3>4. IsBlock(b, N) /\ b.header.parentHash = hash /\ b.body = p.body
      BY <1>4, <1>6, <3>1, <3>3, AppliedIs
    <3> QED
      BY <3>2, <3>4
  <2> QED
    BY <2>1 DEF IsBlock
<1>12. HashOf(prev) = HashOf(made[N]) /\ prev.header.height = N - 1
  BY <1>2, <1>3, <1>7, PrevIs
<1>13. PICK cache : cache = Cached(prev.header, hashCache)
  OBVIOUS
<1>14. /\ Hash(prev.header, hashCache) = HashOf(prev)
       /\ DOMAIN Cached(prev.header, hashCache) = DOMAIN hashCache \cup {N - 1}
       /\ \A h \in DOMAIN Cached(prev.header, hashCache) :
            Cached(prev.header, hashCache)[h] = IF h = N - 1 THEN HashOf(prev) ELSE HashOf(made[h + 1])
  <2>1. N \in 1 .. Len(made) + 1
    BY <1>3
  <2> QED
    BY <1>1, <1>12, <2>1, HashIs
<1>15. CacheKnows(cache)
  BY <1>1, <1>3, <1>12, <1>13, <1>14 DEF CacheKnows
<1>16. /\ Hash(b.header, cache) = HashOf(b)
       /\ DOMAIN Cached(b.header, cache) = DOMAIN cache \cup {N}
       /\ \A h \in DOMAIN Cached(b.header, cache) :
            Cached(b.header, cache)[h] = IF h = N THEN HashOf(b) ELSE HashOf(made[h + 1])
  <2>1. PICK k : k = N + 1
    OBVIOUS
  <2>2. /\ k \in 1 .. Len(made) + 1 /\ b.header.height = k - 1 /\ k - 1 = N
        /\ k \in 1 .. Len(made) => HashOf(b) = HashOf(made[k])
    BY <1>3, <1>11, <2>1
  <2>3. /\ Hash(b.header, cache) = HashOf(b)
        /\ DOMAIN Cached(b.header, cache) = DOMAIN cache \cup {k - 1}
        /\ \A h \in DOMAIN Cached(b.header, cache) :
             Cached(b.header, cache)[h] = IF h = k - 1 THEN HashOf(b) ELSE HashOf(made[h + 1])
    BY <1>1, <1>15, <2>2, HashIs
  <2> QED
    BY <2>2, <2>3
<1>17. made' = made \o <<b>>
  <2>1. PICK S : made \in Seq(S)
    BY <1>1 DEF BlocksMade
  <2>2. SubSeq(made, 1, N) = made
    BY <1>3, <2>1, WholeIs
  <2> QED
    BY <1>10, <1>11, <2>2 DEF PutBlock
<1>18. /\ Len(made') = N + 1 /\ made'[N + 1] = b /\ \A k \in 1 .. N : made'[k] = made[k]
       /\ \E S : made' \in Seq(S)
  <2>1. PICK S : made \in Seq(S)
    BY <1>1 DEF BlocksMade
  <2>2. /\ made' \in Seq(S \cup {b}) /\ Len(made') = N + 1
        /\ made'[N + 1] = b /\ \A i \in 1 .. N : made'[i] = made[i]
    <3>1. PICK s, t : s = made /\ t = made'
      OBVIOUS
    <3>2. s \in Seq(S) /\ N = Len(s) /\ t = s \o <<b>>
      BY <1>3, <1>17, <2>1, <3>1
    <3>3. /\ t \in Seq(S \cup {b}) /\ Len(t) = N + 1
          /\ t[N + 1] = b /\ \A i \in 1 .. N : t[i] = s[i]
      BY <3>2, LongerIs
    <3> QED
      BY <3>1, <3>3
  <2> QED
    BY <2>2
<1>19. NothingTakenBack
  BY <1>3, <1>4, <1>18 DEF NothingTakenBack
<1>20. BlocksMade'
  <2>1. chainID' \in ChainIDs /\ finalizedHeight' \in Nat /\ finalizedHeight' # 0
        /\ Len(made') = finalizedHeight' + 1
    BY <1>3, <1>4, <1>18
  <2>2. ASSUME NEW k \in 1 .. Len(made') PROVE IsBlock(made'[k], k - 1)
    BY <1>1, <1>3, <1>11, <1>18 DEF BlocksMade
  <2>3. ASSUME NEW k \in 1 .. Len(made') - 1 PROVE made'[k + 1].header.parentHash = HashOf(made'[k])
    <3>1. CASE k = N
      BY <1>3, <1>11, <1>12, <1>14, <1>18, <3>1
    <3>2. CASE k # N
      <4>1. k \in 1 .. N - 1 /\ k + 1 \in 1 .. N
        BY <1>18, <3>2
      <4>2. made[k + 1].header.parentHash = HashOf(made[k])
        BY <1>1, <1>3, <4>1 DEF BlocksMade
      <4>3. made'[k + 1] = made[k + 1] /\ made'[k] = made[k]
        BY <1>18, <4>1
      <4> QED
        BY <4>2, <4>3
    <3> QED
      BY <3>1, <3>2
  <2>4. made'[1] = GenesisBlock'
    <3>1. GenesisBlock' = GenesisBlock
      BY <1>4 DEF GenesisBlock
    <3>2. made # <<>>
      BY <1>1, <1>3, MadeIs
    <3>3. made[1] = GenesisBlock
      BY <1>1, <3>2 DEF BlocksMade
    <3>4. made'[1] = made[1]
      BY <1>3, <1>18
    <3> QED
      BY <3>1, <3>3, <3>4
  <2>5. finalizedHeight' <= Len(Bodies)
    BY <1>3, <1>4, BodyAssumption DEF AddBlock, MaxHeight
  <2> QED
    BY <1>18, <2>1, <2>2, <2>3, <2>4, <2>5 DEF BlocksMade
<1>21. BlocksStored'
  <2>1. blocks' = Put(blocks, N, BlockBytes(b))
    BY <1>10, <1>11 DEF PutBlock
  <2>2. blockHashes' = Put(blockHashes, HashOf(b), BytesFromUint64Key(N))
    <3>1. Hash(b.header, hashCache') = HashOf(b)
      BY <1>10, <1>11, <1>13, <1>16 DEF Hash
    <3> QED
      BY <1>10, <1>11, <3>1 DEF PutBlock
  <2>3. ASSUME NEW k \in 1 .. N PROVE HashOf(made[k]) # HashOf(b)
    <3>1. IsHeader(made[k].header) /\ made[k].header.height = k - 1 /\ IsHeader(b.header)
      BY <1>1, <1>3, <1>11 DEF BlocksMade, IsBlock
    <3>2. SUFFICES ASSUME HashOf(made[k]) = HashOf(b) PROVE FALSE
      OBVIOUS
    <3>3. Kept(made[k].header) = Kept(b.header)
      BY <3>1, <3>2, HashBinds DEF HashOf
    <3>4. made[k].header.height = b.header.height
      BY <3>3 DEF Kept
    <3> QED
      BY <1>3, <1>11, <3>1, <3>4
  <2>4. DOMAIN blocks' = 0 .. N
    <3>1. DOMAIN blocks' = (0 .. N - 1) \cup {N}
      BY <1>1, <1>3, <2>1 DEF BlocksStored, Put
    <3> QED
      BY <3>1
  <2>5. DOMAIN blockHashes' = {HashOf(made'[k]) : k \in 1 .. N + 1}
    <3>1. DOMAIN blockHashes' = DOMAIN blockHashes \cup {HashOf(b)}
      BY <2>2 DEF Put
    <3>2. DOMAIN blockHashes = {HashOf(made[k]) : k \in 1 .. N}
      BY <1>1, <1>3 DEF BlocksStored
    <3>3. 1 .. N + 1 = (1 .. N) \cup {N + 1}
      BY <1>3
    <3> QED
      BY <1>18, <3>1, <3>2, <3>3
  <2>6. ASSUME NEW k \in 1 .. N + 1
        PROVE  /\ blocks'[k - 1] = BlockBytes(made'[k])
               /\ blockHashes'[HashOf(made'[k])] = BytesFromUint64Key(k - 1)
    <3>1. CASE k = N + 1
      <4>1. blocks'[N] = BlockBytes(b) /\ blockHashes'[HashOf(b)] = BytesFromUint64Key(N)
        BY <2>1, <2>2 DEF Put
      <4> QED
        BY <1>18, <3>1, <4>1
    <3>2. CASE k # N + 1
      <4>1. k \in 1 .. N /\ made'[k] = made[k] /\ k - 1 # N
        BY <1>18, <3>2
      <4>2. /\ k - 1 \in DOMAIN blocks /\ blocks[k - 1] = BlockBytes(made[k])
            /\ HashOf(made[k]) \in DOMAIN blockHashes
            /\ blockHashes[HashOf(made[k])] = BytesFromUint64Key(k - 1)
        BY <1>1, <1>3, <4>1 DEF BlocksStored
      <4>3. blocks'[k - 1] = blocks[k - 1]
        BY <2>1, <4>1, <4>2 DEF Put
      <4>4. blockHashes'[HashOf(made[k])] = blockHashes[HashOf(made[k])]
        BY <2>2, <2>3, <4>1, <4>2 DEF Put
      <4> QED
        BY <4>1, <4>2, <4>3, <4>4
    <3> QED
      BY <3>1, <3>2
  <2> QED
    BY <1>18, <2>4, <2>5, <2>6 DEF BlocksStored
<1>22. KeysStored'
  <2>1. ASSUME NEW k \in 1 .. N + 1
        PROVE  /\ Keys(made'[k].body.files) \subseteq fileManifests'
               /\ Keys(made'[k].body.dirs) \subseteq dirManifests'
    <3>1. CASE k = N + 1
      BY <1>10, <1>18, <3>1
    <3>2. CASE k \in 1 .. N
      BY <1>1, <1>3, <1>10, <1>18, <3>2 DEF KeysStored
    <3> QED
      BY <3>1, <3>2
  <2> QED
    BY <1>18, <2>1 DEF KeysStored
<1>23. CacheKnows(hashCache)'
  <2>1. ASSUME NEW h \in DOMAIN hashCache'
        PROVE  h + 1 \in 1 .. Len(made') /\ hashCache'[h] = HashOf(made'[h + 1])
    <3>1. CASE h = N
      BY <1>10, <1>13, <1>16, <1>18, <3>1
    <3>2. CASE h # N
      <4>1. h \in DOMAIN cache /\ hashCache'[h] = HashOf(made[h + 1])
        BY <1>10, <1>13, <1>16, <3>2
      <4>2. h + 1 \in 1 .. N
        BY <1>3, <1>15, <4>1 DEF CacheKnows
      <4> QED
        BY <1>18, <4>1, <4>2
    <3> QED
      BY <3>1, <3>2
  <2> QED
    BY <2>1 DEF CacheKnows
<1>24. PrevKnown'
  <2>1. prevBlock' = {b}
    BY <1>10 DEF PutBlock
  <2>2. made' # <<>> /\ made'[Len(made')] = b
    BY <1>18
  <2> QED
    BY <2>1, <2>2 DEF PrevKnown
<1> QED
  BY <1>19, <1>20, <1>21, <1>22, <1>23, <1>24 DEF NodeInv

LEMMA RestartStep ==
    ASSUME NodeInv, RestartNode
    PROVE  NodeInv' /\ NothingTakenBack
<1>1. BlocksMade /\ BlocksStored /\ KeysStored
  BY DEF NodeInv
<1>2. /\ made' = made /\ finalizedHeight' = finalizedHeight /\ chainID' = chainID
      /\ blocks' = blocks /\ blockHashes' = blockHashes
      /\ fileManifests' = fileManifests /\ dirManifests' = dirManifests
      /\ hashCache' = <<>> /\ prevBlock' = {}
  BY DEF RestartNode
<1>3. BlocksMade'
  BY <1>1, <1>2 DEF BlocksMade, GenesisBlock
<1>4. BlocksStored' /\ KeysStored' /\ PrevKnown'
  BY <1>1, <1>2 DEF BlocksStored, KeysStored, PrevKnown
<1>5. CacheKnows(hashCache)'
  BY <1>2 DEF CacheKnows
<1>6. NothingTakenBack
  BY <1>1, <1>2, MadeIs DEF NothingTakenBack, BlocksMade
<1> QED
  BY <1>3, <1>4, <1>5, <1>6 DEF NodeInv

LEMMA NodeKept ==
    ASSUME NodeInv, UNCHANGED nodeVars
    PROVE  NodeInv' /\ NothingTakenBack
<1>1. BlocksMade /\ BlocksStored /\ KeysStored /\ CacheKnows(hashCache) /\ PrevKnown
  BY DEF NodeInv
<1>2. /\ made' = made /\ finalizedHeight' = finalizedHeight /\ chainID' = chainID
      /\ blocks' = blocks /\ blockHashes' = blockHashes
      /\ fileManifests' = fileManifests /\ dirManifests' = dirManifests
      /\ hashCache' = hashCache /\ prevBlock' = prevBlock
  BY DEF nodeVars
<1>3. BlocksMade'
  BY <1>1, <1>2 DEF BlocksMade, GenesisBlock
<1>4. BlocksStored' /\ KeysStored' /\ PrevKnown'
  BY <1>1, <1>2 DEF BlocksStored, KeysStored, PrevKnown
<1>5. CacheKnows(hashCache)'
  BY <1>1, <1>2 DEF CacheKnows
<1>6. NothingTakenBack
  BY <1>1, <1>2, MadeIs DEF NothingTakenBack, BlocksMade
<1> QED
  BY <1>3, <1>4, <1>5, <1>6 DEF NodeInv

LEMMA NodeStep ==
    ASSUME NodeInv, [Next]_vars
    PROVE  NodeInv' /\ NothingTakenBack
<1>1. CASE NodeNext
  BY <1>1, GenesisStep, AddStep, RestartStep DEF NodeNext
<1>2. CASE Request
  BY <1>2, NodeKept DEF Request, AnswerBlock, AnswerOther
<1>3. CASE RestartRest
  BY <1>3, NodeKept DEF RestartRest
<1>4. CASE UNCHANGED vars
  BY <1>4, NodeKept DEF vars
<1> QED
  BY <1>1, <1>2, <1>3, <1>4 DEF Next

(* A block read back from its bytes is the block that was written, up to what its bytes do *)
(* not keep, and is found by the hash of its header, which is also what the next block      *)
(* names as its parent: tx.PutBlock, GetBlock, GetBlockByHash, BlockFromBytes.              *)
THEOREM DecodeTheorem == Spec => []BlocksDecode
<1>1. Init => NodeInv
  BY NodeInitially DEF Init
<1>2. NodeInv /\ [Next]_vars => NodeInv'
  BY NodeStep
<1>3. NodeInv => BlocksDecode
  BY DecodeFromInv DEF NodeInv
<1> QED
  BY <1>1, <1>2, <1>3, PTL DEF Spec

-----------------------------------------------------------------------------
(***************************************************************************)
(* The REST API's invariant: its cache and its last answer are of blocks   *)
(* that were made.                                                         *)
(***************************************************************************)
IdTexts(ids) == [i \in DOMAIN ids |-> Id(ids[i])]

(* The response for a block. *)
Response(b) ==
    [chainID |-> Cut(b.header.chainID), height |-> b.header.height,
     celestiaBlockHeight |-> b.header.celestiaBlockHeight,
     timestamp |-> b.header.timestamp.seconds, hash |-> HashText(HashOf(b)),
     parentHash |-> HashText(b.header.parentHash),
     roots |-> [f \in HeaderHashes \ {"parentHash"} |-> HashText(b.header[f])],
     dirs |-> IdTexts(b.body.dirs), files |-> IdTexts(b.body.files), chunks |-> IdTexts(b.body.chunks)]

AnswerKnown ==
    \/ answer.body = {}
    \/ \E r : /\ answer.body = {r}
              /\ \/ \E k \in 1 .. Len(made) : r = Response(made[k])
                 \/ /\ "parentHash" \notin DOMAIN r
                    /\ "FinalizedHeight" \in DOMAIN r => r.FinalizedHeight \in 0 .. finalizedHeight

RestInv == NodeInv /\ CacheKnows(restCache) /\ AnswerKnown

LEMMA HashReads ==
    ASSUME NEW x
    PROVE  HashAt(Raw(32, x), 0) = x
BY WordIs DEF HashAt, Raw

LEMMA HeaderProtoReads ==
    ASSUME NEW h, IsHeader(h)
    PROVE  BlockHeaderFromProto(HeaderProto(h)) = h
<1>1. PICK p : p = HeaderProto(h)
  OBVIOUS
<1>2. DOMAIN p = DOMAIN h /\ \A f \in DOMAIN h : p[f] = IF f \in HeaderHashes THEN Raw(32, h[f]) ELSE h[f]
  BY <1>1 DEF HeaderProto
<1>3. PICK g : g = BlockHeaderFromProto(p)
  OBVIOUS
<1>4. g = [f \in DOMAIN h |-> IF f \in HeaderHashes THEN HashAt(p[f], 0) ELSE p[f]]
  BY <1>2, <1>3 DEF BlockHeaderFromProto
<1>5. \A f \in DOMAIN h : g[f] = h[f]
  BY <1>2, <1>4, HashReads
<1>6. DOMAIN h = HeaderFields /\ h = [f \in HeaderFields |-> h[f]]
  BY DEF IsHeader, HeaderFields
<1>7. g = h
  BY <1>4, <1>5, <1>6
<1> QED
  BY <1>1, <1>3, <1>7

LEMMA IdProtoReads ==
    ASSUME NEW id \in Identifiers
    PROVE  BlobIdentifierFromProto(IdProto(id)) = id
BY HashReads DEF BlobIdentifierFromProto, IdProto, Identifiers

LEMMA ResponseIs ==
    ASSUME BlocksMade, CacheKnows(restCache), NEW k \in 1 .. Len(made)
    PROVE  blockToResponse(BlockProto(Stored(made[k]))) = Response(made[k])
<1>1. Len(made) \in Nat
  BY MadeIs
<1>2. PICK b, s : b = made[k] /\ s = Stored(b)
  OBVIOUS
<1>3. IsHeader(b.header) /\ b.header.height = k - 1 /\ b.body \in IdBodies
  BY <1>2 DEF BlocksMade, IsBlock
<1>4. PICK h : h = Kept(b.header)
  OBVIOUS
<1>5. IsHeader(h) /\ HashBytes(HeaderBytes(h)) = HashOf(b) /\ s.header = h /\ s.body = b.body
  BY <1>2, <1>3, <1>4, KeptIs, KeptBytes DEF HashOf, Stored
<1>6. PICK p : p = BlockProto(s)
  OBVIOUS
<1>7. BlockHeaderFromProto(p.Header) = h
  BY <1>5, <1>6, HeaderProtoReads DEF BlockProto
<1>8. ASSUME NEW l \in {"dirs", "files", "chunks"}
      PROVE  [i \in DOMAIN p.Body[l] |-> Id(BlobIdentifierFromProto(p.Body[l][i]))] = IdTexts(b.body[l])
  <2>1. PICK ids : ids = b.body[l]
    OBVIOUS
  <2>2. ids \in Seq(Identifiers) /\ l \in DOMAIN b.body
    BY <1>3, <2>1 DEF IdBodies
  <2>3. p.Body[l] = [i \in DOMAIN ids |-> IdProto(ids[i])]
    BY <1>5, <1>6, <2>1, <2>2 DEF BlockProto, BodyProto
  <2>4. \A i \in DOMAIN ids : BlobIdentifierFromProto(IdProto(ids[i])) = ids[i]
    BY <2>2, IdProtoReads
  <2> QED
    BY <2>1, <2>3, <2>4 DEF IdTexts
<1>9. Hash(h, restCache) = HashOf(b)
  <2>1. s.header.height = k - 1 /\ HashOf(s) = HashOf(made[k]) /\ HashOf(s) = HashOf(b)
    BY <1>2, <1>3, <1>4, <1>5 DEF HashOf, Kept
  <2>2. k \in 1 .. Len(made) + 1
    BY <1>1
  <2>3. Hash(s.header, restCache) = HashOf(s)
    BY <2>1, <2>2, HashIs
  <2> QED
    BY <1>5, <2>1, <2>3
<1>10. /\ h.chainID = Cut(b.header.chainID) /\ h.height = b.header.height
       /\ h.celestiaBlockHeight = b.header.celestiaBlockHeight
       /\ h.timestamp.seconds = b.header.timestamp.seconds /\ h.parentHash = b.header.parentHash
       /\ \A f \in HeaderHashes : h[f] = b.header[f]
  BY <1>4 DEF Kept, HeaderHashes
<1>11. blockToResponse(p) =
         [chainID |-> h.chainID, height |-> h.height, celestiaBlockHeight |-> h.celestiaBlockHeight,
          timestamp |-> h.timestamp.seconds, hash |-> HashText(HashOf(b)),
          parentHash |-> HashText(h.parentHash),
          roots |-> [f \in HeaderHashes \ {"parentHash"} |-> HashText(h[f])],
          dirs |-> IdTexts(b.body["dirs"]), files |-> IdTexts(b.body["files"]),
          chunks |-> IdTexts(b.body["chunks"])]
  BY <1>7, <1>8, <1>9 DEF blockToResponse
<1>12. blockToResponse(p) = Response(b)
  BY <1>10, <1>11 DEF Response
<1> QED
  BY <1>2, <1>6, <1>12

(* Every answer with a block is the response for a block that was made. *)
IsBlockAnswer(reply) ==
    reply.body = {} \/ \E k \in 1 .. Len(made) : reply = Ok(Response(made[k]))

LEMMA FoundIs ==
    ASSUME BlocksMade, CacheKnows(restCache), NEW k \in 1 .. Len(made)
    PROVE  BlockAnswer({BlockProto(Stored(made[k]))}, TRUE) = Ok(Response(made[k]))
<1>1. PICK p : p = BlockProto(Stored(made[k]))
  OBVIOUS
<1>2. blockToResponse(p) = Response(made[k])
  BY <1>1, ResponseIs
<1>3. {p} # {} /\ (CHOOSE q \in {p} : TRUE) = p
  OBVIOUS
<1>4. BlockAnswer({p}, TRUE) = Ok(blockToResponse(p))
  BY <1>3 DEF BlockAnswer
<1> QED
  BY <1>1, <1>2, <1>4

LEMMA ServedIs ==
    ASSUME BlocksMade, BlocksStored, CacheKnows(restCache)
    PROVE  /\ \A k \in 1 .. Len(made) :
                /\ BlockAnswer(GetBlockByHeightRPC(k - 1), TRUE) = Ok(Response(made[k]))
                /\ BlockAnswer(GetBlockByHashRPC(HashOf(made[k])), TRUE) = Ok(Response(made[k]))
           /\ \A height, up : IsBlockAnswer(BlockAnswer(GetBlockByHeightRPC(height), up))
           /\ \A hash, up : IsBlockAnswer(BlockAnswer(GetBlockByHashRPC(hash), up))
<1>1. Len(made) \in Nat
  BY MadeIs
<1>2. ASSUME NEW k \in 1 .. Len(made)
      PROVE  /\ GetBlockByHeightRPC(k - 1) = {BlockProto(Stored(made[k]))}
             /\ GetBlockByHashRPC(HashOf(made[k])) = {BlockProto(Stored(made[k]))}
  <2>1. GetBlock(k - 1) = {Stored(made[k])} /\ GetBlockByHash(HashOf(made[k])) = {Stored(made[k])}
    BY StoredIs
  <2> QED
    BY <2>1 DEF GetBlockByHeightRPC, GetBlockByHashRPC
<1>3. ASSUME NEW k \in 1 .. Len(made)
      PROVE  /\ BlockAnswer(GetBlockByHeightRPC(k - 1), TRUE) = Ok(Response(made[k]))
             /\ BlockAnswer(GetBlockByHashRPC(HashOf(made[k])), TRUE) = Ok(Response(made[k]))
  BY <1>2, FoundIs
<1>4. ASSUME NEW found, NEW up,
             found = {} \/ \E k \in 1 .. Len(made) : found = {BlockProto(Stored(made[k]))}
      PROVE  IsBlockAnswer(BlockAnswer(found, up))
  <2>1. CASE ~up \/ found = {}
    BY <2>1 DEF BlockAnswer, IsBlockAnswer, Failed
  <2>2. CASE up /\ found # {}
    <3>1. PICK k \in 1 .. Len(made) : found = {BlockProto(Stored(made[k]))}
      BY <1>4, <2>2
    <3>2. BlockAnswer(found, up) = BlockAnswer(found, TRUE)
      BY <2>2 DEF BlockAnswer
    <3>3. BlockAnswer(found, TRUE) = Ok(Response(made[k]))
      BY <3>1, FoundIs
    <3> QED
      BY <3>2, <3>3 DEF IsBlockAnswer
  <2> QED
    BY <2>1, <2>2
<1>5. ASSUME NEW height, NEW up PROVE IsBlockAnswer(BlockAnswer(GetBlockByHeightRPC(height), up))
  <2>1. CASE height \in 0 .. Len(made) - 1
    <3>1. PICK k \in 1 .. Len(made) : height = k - 1
      BY <1>1, <2>1
    <3> QED
      BY <1>2, <1>4, <3>1
  <2>2. CASE height \notin 0 .. Len(made) - 1
    <3>1. GetBlockByHeightRPC(height) = {}
      BY <2>2, StoredIs DEF GetBlockByHeightRPC
    <3> QED
      BY <1>4, <3>1
  <2> QED
    BY <2>1, <2>2
<1>6. ASSUME NEW hash, NEW up PROVE IsBlockAnswer(BlockAnswer(GetBlockByHashRPC(hash), up))
  <2>1. \/ GetBlockByHash(hash) = {}
        \/ \E k \in 1 .. Len(made) : GetBlockByHash(hash) = {Stored(made[k])}
    BY StoredIs
  <2>2. \/ GetBlockByHashRPC(hash) = {}
        \/ \E k \in 1 .. Len(made) : GetBlockByHashRPC(hash) = {BlockProto(Stored(made[k]))}
    BY <2>1 DEF GetBlockByHashRPC
  <2> QED
    BY <1>4, <2>2
<1> QED
  BY <1>3, <1>5, <1>6

LEMMA AnswersIs ==
    ASSUME BlocksMade, BlocksStored, CacheKnows(restCache)
    PROVE  /\ \A text, up : IsBlockAnswer(getBlockByHeightOrHash(text, up))
           /\ \A up : IsBlockAnswer(getLatestBlock(up))
<1>1. ASSUME NEW text, NEW up PROVE IsBlockAnswer(getBlockByHeightOrHash(text, up))
  <2>1. IsBlockAnswer(getBlockByHash(text, up))
    BY ServedIs DEF getBlockByHash, IsBlockAnswer, Failed
  <2>2. IsBlockAnswer(getBlockByHeight(text, up))
    BY ServedIs DEF getBlockByHeight, IsBlockAnswer, Failed
  <2> QED
    BY <2>1, <2>2 DEF getBlockByHeightOrHash
<1>2. ASSUME NEW up PROVE IsBlockAnswer(getLatestBlock(up))
  <2>1. CASE finalizedHeight = 0
    BY <2>1 DEF getLatestBlock, GetLatestBlockRPC, BlockAnswer, IsBlockAnswer, Failed
  <2>2. CASE finalizedHeight # 0
    BY <2>2, ServedIs DEF getLatestBlock, GetLatestBlockRPC
  <2> QED
    BY <2>1, <2>2
<1> QED
  BY <1>1, <1>2

LEMMA RestStep ==
    ASSUME RestInv, [Next]_vars
    PROVE  RestInv'
<1>1. BlocksMade /\ BlocksStored /\ CacheKnows(restCache) /\ AnswerKnown /\ finalizedHeight \in Nat
  BY DEF RestInv, NodeInv, BlocksMade
<1>2. NodeInv' /\ NothingTakenBack
  BY NodeStep DEF RestInv
<1>3. BlocksMade' /\ finalizedHeight' \in Nat
  BY <1>2 DEF NodeInv, BlocksMade
<1>4. ASSUME NEW cache, CacheKnows(cache)
      PROVE  \A h \in DOMAIN cache : h + 1 \in 1 .. Len(made') /\ cache[h] = HashOf(made'[h + 1])
  BY <1>2, <1>4, <1>1, MadeIs DEF CacheKnows, NothingTakenBack
<1>5. ASSUME NEW k \in 1 .. Len(made) PROVE k \in 1 .. Len(made') /\ made'[k] = made[k]
  BY <1>1, <1>2, MadeIs DEF NothingTakenBack
<1>6. ASSUME restCache' = restCache PROVE CacheKnows(restCache)'
  BY <1>1, <1>4, <1>6 DEF CacheKnows
<1>7. ASSUME answer' = answer PROVE AnswerKnown'
  <2>1. CASE answer.body = {}
    BY <1>7, <2>1 DEF AnswerKnown
  <2>2. CASE answer.body # {}
    <3>1. PICK r : /\ answer.body = {r}
                   /\ \/ \E k \in 1 .. Len(made) : r = Response(made[k])
                      \/ /\ "parentHash" \notin DOMAIN r
                         /\ "FinalizedHeight" \in DOMAIN r => r.FinalizedHeight \in 0 .. finalizedHeight
      BY <1>1, <2>2 DEF AnswerKnown
    <3>2. CASE \E k \in 1 .. Len(made) : r = Response(made[k])
      BY <1>5, <1>7, <3>1, <3>2 DEF AnswerKnown
    <3>3. CASE /\ "parentHash" \notin DOMAIN r
               /\ "FinalizedHeight" \in DOMAIN r => r.FinalizedHeight \in 0 .. finalizedHeight
      <4>1. "FinalizedHeight" \in DOMAIN r => r.FinalizedHeight \in 0 .. finalizedHeight'
        BY <1>1, <1>2, <1>3, <3>3 DEF NothingTakenBack
      <4> QED
        BY <1>7, <3>1, <3>3, <4>1 DEF AnswerKnown
    <3> QED
      BY <3>1, <3>2, <3>3
  <2> QED
    BY <2>1, <2>2
<1>8. CASE NodeNext /\ UNCHANGED <<restCache, answer>>
  BY <1>2, <1>6, <1>7, <1>8 DEF RestInv
<1>9. ASSUME NEW reply, IsBlockAnswer(reply), AnswerBlock(reply) PROVE RestInv'
  <2>1. answer' = reply /\ made' = made
    BY <1>9 DEF AnswerBlock, nodeVars
  <2>2. CASE reply.body = {}
    <3>1. restCache' = restCache /\ AnswerKnown'
      BY <1>9, <2>1, <2>2 DEF AnswerBlock, AnswerKnown
    <3> QED
      BY <1>2, <1>6, <3>1 DEF RestInv
  <2>3. CASE reply.body # {}
    <3>1. PICK k \in 1 .. Len(made) : reply = Ok(Response(made[k]))
      BY <1>9, <2>3 DEF IsBlockAnswer
    <3>2. PICK r : r = Response(made[k])
      OBVIOUS
    <3>3. reply.body = {r} /\ (CHOOSE q \in reply.body : TRUE) = r
      BY <3>1, <3>2 DEF Ok
    <3>4. r.height = k - 1 /\ HashAt(r.hash.value, 0) = HashOf(made[k])
      <4>1. made[k].header.height = k - 1
        BY <1>1 DEF BlocksMade, IsBlock
      <4> QED
        BY <3>2, <4>1, HashReads DEF Response, HashText
    <3>5. restCache' = Put(restCache, k - 1, HashOf(made[k]))
      BY <1>9, <2>3, <3>3, <3>4 DEF AnswerBlock
    <3>6. CacheKnows(restCache)'
      <4>1. ASSUME NEW h \in DOMAIN restCache'
            PROVE  h + 1 \in 1 .. Len(made) /\ restCache'[h] = HashOf(made[h + 1])
        <5>1. CASE h = k - 1
          BY <3>5, <5>1 DEF Put
        <5>2. CASE h # k - 1
          <6>1. h \in DOMAIN restCache /\ restCache'[h] = restCache[h]
            BY <3>5, <5>2 DEF Put
          <6> QED
            BY <1>1, <6>1 DEF CacheKnows
        <5> QED
          BY <5>1, <5>2
      <4> QED
        BY <2>1, <4>1 DEF CacheKnows
    <3>7. AnswerKnown'
      BY <2>1, <3>2, <3>3 DEF AnswerKnown
    <3> QED
      BY <1>2, <3>6, <3>7 DEF RestInv
  <2> QED
    BY <2>2, <2>3
<1>10. ASSUME NEW reply, AnswerOther(reply),
              \/ reply.body = {}
              \/ \E r : /\ reply.body = {r} /\ "parentHash" \notin DOMAIN r
                        /\ "FinalizedHeight" \in DOMAIN r => r.FinalizedHeight \in 0 .. finalizedHeight
       PROVE  RestInv'
  <2>1. answer' = reply /\ finalizedHeight' = finalizedHeight /\ restCache' = restCache
    BY <1>10 DEF AnswerOther, nodeVars
  <2>2. AnswerKnown'
    BY <1>10, <2>1 DEF AnswerKnown
  <2> QED
    BY <1>2, <1>6, <2>1, <2>2 DEF RestInv
<1>11. ASSUME NEW text, NEW manifests, NEW up, AnswerOther(GetManifest(text, manifests, up))
       PROVE  RestInv'
  <2>1. PICK reply : reply = GetManifest(text, manifests, up)
    OBVIOUS
  <2>2. CASE reply.body = {}
    BY <1>10, <1>11, <2>1, <2>2
  <2>3. CASE reply.body # {}
    <3>1. PICK id : id = CHOOSE i \in BlobIdentifierFromString(text) : TRUE
      OBVIOUS
    <3>2. BlobIdentifierFromString(text) # {} /\ reply = Ok(id)
      BY <2>1, <2>3, <3>1 DEF GetManifest, Failed
    <3>3. id \in BlobIdentifierFromString(text)
      BY <3>1, <3>2
    <3>4. id = BlobIdentifierFromBytes(text.base36)
      BY <3>3 DEF BlobIdentifierFromString
    <3>5. DOMAIN id = {"height", "commitment"}
      BY <3>4 DEF BlobIdentifierFromBytes, NoIdentifier
    <3>6. reply.body = {id} /\ "parentHash" \notin DOMAIN id /\ "FinalizedHeight" \notin DOMAIN id
      BY <3>2, <3>5 DEF Ok
    <3> QED
      BY <1>10, <1>11, <2>1, <3>6
  <2> QED
    BY <2>2, <2>3
<1>12. ASSUME NEW up, AnswerOther(getChainInfo(up)) PROVE RestInv'
  <2>1. PICK reply : reply = getChainInfo(up)
    OBVIOUS
  <2>2. CASE ~up
    <3>1. reply.body = {}
      BY <2>1, <2>2 DEF getChainInfo, Failed
    <3> QED
      BY <1>10, <1>12, <2>1, <3>1
  <2>3. CASE up
    <3>1. PICK r : r = GetChainInfoRPC
      OBVIOUS
    <3>2. reply.body = {r} /\ "parentHash" \notin DOMAIN r /\ r.FinalizedHeight \in 0 .. finalizedHeight
      BY <1>1, <2>1, <2>3, <3>1 DEF getChainInfo, Ok, GetChainInfoRPC
    <3> QED
      BY <1>10, <1>12, <2>1, <3>2
  <2> QED
    BY <2>2, <2>3
<1>13. CASE Request
  <2>1. PICK up \in BOOLEAN :
        \/ \E text \in BlockTexts : AnswerBlock(getBlockByHeightOrHash(text, up))
        \/ AnswerBlock(getLatestBlock(up))
        \/ AnswerOther(getChainInfo(up))
        \/ \E text \in ManifestTexts : AnswerOther(getFileManifest(text, up))
        \/ \E text \in ManifestTexts : AnswerOther(getDirectoryManifest(text, up))
    BY <1>13 DEF Request
  <2>2. CASE \E text \in BlockTexts : AnswerBlock(getBlockByHeightOrHash(text, up))
    BY <1>1, <1>9, <2>2, AnswersIs
  <2>3. CASE AnswerBlock(getLatestBlock(up))
    BY <1>1, <1>9, <2>3, AnswersIs
  <2>4. CASE AnswerOther(getChainInfo(up))
    BY <1>12, <2>4
  <2>5. CASE \E text \in ManifestTexts : AnswerOther(getFileManifest(text, up))
    BY <1>11, <2>5 DEF getFileManifest
  <2>6. CASE \E text \in ManifestTexts : AnswerOther(getDirectoryManifest(text, up))
    BY <1>11, <2>6 DEF getDirectoryManifest
  <2> QED
    BY <2>1, <2>2, <2>3, <2>4, <2>5, <2>6
<1>14. CASE RestartRest
  <2>1. restCache' = <<>> /\ answer' = answer
    BY <1>14 DEF RestartRest
  <2>2. CacheKnows(restCache)'
    BY <2>1 DEF CacheKnows
  <2> QED
    BY <1>2, <1>7, <2>1, <2>2 DEF RestInv
<1>15. CASE UNCHANGED vars
  BY <1>2, <1>6, <1>7, <1>15 DEF RestInv, vars
<1> QED
  BY <1>8, <1>13, <1>14, <1>15 DEF Next

(* RestConsistent follows. *)
LEMMA AskedIs ==
    ASSUME BlocksMade, BlocksStored, CacheKnows(restCache), NEW k \in 1 .. Len(made)
    PROVE  /\ getBlockByHeightOrHash(HashText(HashOf(made[k])), TRUE) = Ok(Response(made[k]))
           /\ getBlockByHeightOrHash(HeightText(k - 1), TRUE) = Ok(Response(made[k]))
<1>1. PICK text : text = HashText(HashOf(made[k]))
  OBVIOUS
<1>2. text.zeroX /\ text.digits = "hex" /\ text.length = 66 /\ HashAt(text.value, 0) = HashOf(made[k])
  BY <1>1, HashReads DEF HashText
<1>3. getBlockByHeightOrHash(text, TRUE) = Ok(Response(made[k]))
  BY <1>2, ServedIs DEF getBlockByHeightOrHash, getBlockByHash
<1>4. PICK height : height = HeightText(k - 1)
  OBVIOUS
<1>5. ~height.zeroX /\ height.digits = "decimal" /\ height.length = 1 /\ height.value = k - 1
  BY <1>4 DEF HeightText
<1>6. getBlockByHeightOrHash(height, TRUE) = Ok(Response(made[k]))
  <2>1. BlockAnswer(GetBlockByHeightRPC(k - 1), TRUE) = Ok(Response(made[k]))
    BY ServedIs
  <2>2. getBlockByHeight(height, TRUE) = BlockAnswer(GetBlockByHeightRPC(k - 1), TRUE)
    BY <1>5 DEF getBlockByHeight
  <2>3. getBlockByHeightOrHash(height, TRUE) = getBlockByHeight(height, TRUE)
    BY <1>5 DEF getBlockByHeightOrHash
  <2> QED
    BY <2>1, <2>2, <2>3
<1> QED
  BY <1>1, <1>3, <1>4, <1>6

LEMMA ManifestServed ==
    ASSUME NEW manifests, NEW id \in Identifiers, IdBytes(id) \in manifests
    PROVE  GetManifest(Id(id), manifests, TRUE) = Ok(id)
<1>1. BlobIdentifierFromBytes(IdBytes(id)) = id /\ IdBytes(id).length = 40
  BY IdIs
<1>2. PICK text : text = Id(id)
  OBVIOUS
<1>3. text.prefix = "bc" /\ text.base36 = IdBytes(id)
  BY <1>2 DEF Id
<1>4. text.base36 # NotBase36
  <2>1. DOMAIN IdBytes(id) # DOMAIN NotBase36
    BY DEF IdBytes, ++, NotBase36, Garbage
  <2> QED
    BY <1>3, <2>1
<1>5. BlobIdentifierFromString(text) = {id}
  BY <1>1, <1>3, <1>4 DEF BlobIdentifierFromString
<1>6. (CHOOSE i \in BlobIdentifierFromString(text) : TRUE) = id
  BY <1>5
<1>7. GetManifestRPC(text, manifests) = {id}
  BY <1>5 DEF GetManifestRPC
<1>8. GetManifest(text, manifests, TRUE) = Ok(id)
  BY <1>2, <1>5, <1>6, <1>7 DEF GetManifest
<1> QED
  BY <1>2, <1>8

LEMMA ManifestsServed ==
    ASSUME NEW manifests, NEW ids \in Seq(Identifiers), Keys(ids) \subseteq manifests
    PROVE  \A i \in DOMAIN IdTexts(ids) : GetManifest(IdTexts(ids)[i], manifests, TRUE) = Ok(ids[i])
<1> SUFFICES ASSUME NEW i \in DOMAIN IdTexts(ids)
             PROVE  GetManifest(IdTexts(ids)[i], manifests, TRUE) = Ok(ids[i])
  OBVIOUS
<1>1. i \in DOMAIN ids /\ IdTexts(ids)[i] = Id(ids[i])
  BY DEF IdTexts
<1>2. PICK id : id = ids[i]
  OBVIOUS
<1>3. id \in Identifiers /\ IdBytes(id) \in manifests
  BY <1>1, <1>2 DEF Keys
<1>4. GetManifest(Id(id), manifests, TRUE) = Ok(id)
  BY <1>3, ManifestServed
<1> QED
  BY <1>1, <1>2, <1>4

LEMMA ConsistentFromInv ==
    ASSUME RestInv
    PROVE  RestConsistent
<1>1. BlocksMade /\ BlocksStored /\ KeysStored /\ CacheKnows(restCache) /\ AnswerKnown
  BY DEF RestInv, NodeInv
<1>2. Len(made) \in Nat /\ finalizedHeight \in Nat
  BY <1>1, MadeIs DEF BlocksMade
<1> SUFFICES ASSUME NEW r \in answer.body
             PROVE  /\ "parentHash" \in DOMAIN r =>
                         /\ getBlockByHeightOrHash(r.hash, TRUE) = Ok(r)
                         /\ getBlockByHeightOrHash(HeightText(r.height), TRUE) = Ok(r)
                         /\ r.height > 0 =>
                              \A parent \in getBlockByHeightOrHash(HeightText(r.height - 1), TRUE).body :
                                  /\ parent.hash = r.parentHash
                                  /\ getBlockByHeightOrHash(r.parentHash, TRUE) = Ok(parent)
                         /\ \A i \in DOMAIN r.files : getFileManifest(r.files[i], TRUE).status = 200
                         /\ \A i \in DOMAIN r.dirs : getDirectoryManifest(r.dirs[i], TRUE).status = 200
                    /\ ("FinalizedHeight" \in DOMAIN r /\ r.FinalizedHeight > 0) =>
                         getBlockByHeightOrHash(HeightText(r.FinalizedHeight), TRUE).status = 200
  BY DEF RestConsistent
<1>3. \/ \E k \in 1 .. Len(made) : r = Response(made[k])
      \/ /\ "parentHash" \notin DOMAIN r
         /\ "FinalizedHeight" \in DOMAIN r => r.FinalizedHeight \in 0 .. finalizedHeight
  BY <1>1 DEF AnswerKnown
<1>4. CASE \E k \in 1 .. Len(made) : r = Response(made[k])
  <2>1. PICK k \in 1 .. Len(made) : r = Response(made[k])
    BY <1>4
  <2>2. PICK b : b = made[k]
    OBVIOUS
  <2>3. b.header.height = k - 1 /\ b.body \in IdBodies
    BY <1>1, <2>2 DEF BlocksMade, IsBlock
  <2>4. /\ r.hash = HashText(HashOf(b)) /\ r.height = k - 1 /\ r.parentHash = HashText(b.header.parentHash)
        /\ r.files = IdTexts(b.body.files) /\ r.dirs = IdTexts(b.body.dirs)
        /\ "FinalizedHeight" \notin DOMAIN r
    BY <2>1, <2>2, <2>3 DEF Response
  <2>5. /\ getBlockByHeightOrHash(r.hash, TRUE) = Ok(r)
        /\ getBlockByHeightOrHash(HeightText(r.height), TRUE) = Ok(r)
    BY <1>1, <2>1, <2>2, <2>4, AskedIs
  <2>6. ASSUME r.height > 0, NEW parent \in getBlockByHeightOrHash(HeightText(r.height - 1), TRUE).body
        PROVE  /\ parent.hash = r.parentHash
               /\ getBlockByHeightOrHash(r.parentHash, TRUE) = Ok(parent)
    <3>1. PICK j \in 1 .. Len(made) : j = k - 1 /\ j \in 1 .. Len(made) - 1 /\ r.height - 1 = j - 1 /\ k = j + 1
      BY <1>2, <2>4, <2>6
    <3>2. getBlockByHeightOrHash(HeightText(j - 1), TRUE) = Ok(Response(made[j]))
      BY <1>1, AskedIs
    <3>3. parent = Response(made[j])
      <4>1. HeightText(r.height - 1) = HeightText(j - 1)
        BY <3>1
      <4>2. parent \in Ok(Response(made[j])).body
        BY <2>6, <3>2, <4>1
      <4> QED
        BY <4>2 DEF Ok
    <3>4. b.header.parentHash = HashOf(made[j])
      BY <1>1, <2>2, <3>1 DEF BlocksMade
    <3>5. parent.hash = r.parentHash
      BY <2>4, <3>3, <3>4 DEF Response
    <3>6. getBlockByHeightOrHash(HashText(HashOf(made[j])), TRUE) = Ok(parent)
      BY <1>1, <3>3, AskedIs
    <3> QED
      BY <2>4, <3>4, <3>5, <3>6
  <2>7. /\ Keys(b.body.files) \subseteq fileManifests /\ Keys(b.body.dirs) \subseteq dirManifests
        /\ b.body.files \in Seq(Identifiers) /\ b.body.dirs \in Seq(Identifiers)
    BY <1>1, <2>2, <2>3 DEF KeysStored, IdBodies
  <2>8. \A i \in DOMAIN r.files : getFileManifest(r.files[i], TRUE).status = 200
    <3>1. PICK ids : ids = b.body.files
      OBVIOUS
    <3>2. \A i \in DOMAIN IdTexts(ids) : GetManifest(IdTexts(ids)[i], fileManifests, TRUE) = Ok(ids[i])
      BY <2>7, <3>1, ManifestsServed
    <3>3. ASSUME NEW i \in DOMAIN r.files PROVE getFileManifest(r.files[i], TRUE).status = 200
      <4>1. PICK reply : reply = getFileManifest(r.files[i], TRUE)
        OBVIOUS
      <4>2. reply = Ok(ids[i])
        BY <2>4, <3>1, <3>2, <4>1 DEF getFileManifest
      <4>3. reply.status = 200
        BY <4>2 DEF Ok
      <4> QED
        BY <4>1, <4>3
    <3> QED
      BY <3>3
  <2>9. \A i \in DOMAIN r.dirs : getDirectoryManifest(r.dirs[i], TRUE).status = 200
    <3>1. PICK ids : ids = b.body.dirs
      OBVIOUS
    <3>2. \A i \in DOMAIN IdTexts(ids) : GetManifest(IdTexts(ids)[i], dirManifests, TRUE) = Ok(ids[i])
      BY <2>7, <3>1, ManifestsServed
    <3>3. ASSUME NEW i \in DOMAIN r.dirs PROVE getDirectoryManifest(r.dirs[i], TRUE).status = 200
      <4>1. PICK reply : reply = getDirectoryManifest(r.dirs[i], TRUE)
        OBVIOUS
      <4>2. reply = Ok(ids[i])
        BY <2>4, <3>1, <3>2, <4>1 DEF getDirectoryManifest
      <4>3. reply.status = 200
        BY <4>2 DEF Ok
      <4> QED
        BY <4>1, <4>3
    <3> QED
      BY <3>3
  <2> QED
    BY <2>4, <2>5, <2>6, <2>8, <2>9
<1>5. CASE /\ "parentHash" \notin DOMAIN r
           /\ "FinalizedHeight" \in DOMAIN r => r.FinalizedHeight \in 0 .. finalizedHeight
  <2>1. ASSUME "FinalizedHeight" \in DOMAIN r, r.FinalizedHeight > 0
        PROVE  getBlockByHeightOrHash(HeightText(r.FinalizedHeight), TRUE).status = 200
    <3>1. PICK h : h = r.FinalizedHeight
      OBVIOUS
    <3>2. h \in 1 .. finalizedHeight /\ finalizedHeight # 0
      BY <1>2, <1>5, <2>1, <3>1
    <3>3. Len(made) = finalizedHeight + 1
      BY <1>1, <3>2 DEF BlocksMade
    <3>4. PICK k \in 1 .. Len(made) : h = k - 1
      <4>1. PICK j : j = h + 1
        OBVIOUS
      <4>2. j \in 1 .. Len(made) /\ h = j - 1
        BY <1>2, <3>2, <3>3, <4>1
      <4> QED
        BY <4>2
    <3>5. getBlockByHeightOrHash(HeightText(k - 1), TRUE) = Ok(Response(made[k]))
      BY <1>1, AskedIs
    <3>6. HeightText(k - 1) = HeightText(r.FinalizedHeight)
      BY <3>1, <3>4
    <3>7. getBlockByHeightOrHash(HeightText(r.FinalizedHeight), TRUE) = Ok(Response(made[k]))
      BY <3>5, <3>6
    <3>8. PICK reply : reply = getBlockByHeightOrHash(HeightText(r.FinalizedHeight), TRUE)
      OBVIOUS
    <3>9. PICK response : response = Response(made[k])
      OBVIOUS
    <3>10. reply = Ok(response)
      BY <3>7, <3>8, <3>9
    <3>11. reply.status = 200
      BY <3>10 DEF Ok
    <3> QED
      BY <3>8, <3>11
  <2> QED
    BY <1>5, <2>1
<1> QED
  BY <1>3, <1>4, <1>5

(* Whatever the API answered is what it answers again, by the hash and by the height, with *)
(* the parent and the manifests it named; after any blocks and restarts of either process. *)
THEOREM ConsistentTheorem == Spec => []RestConsistent
<1>1. Init => RestInv
  <2> SUFFICES ASSUME Init PROVE RestInv
    OBVIOUS
  <2>1. NodeInv /\ restCache = <<>> /\ answer.body = {}
    BY NodeInitially DEF Init, Nothing
  <2> QED
    BY <2>1 DEF RestInv, CacheKnows, AnswerKnown
<1>2. RestInv /\ [Next]_vars => RestInv'
  BY RestStep
<1>3. RestInv => RestConsistent
  BY ConsistentFromInv
<1> QED
  BY <1>1, <1>2, <1>3, PTL DEF Spec

-----------------------------------------------------------------------------
(***************************************************************************)
(* Merkle roots: no two nodes of a level are equal, so a level determines  *)
(* the one below it, and a root determines the list.  What holds after     *)
(* every round is shown by the least round without it (LeastNat).          *)
(***************************************************************************)
(* Every set of numbers has a least one. *)
LEMMA LeastNat ==
    ASSUME NEW T, T \subseteq Nat, T # {}
    PROVE  \E x \in T : \A y \in T : x <= y
<1>1. PICK R : R = OpToRel(<, Nat)
  OBVIOUS
<1>2. \A x, y \in Nat : x < y => <<x, y>> \in R
  BY <1>1 DEF OpToRel
<1>3. IsWellFoundedOn(R, Nat)
  BY <1>1, NatLessThanWellFounded
<1>4. PICK x \in T : \A y \in T : ~ (<<y, x>> \in R)
  BY <1>3, WFMin
<1>5. ASSUME NEW y \in T PROVE x <= y
  <2>1. x \in Nat /\ y \in Nat /\ ~ (<<y, x>> \in R)
    BY <1>4
  <2>2. ~ (y < x)
    BY <1>2, <2>1
  <2> QED
    BY <2>1, <2>2
<1> QED
  BY <1>5

(* The rounds of ReduceNodes. *)
IsLevels(f, nodes, m) == f = [k \in 0 .. m |-> IF k = 0 THEN nodes ELSE NextLevel(f[k - 1])]

LEMMA LevelsExist ==
    ASSUME NEW nodes
    PROVE  \A m \in Nat : \E f : IsLevels(f, nodes, m)
<1>1. PICK T : T = {m \in Nat : ~ \E f : IsLevels(f, nodes, m)}
  OBVIOUS
<1> SUFFICES ASSUME T # {} PROVE FALSE
  BY <1>1
<1>2. PICK m \in T : \A y \in T : m <= y
  BY <1>1, LeastNat
<1>3. m \in Nat /\ ~ \E f : IsLevels(f, nodes, m)
  BY <1>1
<1>4. CASE m = 0
  <2>1. PICK f : f = [k \in 0 .. 0 |-> nodes]
    OBVIOUS
  <2>2. IsLevels(f, nodes, 0)
    BY <2>1 DEF IsLevels
  <2> QED
    BY <1>3, <1>4, <2>2
<1>5. CASE m # 0
  <2>1. m - 1 \in Nat /\ m - 1 \notin T
    BY <1>2, <1>3, <1>5
  <2>2. PICK f : IsLevels(f, nodes, m - 1)
    BY <1>1, <2>1
  <2>3. PICK g : g = [k \in 0 .. m |-> IF k < m THEN f[k] ELSE NextLevel(f[m - 1])]
    OBVIOUS
  <2>4. ASSUME NEW k \in 0 .. m PROVE g[k] = IF k = 0 THEN nodes ELSE NextLevel(g[k - 1])
    <3>1. CASE k = 0
      <4>1. f[0] = nodes
        BY <1>3, <1>5, <2>2 DEF IsLevels
      <4> QED
        BY <1>3, <1>5, <2>3, <3>1, <4>1
    <3>2. CASE k # 0 /\ k < m
      <4>1. f[k] = NextLevel(f[k - 1])
        BY <1>3, <2>2, <3>2 DEF IsLevels
      <4>2. g[k] = f[k] /\ g[k - 1] = f[k - 1]
        BY <1>3, <2>3, <3>2
      <4> QED
        BY <3>2, <4>1, <4>2
    <3>3. CASE k = m
      <4>1. g[m] = NextLevel(f[m - 1]) /\ g[m - 1] = f[m - 1]
        BY <1>3, <1>5, <2>3
      <4> QED
        BY <1>5, <3>3, <4>1
    <3> QED
      BY <1>3, <3>1, <3>2, <3>3
  <2>5. IsLevels(g, nodes, m)
    BY <2>3, <2>4 DEF IsLevels
  <2> QED
    BY <1>3, <2>5
<1> QED
  BY <1>4, <1>5

(* Nodes that are pairwise different. *)
IsNodes(x) ==
    /\ \E S : x \in Seq(S)
    /\ Len(x) > 0
    /\ \A i, j \in 1 .. Len(x) : x[i] = x[j] => i = j

LEMMA NodesAre ==
    ASSUME NEW x, IsNodes(x)
    PROVE  Len(x) \in Nat \ {0} /\ x = [i \in 1 .. Len(x) |-> x[i]] /\ DOMAIN x = 1 .. Len(x)
<1>1. PICK S : x \in Seq(S)
  BY DEF IsNodes
<1> QED
  BY <1>1 DEF IsNodes

LEMMA HalfIs ==
    ASSUME NEW n \in Nat \ {0}, NEW h, h = (n + 1) \div 2
    PROVE  /\ h \in Nat \ {0} /\ (2 * h = n \/ 2 * h = n + 1)
           /\ h <= n /\ (n > 1 => h < n)
OBVIOUS

(* The hash of a pair binds both. *)
LEMMA PairBinds ==
    ASSUME NEW a, NEW b, NEW c, NEW d, PairHash(a, b) = PairHash(c, d)
    PROVE  a = c /\ b = d
<1>1. PICK p, q, r, s : p = Raw(32, a) /\ q = Raw(32, b) /\ r = Raw(32, c) /\ s = Raw(32, d)
  OBVIOUS
<1>2. p ++ q = r ++ s
  BY <1>1 DEF PairHash, HashBytes
<1>3. /\ IsBytes(p) /\ p.length = 32 /\ Read(p, 0, 32, "none") = a
      /\ IsBytes(q) /\ q.length = 32 /\ Read(q, 0, 32, "none") = b
      /\ IsBytes(r) /\ r.length = 32 /\ Read(r, 0, 32, "none") = c
      /\ IsBytes(s) /\ s.length = 32 /\ Read(s, 0, 32, "none") = d
  BY <1>1, WordIs DEF Raw
<1>4. Read(p ++ q, 0, 32, "none") = a /\ Read(r ++ s, 0, 32, "none") = c
  BY <1>3, ReadLeft
<1>5. Read(p ++ q, 32 + 0, 32, "none") = b /\ Read(r ++ s, 32 + 0, 32, "none") = d
  BY <1>3, ReadRight
<1> QED
  BY <1>2, <1>4, <1>5

LEMMA NextIs ==
    ASSUME NEW x, IsNodes(x), NEW n \in Nat \ {0}, n = Len(x), NEW h, h = (n + 1) \div 2
    PROVE  /\ Len(NextLevel(x)) = h /\ DOMAIN NextLevel(x) = 1 .. h
           /\ \A i \in 1 .. h : NextLevel(x)[i] =
                PairHash(x[2 * i - 1], IF 2 * i <= n THEN x[2 * i] ELSE x[2 * i - 1])
           /\ NextLevel(x) = [i \in 1 .. h |-> NextLevel(x)[i]]
           /\ IsNodes(NextLevel(x))
<1>1. h \in Nat \ {0} /\ (2 * h = n \/ 2 * h = n + 1)
  BY HalfIs
<1>2. PICK y : y = NextLevel(x)
  OBVIOUS
<1>3. y = [i \in 1 .. h |-> PairHash(x[2 * i - 1], IF 2 * i <= n THEN x[2 * i] ELSE x[2 * i - 1])]
  BY <1>2 DEF NextLevel
<1>4. PICK S : S = {y[i] : i \in 1 .. h}
  OBVIOUS
<1>5. y \in [1 .. h -> S]
  BY <1>3, <1>4
<1>6. y \in Seq(S) /\ Len(y) = h
  BY <1>1, <1>5
<1>7. ASSUME NEW i \in 1 .. h, NEW j \in 1 .. h, y[i] = y[j] PROVE i = j
  <2>1. x[2 * i - 1] = x[2 * j - 1]
    <3>1. PICK a, b, c, d :
            /\ a = x[2 * i - 1] /\ b = IF 2 * i <= n THEN x[2 * i] ELSE x[2 * i - 1]
            /\ c = x[2 * j - 1] /\ d = IF 2 * j <= n THEN x[2 * j] ELSE x[2 * j - 1]
      OBVIOUS
    <3>2. PairHash(a, b) = PairHash(c, d)
      BY <1>3, <1>7, <3>1
    <3> QED
      BY <3>1, <3>2, PairBinds
  <2>2. 2 * i - 1 \in 1 .. n /\ 2 * j - 1 \in 1 .. n
    BY <1>1
  <2>3. 2 * i - 1 = 2 * j - 1
    BY <2>1, <2>2 DEF IsNodes
  <2> QED
    BY <2>3
<1>8. IsNodes(y)
  BY <1>1, <1>6, <1>7 DEF IsNodes
<1> QED
  BY <1>2, <1>3, <1>6, <1>8

(* A level determines the one under it: the node that stands twice for the last of an odd *)
(* number is not a pair of different ones.                                                *)
LEMMA NextBinds ==
    ASSUME NEW x, NEW y, IsNodes(x), IsNodes(y), NextLevel(x) = NextLevel(y)
    PROVE  x = y
<1>1. PICK n \in Nat \ {0} : n = Len(x)
  BY NodesAre
<1>2. PICK m \in Nat \ {0} : m = Len(y)
  BY NodesAre
<1>3. PICK h : h = (n + 1) \div 2
  OBVIOUS
<1>4. PICK g : g = (m + 1) \div 2
  OBVIOUS
<1>5. /\ h \in Nat \ {0} /\ (2 * h = n \/ 2 * h = n + 1)
      /\ g \in Nat \ {0} /\ (2 * g = m \/ 2 * g = m + 1)
  BY <1>3, <1>4, HalfIs
<1>6. Len(NextLevel(x)) = h /\ Len(NextLevel(y)) = g
  <2>1. Len(NextLevel(x)) = h
    BY <1>1, <1>3, NextIs
  <2>2. Len(NextLevel(y)) = g
    BY <1>2, <1>4, NextIs
  <2> QED
    BY <2>1, <2>2
<1>7. h = g
  BY <1>6
<1>8. ASSUME NEW i \in 1 .. h
      PROVE  /\ x[2 * i - 1] = y[2 * i - 1]
             /\ (IF 2 * i <= n THEN x[2 * i] ELSE x[2 * i - 1]) = (IF 2 * i <= m THEN y[2 * i] ELSE y[2 * i - 1])
  <2>1. PICK a, b, c, d :
          /\ a = x[2 * i - 1] /\ b = IF 2 * i <= n THEN x[2 * i] ELSE x[2 * i - 1]
          /\ c = y[2 * i - 1] /\ d = IF 2 * i <= m THEN y[2 * i] ELSE y[2 * i - 1]
    OBVIOUS
  <2>2. NextLevel(x)[i] = PairHash(a, b)
    BY <1>1, <1>3, <2>1, NextIs
  <2>3. NextLevel(y)[i] = PairHash(c, d)
    BY <1>2, <1>4, <1>7, <2>1, NextIs
  <2> QED
    BY <2>1, <2>2, <2>3, PairBinds
<1>9. n = m
  <2>1. ASSUME n # m PROVE FALSE
    <3>1. CASE n = 2 * h /\ m = 2 * h - 1
      <4>1. x[2 * h - 1] = y[2 * h - 1] /\ x[2 * h] = y[2 * h - 1]
        BY <1>5, <1>8, <3>1
      <4> QED
        BY <1>1, <1>5, <3>1, <4>1 DEF IsNodes
    <3>2. CASE m = 2 * h /\ n = 2 * h - 1
      <4>1. x[2 * h - 1] = y[2 * h - 1] /\ x[2 * h - 1] = y[2 * h]
        BY <1>5, <1>8, <3>2
      <4>2. 2 * h - 1 \in 1 .. Len(y) /\ 2 * h \in 1 .. Len(y) /\ 2 * h - 1 # 2 * h
        BY <1>2, <1>5, <3>2
      <4>3. y[2 * h - 1] = y[2 * h]
        BY <4>1
      <4> QED
        BY <4>2, <4>3 DEF IsNodes
    <3> QED
      BY <1>5, <1>7, <2>1, <3>1, <3>2
  <2> QED
    BY <2>1
<1>10. ASSUME NEW j \in 1 .. n PROVE x[j] = y[j]
  <2>1. PICK i \in 1 .. h : j = 2 * i \/ j = 2 * i - 1
    <3>1. PICK i \in 1 .. h : i = (j + 1) \div 2
      BY <1>5
    <3> QED
      BY <3>1
  <2> QED
    BY <1>8, <1>9, <2>1
<1>11. x = [i \in 1 .. n |-> x[i]]
  BY <1>1, NodesAre
<1>12. y = [i \in 1 .. n |-> y[i]]
  BY <1>2, <1>9, NodesAre
<1> QED
  BY <1>10, <1>11, <1>12

(* All the rounds have nodes, and after enough of them one. *)
LEMMA LevelsAre ==
    ASSUME NEW x, IsNodes(x), NEW m \in Nat, NEW f, IsLevels(f, x, m)
    PROVE  /\ \A k \in 0 .. m : IsNodes(f[k])
           /\ \A k \in 0 .. m : Len(f[k]) = 1 \/ Len(f[k]) + k <= Len(x)
<1>1. PICK n \in Nat \ {0} : n = Len(x)
  BY NodesAre
<1>2. f[0] = x /\ \A k \in 1 .. m : f[k] = NextLevel(f[k - 1])
  BY DEF IsLevels
<1>3. PICK T : T = {k \in 0 .. m : ~ (IsNodes(f[k]) /\ (Len(f[k]) = 1 \/ Len(f[k]) + k <= n))}
  OBVIOUS
<1>4. T = {}
  <2> SUFFICES ASSUME T # {} PROVE FALSE
    OBVIOUS
  <2>1. T \subseteq Nat
    BY <1>3
  <2>2. PICK k \in T : \A j \in T : k <= j
    BY <2>1, LeastNat
  <2>3. k \in 0 .. m /\ k # 0
    BY <1>1, <1>2, <1>3
  <2>4. k - 1 \in 0 .. m /\ k - 1 \notin T
    BY <2>2, <2>3
  <2>5. PICK y : y = f[k - 1]
    OBVIOUS
  <2>6. IsNodes(y) /\ (Len(y) = 1 \/ Len(y) + (k - 1) <= n)
    BY <1>3, <2>4, <2>5
  <2>7. PICK a \in Nat \ {0} : a = Len(y)
    BY <2>6, NodesAre
  <2>8. PICK h : h = (a + 1) \div 2
    OBVIOUS
  <2>9. f[k] = NextLevel(y) /\ IsNodes(f[k]) /\ Len(f[k]) = h
    <3>1. f[k] = NextLevel(y)
      BY <1>2, <2>3, <2>5
    <3>2. IsNodes(NextLevel(y)) /\ Len(NextLevel(y)) = h
      BY <2>6, <2>7, <2>8, NextIs
    <3> QED
      BY <3>1, <3>2
  <2>10. h \in Nat \ {0} /\ h <= a /\ (a > 1 => h < a)
    BY <2>8, HalfIs
  <2>11. h = 1 \/ h + k <= n
    <3>1. CASE a = 1
      BY <2>10, <3>1
    <3>2. CASE a # 1
      BY <1>1, <2>3, <2>6, <2>7, <2>10, <3>2
    <3> QED
      BY <3>1, <3>2
  <2> QED
    BY <1>3, <2>2, <2>9, <2>11
<1> QED
  BY <1>1, <1>3, <1>4

LEMMA ReduceIs ==
    ASSUME NEW x, IsNodes(x)
    PROVE  \E m \in Nat : \E f : \E k \in 0 .. m : /\ IsLevels(f, x, m) /\ IsNodes(f[k])
                                               /\ Len(f[k]) = 1 /\ ReduceNodes(x) = f[k][1]
<1>1. PICK n \in Nat \ {0} : n = Len(x)
  BY NodesAre
<1>2. PICK f : f = CHOOSE g : IsLevels(g, x, n)
  OBVIOUS
<1>3. IsLevels(f, x, n)
  BY <1>2, LevelsExist
<1>4. ReduceNodes(x) = f[CHOOSE c \in 0 .. n : Len(f[c]) = 1 /\ \A j \in 0 .. c - 1 : Len(f[j]) > 1][1]
  BY <1>1, <1>2 DEF ReduceNodes, IsLevels
<1>5. \A k \in 0 .. n : IsNodes(f[k]) /\ Len(f[k]) \in Nat \ {0}
  BY <1>3, LevelsAre, NodesAre
<1>6. PICK T : T = {k \in 0 .. n : Len(f[k]) = 1}
  OBVIOUS
<1>7. T # {} /\ T \subseteq Nat
  <2>1. Len(f[n]) = 1
    BY <1>1, <1>3, <1>5, LevelsAre
  <2> QED
    BY <1>6, <2>1
<1>8. PICK t \in T : \A j \in T : t <= j
  BY <1>7, LeastNat
<1>9. t \in 0 .. n /\ Len(f[t]) = 1 /\ \A j \in 0 .. t - 1 : Len(f[j]) > 1
  <2>1. t \in 0 .. n /\ Len(f[t]) = 1
    BY <1>6
  <2>2. ASSUME NEW j \in 0 .. t - 1 PROVE Len(f[j]) > 1
    <3>1. j \in 0 .. n /\ j \notin T
      BY <1>8, <2>1
    <3>2. PICK a : a = Len(f[j])
      OBVIOUS
    <3>3. a \in Nat \ {0} /\ a # 1
      BY <1>5, <1>6, <3>1, <3>2
    <3>4. a > 1
      BY <3>3
    <3> QED
      BY ONLY <3>2, <3>4
  <2> QED
    BY <2>1, <2>2
<1>10. PICK k : k = CHOOSE c \in 0 .. n : Len(f[c]) = 1 /\ \A j \in 0 .. c - 1 : Len(f[j]) > 1
  OBVIOUS
<1>11. k \in 0 .. n /\ Len(f[k]) = 1
  BY <1>9, <1>10
<1> QED
  BY <1>3, <1>4, <1>5, <1>10, <1>11

(* A leaf is not a pair. *)
LEMMA LeafIsNoPair ==
    ASSUME NEW i, NEW leaf, IsBytes(leaf), NEW a, NEW b
    PROVE  LeafNode(i, leaf) # PairHash(a, b)
<1>1. PICK p, q, r : p = U64(i) /\ q = Raw(32, a) /\ r = Raw(32, b)
  OBVIOUS
<1>2. /\ IsBytes(p) /\ p.length = 8 /\ p.words[0].width = 8 /\ 0 \in DOMAIN p.words
      /\ IsBytes(q) /\ q.length = 32 /\ q.words[0].width = 32 /\ 0 \in DOMAIN q.words
      /\ IsBytes(r)
  <2>1. /\ p = Word(8, "little", i) /\ q = Word(32, "none", a) /\ r = Word(32, "none", b)
    BY <1>1 DEF U64, Raw
  <2>2. IsBytes(p) /\ p.length = 8 /\ IsBytes(q) /\ q.length = 32 /\ IsBytes(r)
    BY <2>1, WordIs
  <2>3. p.words[0].width = 8 /\ 0 \in DOMAIN p.words
    BY <2>1 DEF Word
  <2>4. q.words[0].width = 32 /\ 0 \in DOMAIN q.words
    BY <2>1 DEF Word
  <2> QED
    BY <2>2, <2>3, <2>4
<1>3. (p ++ leaf).words[0] = p.words[0] /\ (q ++ r).words[0] = q.words[0]
  BY <1>2 DEF ++
<1>4. p ++ leaf # q ++ r
  BY <1>2, <1>3
<1> QED
  BY <1>1, <1>4 DEF LeafNode, PairHash, HashBytes

(* The nodes over the bytes of identifiers. *)
IdNodes(ids) == [i \in DOMAIN ids |-> LeafNode(i - 1, IdBytes(ids[i]))]

LEMMA LeafBinds ==
    ASSUME NEW i, NEW j, NEW a \in Identifiers, NEW b \in Identifiers,
           LeafNode(i, IdBytes(a)) = LeafNode(j, IdBytes(b))
    PROVE  i = j /\ a = b
<1>1. PICK p, q, x, y : p = U64(i) /\ q = U64(j) /\ x = IdBytes(a) /\ y = IdBytes(b)
  OBVIOUS
<1>2. p ++ x = q ++ y
  BY <1>1 DEF LeafNode, HashBytes
<1>3. /\ IsBytes(p) /\ p.length = 8 /\ Read(p, 0, 8, "little") = i
      /\ IsBytes(q) /\ q.length = 8 /\ Read(q, 0, 8, "little") = j
  BY <1>1, WordIs DEF U64
<1>4. /\ IsBytes(x) /\ x.length = 40 /\ BlobIdentifierFromBytes(x) = a
      /\ IsBytes(y) /\ y.length = 40 /\ BlobIdentifierFromBytes(y) = b
  BY <1>1, IdIs
<1>5. Read(p ++ x, 0, 8, "little") = i /\ Read(q ++ y, 0, 8, "little") = j
  BY <1>3, <1>4, ReadLeft
<1>6. Slice(p ++ x, 8 + 0, 40) = Slice(x, 0, 40) /\ Slice(q ++ y, 8 + 0, 40) = Slice(y, 0, 40)
  BY <1>3, <1>4, SliceRight
<1>7. Slice(x, 0, 40) = x /\ Slice(y, 0, 40) = y
  BY <1>4, SliceWhole
<1>8. x = y
  BY <1>2, <1>6, <1>7
<1> QED
  BY <1>2, <1>4, <1>5, <1>8

LEMMA IdNodesAre ==
    ASSUME NEW ids \in Seq(Identifiers), ids # <<>>
    PROVE  IsNodes(IdNodes(ids)) /\ DOMAIN IdNodes(ids) = DOMAIN ids
<1>1. PICK n \in Nat \ {0} : n = Len(ids) /\ DOMAIN ids = 1 .. n
  OBVIOUS
<1>2. PICK x : x = IdNodes(ids)
  OBVIOUS
<1>3. x = [i \in 1 .. n |-> LeafNode(i - 1, IdBytes(ids[i]))]
  BY <1>1, <1>2 DEF IdNodes
<1>4. PICK S : S = {x[i] : i \in 1 .. n}
  OBVIOUS
<1>5. x \in [1 .. n -> S]
  BY <1>3, <1>4
<1>6. x \in Seq(S) /\ Len(x) = n
  BY <1>5
<1>7. ASSUME NEW i \in 1 .. n, NEW j \in 1 .. n, x[i] = x[j] PROVE i = j
  <2>1. LeafNode(i - 1, IdBytes(ids[i])) = LeafNode(j - 1, IdBytes(ids[j]))
    BY <1>3, <1>7
  <2>2. ids[i] \in Identifiers /\ ids[j] \in Identifiers
    BY <1>1
  <2>3. i - 1 = j - 1
    BY <2>1, <2>2, LeafBinds
  <2> QED
    BY <2>3
<1>8. IsNodes(x)
  BY <1>6, <1>7 DEF IsNodes
<1> QED
  BY <1>1, <1>2, <1>3, <1>8

(* Two lists with a common level are the same: levels are followed down to the leaves, *)
(* which are not pairs.                                                                *)
LEMMA LevelBinds ==
    ASSUME NEW a \in Seq(Identifiers), NEW b \in Seq(Identifiers), a # <<>>, b # <<>>,
           NEW m \in Nat, NEW f, IsLevels(f, IdNodes(a), m),
           NEW n \in Nat, NEW g, IsLevels(g, IdNodes(b), n),
           NEW k \in 0 .. m, NEW l \in 0 .. n, f[k] = g[l]
    PROVE  IdNodes(a) = IdNodes(b)
<1>1. /\ IsNodes(IdNodes(a)) /\ DOMAIN IdNodes(a) = DOMAIN a
      /\ IsNodes(IdNodes(b)) /\ DOMAIN IdNodes(b) = DOMAIN b
  BY IdNodesAre
<1>2. /\ f[0] = IdNodes(a) /\ \A i \in 1 .. m : f[i] = NextLevel(f[i - 1])
      /\ g[0] = IdNodes(b) /\ \A i \in 1 .. n : g[i] = NextLevel(g[i - 1])
  BY DEF IsLevels
<1>3. (\A i \in 0 .. m : IsNodes(f[i])) /\ (\A i \in 0 .. n : IsNodes(g[i]))
  BY <1>1, LevelsAre
<1>4. PICK T : T = {i \in 0 .. m : \E j \in 0 .. n : f[i] = g[j]}
  OBVIOUS
<1>5. T \subseteq Nat /\ T # {}
  BY <1>4
<1>6. PICK i \in T : \A j \in T : i <= j
  BY <1>5, LeastNat
<1>7. PICK j \in 0 .. n : f[i] = g[j]
  BY <1>4, <1>6
<1>8. i \in 0 .. m
  BY <1>4, <1>6
<1>9. ASSUME NEW x, IsNodes(x), NEW ids \in Seq(Identifiers), ids # <<>>
      PROVE  NextLevel(x) # IdNodes(ids)
  <2>1. PICK c \in Nat \ {0} : c = Len(x)
    BY <1>9, NodesAre
  <2>2. PICK h : h = (c + 1) \div 2
    OBVIOUS
  <2>3. 1 \in 1 .. h
    BY <2>1, <2>2, HalfIs
  <2>4. NextLevel(x)[1] = PairHash(x[2 * 1 - 1], IF 2 * 1 <= c THEN x[2 * 1] ELSE x[2 * 1 - 1])
    BY <1>9, <2>1, <2>2, <2>3, NextIs
  <2>5. 1 \in DOMAIN ids /\ ids[1] \in Identifiers
    BY <1>9
  <2>6. IdNodes(ids)[1] = LeafNode(1 - 1, IdBytes(ids[1])) /\ IsBytes(IdBytes(ids[1]))
    BY <2>5, IdIs DEF IdNodes
  <2> QED
    BY <2>4, <2>6, LeafIsNoPair
<1>10. CASE i = 0 /\ j = 0
  BY <1>2, <1>7, <1>10
<1>11. CASE i = 0 /\ j # 0
  <2>1. g[j] = NextLevel(g[j - 1]) /\ IsNodes(g[j - 1])
    BY <1>2, <1>3, <1>7, <1>11
  <2> QED
    BY <1>2, <1>7, <1>9, <1>11, <2>1
<1>12. CASE i # 0 /\ j = 0
  <2>1. f[i] = NextLevel(f[i - 1]) /\ IsNodes(f[i - 1])
    BY <1>2, <1>3, <1>8, <1>12
  <2> QED
    BY <1>2, <1>7, <1>9, <1>12, <2>1
<1>13. CASE i # 0 /\ j # 0
  <2>1. /\ f[i] = NextLevel(f[i - 1]) /\ IsNodes(f[i - 1])
        /\ g[j] = NextLevel(g[j - 1]) /\ IsNodes(g[j - 1])
    BY <1>2, <1>3, <1>7, <1>8, <1>13
  <2>2. f[i - 1] = g[j - 1]
    BY <1>7, <2>1, NextBinds
  <2>3. i - 1 \in T
    BY <1>4, <1>7, <1>8, <1>13, <2>2
  <2> QED
    BY <1>6, <1>8, <2>3
<1> QED
  BY <1>10, <1>11, <1>12, <1>13

(* Lists of identifiers with the same root are the same list. *)
LEMMA RootOfList ==
    ASSUME NEW ids \in Seq(Identifiers)
    PROVE  BlobIdentifiersMerkleRoot(ids) = IF ids = <<>> THEN Zero ELSE ReduceNodes(IdNodes(ids))
<1>1. PICK n \in Nat : n = Len(ids) /\ DOMAIN ids = 1 .. n
  OBVIOUS
<1>2. PICK encoded : encoded = [i \in DOMAIN ids |-> IdBytes(ids[i])]
  OBVIOUS
<1>3. DOMAIN encoded = 1 .. n /\ \A i \in 1 .. n : encoded[i] = IdBytes(ids[i])
  BY <1>1, <1>2
<1>4. encoded = <<>> <=> ids = <<>>
  <2>1. ids = <<>> <=> n = 0
    BY <1>1
  <2>2. n = 0 => encoded = <<>>
    BY <1>3
  <2>3. n # 0 => encoded # <<>>
    BY <1>3
  <2> QED
    BY <2>1, <2>2, <2>3
<1>5. [i \in DOMAIN encoded |-> LeafNode(i - 1, encoded[i])] = IdNodes(ids)
  BY <1>1, <1>3 DEF IdNodes
<1>6. BlobIdentifiersMerkleRoot(ids) = CalculateMerkleRoot(encoded)
  BY <1>2 DEF BlobIdentifiersMerkleRoot
<1> QED
  BY <1>4, <1>5, <1>6 DEF CalculateMerkleRoot

LEMMA RootIsHash ==
    ASSUME NEW ids \in Seq(Identifiers), ids # <<>>
    PROVE  \E m \in Nat : \E f : \E k \in 0 .. m :
             /\ IsLevels(f, IdNodes(ids), m) /\ f[k] = <<ReduceNodes(IdNodes(ids))>>
<1>1. IsNodes(IdNodes(ids))
  BY IdNodesAre
<1>2. PICK m \in Nat : \E f : \E k \in 0 .. m : /\ IsLevels(f, IdNodes(ids), m) /\ IsNodes(f[k])
        /\ Len(f[k]) = 1 /\ ReduceNodes(IdNodes(ids)) = f[k][1]
  BY <1>1, ReduceIs
<1>3. PICK f : \E k \in 0 .. m : /\ IsLevels(f, IdNodes(ids), m) /\ IsNodes(f[k])
        /\ Len(f[k]) = 1 /\ ReduceNodes(IdNodes(ids)) = f[k][1]
  BY <1>2
<1>4. PICK k \in 0 .. m : /\ IsLevels(f, IdNodes(ids), m) /\ IsNodes(f[k])
        /\ Len(f[k]) = 1 /\ ReduceNodes(IdNodes(ids)) = f[k][1]
  BY <1>3
<1>5. f[k] = <<f[k][1]>>
  <2>1. PICK y : y = f[k]
    OBVIOUS
  <2>2. PICK S : y \in Seq(S)
    BY <1>4, <2>1 DEF IsNodes
  <2>3. y = <<y[1]>>
    BY <1>4, <2>1, <2>2
  <2> QED
    BY <2>1, <2>3
<1> QED
  BY <1>4, <1>5

LEMMA RootBindsList ==
    ASSUME NEW a \in Seq(Identifiers), NEW b \in Seq(Identifiers),
           BlobIdentifiersMerkleRoot(a) = BlobIdentifiersMerkleRoot(b)
    PROVE  a = b
<1>1. ASSUME NEW ids \in Seq(Identifiers), ids # <<>> PROVE ReduceNodes(IdNodes(ids)) # Zero
  <2>1. PICK m \in Nat : \E f : \E k \in 0 .. m :
             /\ IsLevels(f, IdNodes(ids), m) /\ f[k] = <<ReduceNodes(IdNodes(ids))>>
    BY <1>1, RootIsHash
  <2>2. PICK f : \E k \in 0 .. m :
             /\ IsLevels(f, IdNodes(ids), m) /\ f[k] = <<ReduceNodes(IdNodes(ids))>>
    BY <2>1
  <2>3. PICK k \in 0 .. m : /\ IsLevels(f, IdNodes(ids), m) /\ f[k] = <<ReduceNodes(IdNodes(ids))>>
    BY <2>2
  <2>4. f[k][1] = ReduceNodes(IdNodes(ids))
    BY <2>3
  <2>5. IsNodes(IdNodes(ids))
    BY <1>1, IdNodesAre
  <2>6. \E hashed : f[k][1] = HashBytes(hashed)
    <3>1. CASE k = 0
      <4>1. f[k] = IdNodes(ids)
        BY <2>3, <3>1 DEF IsLevels
      <4>2. 1 \in DOMAIN ids
        BY <1>1
      <4>3. f[k][1] = LeafNode(1 - 1, IdBytes(ids[1]))
        BY <4>1, <4>2 DEF IdNodes
      <4> QED
        BY <4>3 DEF LeafNode
    <3>2. CASE k # 0
      <4>1. PICK x : x = f[k - 1]
        OBVIOUS
      <4>2. f[k] = NextLevel(x)
        BY <2>3, <3>2, <4>1 DEF IsLevels
      <4>3. IsNodes(x)
        <5>1. k - 1 \in 0 .. m
          BY <3>2
        <5> QED
          BY <2>3, <2>5, <4>1, <5>1, LevelsAre
      <4>4. PICK c \in Nat \ {0} : c = Len(x)
        BY <4>3, NodesAre
      <4>5. PICK h : h = (c + 1) \div 2
        OBVIOUS
      <4>6. 1 \in 1 .. h
        BY <4>4, <4>5, HalfIs
      <4>7. f[k][1] = PairHash(x[2 * 1 - 1], IF 2 * 1 <= c THEN x[2 * 1] ELSE x[2 * 1 - 1])
        BY <4>2, <4>3, <4>4, <4>5, <4>6, NextIs
      <4> QED
        BY <4>7 DEF PairHash
    <3> QED
      BY <3>1, <3>2
  <2>7. PICK hashed : f[k][1] = HashBytes(hashed)
    BY <2>6
  <2>8. HashBytes(hashed) # Zero
    BY DEF HashBytes, Zero
  <2> QED
    BY <2>4, <2>7, <2>8
<1>2. a = <<>> <=> b = <<>>
  BY <1>1, RootOfList
<1>3. CASE a = <<>>
  BY <1>2, <1>3
<1>4. CASE a # <<>>
  <2>1. b # <<>> /\ ReduceNodes(IdNodes(a)) = ReduceNodes(IdNodes(b))
    BY <1>2, <1>4, RootOfList
  <2>2. PICK m \in Nat : \E f : \E k \in 0 .. m :
             /\ IsLevels(f, IdNodes(a), m) /\ f[k] = <<ReduceNodes(IdNodes(a))>>
    BY <1>4, RootIsHash
  <2>3. PICK n \in Nat : \E g : \E l \in 0 .. n :
             /\ IsLevels(g, IdNodes(b), n) /\ g[l] = <<ReduceNodes(IdNodes(b))>>
    BY <2>1, RootIsHash
  <2>4. PICK f : \E k \in 0 .. m :
             /\ IsLevels(f, IdNodes(a), m) /\ f[k] = <<ReduceNodes(IdNodes(a))>>
    BY <2>2
  <2>5. PICK g : \E l \in 0 .. n :
             /\ IsLevels(g, IdNodes(b), n) /\ g[l] = <<ReduceNodes(IdNodes(b))>>
    BY <2>3
  <2>6. PICK k \in 0 .. m : IsLevels(f, IdNodes(a), m) /\ f[k] = <<ReduceNodes(IdNodes(a))>>
    BY <2>4
  <2>7. PICK l \in 0 .. n : IsLevels(g, IdNodes(b), n) /\ g[l] = <<ReduceNodes(IdNodes(b))>>
    BY <2>5
  <2>8. f[k] = g[l]
    BY <2>1, <2>6, <2>7
  <2>9. IdNodes(a) = IdNodes(b)
    BY <1>4, <2>1, <2>6, <2>7, <2>8, LevelBinds
  <2>10. PICK c \in Nat : c = Len(a) /\ DOMAIN a = 1 .. c
    OBVIOUS
  <2>11. DOMAIN b = 1 .. c /\ Len(b) = c
    <3>1. DOMAIN b = DOMAIN a
      BY <1>4, <2>1, <2>9, IdNodesAre
    <3> QED
      BY <2>10, <3>1
  <2>12. ASSUME NEW i \in 1 .. c PROVE a[i] = b[i]
    <3>1. IdNodes(a)[i] = LeafNode(i - 1, IdBytes(a[i])) /\ IdNodes(b)[i] = LeafNode(i - 1, IdBytes(b[i]))
      BY <2>10, <2>11 DEF IdNodes
    <3>2. a[i] \in Identifiers /\ b[i] \in Identifiers
      BY <2>10, <2>11
    <3>3. LeafNode(i - 1, IdBytes(a[i])) = LeafNode(i - 1, IdBytes(b[i]))
      BY <2>9, <3>1
    <3> QED
      BY <3>2, <3>3, LeafBinds
  <2> QED
    BY <2>10, <2>11, <2>12
<1> QED
  BY <1>3, <1>4

(* The roots of a header belong to the lists of its block and to no others that its height  *)
(* could have had (NewBlockFromHeader, BlobIdentifiersMerkleRoot): CalculateMerkleRoot gives *)
(* different lists different roots, although it repeats the last of an odd number of nodes.  *)
THEOREM RootTheorem == Spec => []RootBinds
<1>1. Init => NodeInv
  BY NodeInitially DEF Init
<1>2. NodeInv /\ [Next]_vars => NodeInv'
  BY NodeStep
<1>3. NodeInv => RootBinds
  <2> SUFFICES ASSUME NodeInv, NEW height \in DOMAIN blocks \ {0}, NEW body \in Bodies[height],
                      NEW other, other = ProduceBlock(height, body),
                      NEW block, block = made[height + 1]
               PROVE  /\ other.header.dirsRoot = block.header.dirsRoot => other.body.dirs = block.body.dirs
                      /\ other.header.filesRoot = block.header.filesRoot => other.body.files = block.body.files
                      /\ other.header.chunksRoot = block.header.chunksRoot => other.body.chunks = block.body.chunks
    BY DEF RootBinds
  <2>1. BlocksMade /\ BlocksStored
    BY DEF NodeInv
  <2>2. Len(made) \in Nat
    BY <2>1, MadeIs
  <2>3. height \in Nat /\ height + 1 \in 1 .. Len(made) /\ height \in 1 .. Len(made) - 1
    BY <2>1, <2>2 DEF BlocksStored
  <2>4. IsBlock(block, height)
    <3>1. PICK k \in 1 .. Len(made) : k = height + 1
      BY <2>3
    <3>2. IsBlock(made[k], k - 1) /\ k - 1 = height
      BY <2>1, <2>3, <3>1 DEF BlocksMade
    <3> QED
      BY <3>1, <3>2
  <2>5. body \in CommitmentBodies
    <3>1. height \in 1 .. Len(Bodies)
      <4>1. finalizedHeight \in Nat /\ finalizedHeight <= Len(Bodies) /\ Len(made) <= 1 + finalizedHeight
        BY <2>1, <2>2 DEF BlocksMade
      <4>2. Len(Bodies) \in Nat /\ height # 0
        BY BodyAssumption
      <4> QED
        BY <2>2, <2>3, <4>1, <4>2
    <3> QED
      BY <3>1, BodyAssumption DEF CommitmentBodies
  <2>6. IsBlock(other, height)
    BY <2>1, <2>3, <2>5, ProducedIs DEF BlocksMade
  <2> QED
    BY <2>4, <2>6, RootBindsList DEF IsBlock, IdBodies
<1> QED
  BY <1>1, <1>2, <1>3, PTL DEF Spec
=============================================================================
