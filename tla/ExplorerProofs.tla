--------------------------- MODULE ExplorerProofs ----------------------------
(***************************************************************************)
(* Proofs about the indexer, with the explorer reading its database: for   *)
(* every chain of blocks, every flag --start-height, and every pattern of  *)
(* kills, failed statements and broken streams.                            *)
(***************************************************************************)
EXTENDS Explorer, FiniteSetTheorems, TLAPS

-----------------------------------------------------------------------------
(* Types of the indexer's variables. *)
IndexerTypeOK ==
    /\ finalizedHeight \in 0 .. MaxHeight /\ startHeight \in StartHeights
    /\ pc \in {"subscribe", "history", "recv", "index"} /\ live \in BOOLEAN
    /\ lastIndexed \in Nat /\ position \in Nat /\ published \in Nat /\ until \in Nat
    /\ height \in Nat /\ item \in Nat /\ row \in Nat /\ used \in Nat /\ failures \in Nat
    /\ DOMAIN storageUsed \subseteq Heights
    /\ \A h \in DOMAIN storageUsed : storageUsed[h] \in Nat

(* The blocks above the flag that have a row are the first n. *)
Indexed(n) ==
    {h \in DOMAIN storageUsed : h > startHeight} = startHeight + 1 .. startHeight + n

(* What was published before the handler subscribed is part of the history it sends. *)
StreamInv ==
    /\ until <= finalizedHeight
    /\ pc = "history" => ~live /\ published <= finalizedHeight
    /\ pc \in {"recv", "index"} => published <= until

(* Neither the last indexed height nor the stream is ahead of the rows, so that the next *)
(* header is of a block that has a row, or at or below the flag, or of the first block *)
(* above it that has none. *)
PositionInv ==
    /\ \E n \in Nat :
         /\ Indexed(n)
         /\ lastIndexed <= startHeight + n
         /\ pc # "subscribe" => position <= startHeight + n
    /\ pc = "index" => /\ height = position /\ height \in DOMAIN storageUsed
                       /\ item \in 1 .. Len(Items(height)) + 1 /\ row > 0
    /\ pc # "index" => height = 0

-----------------------------------------------------------------------------
(* Facts about the operators. *)

(* A list has a length. *)
LEMMA ListType ==
    ASSUME NEW s, IsList(s)
    PROVE  Len(s) \in Nat /\ DOMAIN s = 1 .. Len(s)
BY DEF IsList

LEMMA FunctionIsSeq ==
    ASSUME NEW S, NEW n \in Nat, NEW s, DOMAIN s = 1 .. n, s = [i \in 1 .. n |-> s[i]],
           \A i \in 1 .. n : s[i] \in S
    PROVE  s \in Seq(S) /\ Len(s) = n
<1>1. s \in Seq(S)
  OBVIOUS
<1> QED
  BY <1>1

LEMMA ConcatIs ==
    ASSUME NEW S, NEW s \in Seq(S), NEW u \in Seq(S), NEW m, NEW n, m = Len(s), n = Len(u)
    PROVE  /\ m \in Nat /\ n \in Nat
           /\ s \o u \in Seq(S) /\ Len(s \o u) = m + n /\ DOMAIN (s \o u) = 1 .. (m + n)
           /\ \A i \in 1 .. m : (s \o u)[i] = s[i]
           /\ \A i \in 1 .. n : (s \o u)[m + i] = u[i]
<1>1. m \in Nat /\ n \in Nat
  OBVIOUS
<1>2. \A i \in 1 .. (m + n) : (s \o u)[i] = IF i <= m THEN s[i] ELSE u[i - m]
  OBVIOUS
<1>3. \A i \in 1 .. m : i \in 1 .. (m + n)
  BY <1>1
<1>4. \A i \in 1 .. n : m + i \in 1 .. (m + n) /\ ~(m + i <= m) /\ (m + i) - m = i
  BY <1>1
<1>5. \A i \in 1 .. m : (s \o u)[i] = s[i]
  BY <1>1, <1>2, <1>3
<1>6. \A i \in 1 .. n : (s \o u)[m + i] = u[i]
  BY <1>1, <1>2, <1>4
<1>7. s \o u \in Seq(S) /\ Len(s \o u) = m + n /\ DOMAIN (s \o u) = 1 .. (m + n)
  OBVIOUS
<1> QED
  BY <1>1, <1>5, <1>6, <1>7

ItemSet ==
    [kind : {"chunk"}, id : UNION {{Body[h].chunks[i] : i \in DOMAIN Body[h].chunks} : h \in Heights}]
      \cup [kind : {"file"}, id : DOMAIN ChunksOf] \cup [kind : {"dir"}, id : DOMAIN FilesOf]

(* What indexBlock visits: the chunks, then the files, then the directories. *)
LEMMA ItemsAre ==
    ASSUME NEW h \in Heights
    PROVE  \E nc, nf, nd \in Nat :
             /\ DOMAIN Body[h].chunks = 1 .. nc /\ DOMAIN Body[h].files = 1 .. nf
             /\ DOMAIN Body[h].dirs = 1 .. nd
             /\ Len(Items(h)) = nc + nf + nd /\ DOMAIN Items(h) = 1 .. (nc + nf + nd)
             /\ \A i \in 1 .. nc : Items(h)[i] = [kind |-> "chunk", id |-> Body[h].chunks[i]]
             /\ \A i \in 1 .. nf : Items(h)[nc + i] = [kind |-> "file", id |-> Body[h].files[i]]
             /\ \A i \in 1 .. nd : Items(h)[nc + nf + i] = [kind |-> "dir", id |-> Body[h].dirs[i]]
<1>1. PICK bc, bf, bd : bc = Body[h].chunks /\ bf = Body[h].files /\ bd = Body[h].dirs
  OBVIOUS
<1>2. PICK nc, nf, nd : nc = Len(bc) /\ nf = Len(bf) /\ nd = Len(bd)
  OBVIOUS
<1>3. /\ nc \in Nat /\ nf \in Nat /\ nd \in Nat
      /\ DOMAIN bc = 1 .. nc /\ DOMAIN bf = 1 .. nf /\ DOMAIN bd = 1 .. nd
  BY <1>1, <1>2, BodyAssumption, ListType
<1>4. PICK c, f, d : c = Tagged("chunk", bc) /\ f = Tagged("file", bf) /\ d = Tagged("dir", bd)
  OBVIOUS
<1>5. /\ c = [i \in 1 .. nc |-> [kind |-> "chunk", id |-> bc[i]]]
      /\ f = [i \in 1 .. nf |-> [kind |-> "file", id |-> bf[i]]]
      /\ d = [i \in 1 .. nd |-> [kind |-> "dir", id |-> bd[i]]]
  BY <1>3, <1>4 DEF Tagged
<1>6. PICK S : /\ \A i \in 1 .. nc : [kind |-> "chunk", id |-> bc[i]] \in S
               /\ \A i \in 1 .. nf : [kind |-> "file", id |-> bf[i]] \in S
               /\ \A i \in 1 .. nd : [kind |-> "dir", id |-> bd[i]] \in S
  <2> WITNESS {[kind |-> "chunk", id |-> bc[i]] : i \in 1 .. nc}
                \cup {[kind |-> "file", id |-> bf[i]] : i \in 1 .. nf}
                \cup {[kind |-> "dir", id |-> bd[i]] : i \in 1 .. nd}
  <2> QED
    OBVIOUS
<1>7. c \in Seq(S) /\ f \in Seq(S) /\ d \in Seq(S) /\ Len(c) = nc /\ Len(f) = nf /\ Len(d) = nd
  <2>1. c \in Seq(S) /\ Len(c) = nc
    <3>1. DOMAIN c = 1 .. nc /\ c = [i \in 1 .. nc |-> c[i]] /\ \A i \in 1 .. nc : c[i] \in S
      BY <1>5, <1>6
    <3> QED
      BY <1>3, <3>1, FunctionIsSeq
  <2>2. f \in Seq(S) /\ Len(f) = nf
    <3>1. DOMAIN f = 1 .. nf /\ f = [i \in 1 .. nf |-> f[i]] /\ \A i \in 1 .. nf : f[i] \in S
      BY <1>5, <1>6
    <3> QED
      BY <1>3, <3>1, FunctionIsSeq
  <2>3. d \in Seq(S) /\ Len(d) = nd
    <3>1. DOMAIN d = 1 .. nd /\ d = [i \in 1 .. nd |-> d[i]] /\ \A i \in 1 .. nd : d[i] \in S
      BY <1>5, <1>6
    <3> QED
      BY <1>3, <3>1, FunctionIsSeq
  <2> QED
    BY <2>1, <2>2, <2>3
<1>8. PICK cf, all : cf = c \o f /\ all = cf \o d
  OBVIOUS
<1>9. /\ cf \in Seq(S) /\ Len(cf) = nc + nf
      /\ \A i \in 1 .. nc : cf[i] = c[i]
      /\ \A i \in 1 .. nf : cf[nc + i] = f[i]
  BY <1>7, <1>8, ConcatIs
<1>10. /\ all \in Seq(S) /\ Len(all) = nc + nf + nd /\ DOMAIN all = 1 .. (nc + nf + nd)
       /\ \A i \in 1 .. (nc + nf) : all[i] = cf[i]
       /\ \A i \in 1 .. nd : all[nc + nf + i] = d[i]
  <2>1. PICK m : m = nc + nf
    OBVIOUS
  <2>2. /\ all \in Seq(S) /\ Len(all) = m + nd /\ DOMAIN all = 1 .. (m + nd)
        /\ \A i \in 1 .. m : all[i] = cf[i]
        /\ \A i \in 1 .. nd : all[m + i] = d[i]
    <3>1. cf \in Seq(S) /\ d \in Seq(S) /\ m = Len(cf) /\ nd = Len(d)
      BY <1>7, <1>9, <2>1
    <3> QED
      BY <1>8, <3>1, ConcatIs
  <2> QED
    BY <2>1, <2>2
<1>11. \A i \in 1 .. nc : all[i] = [kind |-> "chunk", id |-> bc[i]]
  <2> SUFFICES ASSUME NEW i \in 1 .. nc PROVE all[i] = [kind |-> "chunk", id |-> bc[i]]
    OBVIOUS
  <2>1. i \in 1 .. (nc + nf)
    BY <1>3
  <2>2. all[i] = c[i]
    BY <1>9, <1>10, <2>1
  <2> QED
    BY <1>5, <2>2
<1>12. \A i \in 1 .. nf : all[nc + i] = [kind |-> "file", id |-> bf[i]]
  <2> SUFFICES ASSUME NEW i \in 1 .. nf PROVE all[nc + i] = [kind |-> "file", id |-> bf[i]]
    OBVIOUS
  <2>1. nc + i \in 1 .. (nc + nf)
    BY <1>3
  <2>2. all[nc + i] = f[i]
    BY <1>9, <1>10, <2>1
  <2> QED
    BY <1>5, <2>2
<1>13. \A i \in 1 .. nd : all[nc + nf + i] = [kind |-> "dir", id |-> bd[i]]
  BY <1>5, <1>10
<1>14. all = Items(h)
  <2>1. BlockItems[h] = Tagged("chunk", bc) \o Tagged("file", bf) \o Tagged("dir", bd)
    BY <1>1 DEF BlockItems
  <2> QED
    BY <1>4, <1>8, <2>1 DEF Items
<1>15. nc \in Nat /\ nf \in Nat /\ nd \in Nat
  BY <1>3
<1>16. /\ DOMAIN Body[h].chunks = 1 .. nc /\ DOMAIN Body[h].files = 1 .. nf
       /\ DOMAIN Body[h].dirs = 1 .. nd
       /\ Len(Items(h)) = nc + nf + nd /\ DOMAIN Items(h) = 1 .. (nc + nf + nd)
  BY <1>1, <1>3, <1>10, <1>14
<1>17. /\ \A i \in 1 .. nc : Items(h)[i] = [kind |-> "chunk", id |-> Body[h].chunks[i]]
       /\ \A i \in 1 .. nf : Items(h)[nc + i] = [kind |-> "file", id |-> Body[h].files[i]]
       /\ \A i \in 1 .. nd : Items(h)[nc + nf + i] = [kind |-> "dir", id |-> Body[h].dirs[i]]
  BY <1>1, <1>11, <1>12, <1>13, <1>14
<1> QED
  BY <1>15, <1>16, <1>17, Zenon

LEMMA ItemsType ==
    ASSUME NEW h \in Heights
    PROVE  /\ Len(Items(h)) \in Nat /\ DOMAIN Items(h) = 1 .. Len(Items(h))
           /\ \A i \in DOMAIN Items(h) : Items(h)[i] \in ItemSet
<1>1. PICK nc \in Nat, nf \in Nat, nd \in Nat :
        /\ DOMAIN Body[h].chunks = 1 .. nc /\ DOMAIN Body[h].files = 1 .. nf
        /\ DOMAIN Body[h].dirs = 1 .. nd
        /\ Len(Items(h)) = nc + nf + nd /\ DOMAIN Items(h) = 1 .. (nc + nf + nd)
        /\ \A i \in 1 .. nc : Items(h)[i] = [kind |-> "chunk", id |-> Body[h].chunks[i]]
        /\ \A i \in 1 .. nf : Items(h)[nc + i] = [kind |-> "file", id |-> Body[h].files[i]]
        /\ \A i \in 1 .. nd : Items(h)[nc + nf + i] = [kind |-> "dir", id |-> Body[h].dirs[i]]
  BY ItemsAre
<1>2. ASSUME NEW i \in DOMAIN Items(h) PROVE Items(h)[i] \in ItemSet
  <2>1. CASE i <= nc
    <3>1. i \in 1 .. nc
      BY <1>1, <2>1
    <3>2. Items(h)[i] = [kind |-> "chunk", id |-> Body[h].chunks[i]]
      BY <1>1, <3>1
    <3>3. Body[h].chunks[i] \in UNION {{Body[g].chunks[j] : j \in DOMAIN Body[g].chunks} : g \in Heights}
      BY <1>1, <3>1
    <3> QED
      BY <3>2, <3>3 DEF ItemSet
  <2>2. CASE i > nc /\ i <= nc + nf
    <3>1. PICK j : j = i - nc
      OBVIOUS
    <3>2. j \in 1 .. nf /\ i = nc + j
      BY <1>1, <2>2, <3>1
    <3>3. Items(h)[i] = [kind |-> "file", id |-> Body[h].files[j]]
      BY <1>1, <3>2
    <3>4. Body[h].files[j] \in DOMAIN ChunksOf
      BY <1>1, <3>2, BodyAssumption
    <3> QED
      BY <3>3, <3>4 DEF ItemSet
  <2>3. CASE i > nc + nf
    <3>1. PICK j : j = i - (nc + nf)
      OBVIOUS
    <3>2. j \in 1 .. nd /\ i = nc + nf + j
      BY <1>1, <2>3, <3>1
    <3>3. Items(h)[i] = [kind |-> "dir", id |-> Body[h].dirs[j]]
      BY <1>1, <3>2
    <3>4. Body[h].dirs[j] \in DOMAIN FilesOf
      BY <1>1, <3>2, BodyAssumption
    <3> QED
      BY <3>3, <3>4 DEF ItemSet
  <2> QED
    BY <1>1, <2>1, <2>2, <2>3
<1> QED
  BY <1>1, <1>2

(* An item is a chunk, a file or a directory; its references are a list. *)
LEMMA ItemCases ==
    ASSUME NEW it \in ItemSet
    PROVE  /\ Len(References(it)) \in Nat /\ DOMAIN References(it) = 1 .. Len(References(it))
           /\ \/ it.kind = "chunk" /\ References(it) = <<>>
              \/ it.kind = "file" /\ it.id \in DOMAIN ChunksOf /\ References(it) = ChunksOf[it.id]
              \/ it.kind = "dir" /\ it.id \in DOMAIN FilesOf /\ References(it) = FilesOf[it.id]
<1>1. CASE it.kind = "chunk"
  <2>1. References(it) = <<>>
    BY <1>1 DEF References
  <2> QED
    BY <1>1, <2>1
<1>2. CASE it.kind = "file"
  <2>1. References(it) = ChunksOf[it.id] /\ it.id \in DOMAIN ChunksOf
    BY <1>2 DEF References, ItemSet
  <2> QED
    BY <1>2, <2>1, BodyAssumption, ListType
<1>3. CASE it.kind = "dir"
  <2>1. References(it) = FilesOf[it.id] /\ it.id \in DOMAIN FilesOf
    BY <1>3 DEF References, ItemSet
  <2> QED
    BY <1>3, <2>1, BodyAssumption, ListType
<1> QED
  BY <1>1, <1>2, <1>3 DEF ItemSet

(* The client and the handlers only read the database. *)
LEMMA ClientReads == Handlers \/ Get \/ NextPage \/ Leave => UNCHANGED indexerVars
<1>1. \A n, s : Asks(n, s) => UNCHANGED indexerVars
  BY DEF Asks
<1>2. \A n, e : Tolerates(n, e) => UNCHANGED indexerVars
  BY DEF Tolerates
<1>3. \A n : Returns(n) \/ GivesUp(n) => UNCHANGED indexerVars
  BY DEF Returns, GivesUp
<1>4. Handlers => UNCHANGED indexerVars
  BY <1>1, <1>2, <1>3
     DEF Handlers, handleHome, handleBlocks, handleFiles, handleDirectories, HandleListing,
         handleBlockDetails, handleFileDetails, handleDirectoryDetails, handleSearch,
         apiGetBlocks, apiGetAnalytics
<1>5. \A n, a : Requests(n, a) => UNCHANGED indexerVars
  BY DEF Requests
<1>6. Get => UNCHANGED indexerVars
  BY <1>5 DEF Get
<1> QED
  BY <1>4, <1>6 DEF NextPage, Leave

-----------------------------------------------------------------------------
(* No block is skipped. *)

BaseInv == IndexerTypeOK /\ StreamInv /\ PositionInv

LEMMA HeightFacts ==
    ASSUME IndexerTypeOK
    PROVE  /\ MaxHeight \in Nat /\ startHeight \in Nat /\ startHeight <= MaxHeight
           /\ finalizedHeight \in Nat /\ finalizedHeight <= MaxHeight
BY HeightAssumption DEF IndexerTypeOK

LEMMA NewServiceIs ==
    ASSUME IndexerTypeOK, NEW n \in Nat, Indexed(n)
    PROVE  NewIndexerService <= startHeight + n /\ NewIndexerService \in Nat
<1>1. startHeight \in Nat
  BY HeightFacts
<1>2. CASE startHeight # 0
  BY <1>1, <1>2 DEF NewIndexerService
<1>3. CASE startHeight = 0
  <2>1. DOMAIN storageUsed = 1 .. n
    <3>1. \A h \in DOMAIN storageUsed : h \in Nat /\ h > 0
      BY DEF IndexerTypeOK, Heights
    <3>2. {h \in DOMAIN storageUsed : h > 0} = 1 .. n
      BY <1>3 DEF Indexed
    <3> QED
      BY <3>1, <3>2
  <2>2. PICK m : m = CHOOSE h \in {0} \cup DOMAIN storageUsed :
                       \A g \in DOMAIN storageUsed : g <= h
    OBVIOUS
  <2>3. n \in {0} \cup DOMAIN storageUsed /\ \A g \in DOMAIN storageUsed : g <= n
    BY <2>1
  <2>4. m \in {0} \cup DOMAIN storageUsed
    BY <2>2, <2>3
  <2>5. NewIndexerService = m
    BY <1>3, <2>2 DEF NewIndexerService, GetLastIndexedHeight
  <2> QED
    BY <1>3, <2>1, <2>4, <2>5
<1> QED
  BY <1>2, <1>3

LEMMA InitBase == IndexerInit => BaseInv
<1> SUFFICES ASSUME IndexerInit PROVE BaseInv
  OBVIOUS
<1>1. /\ finalizedHeight = 0 /\ startHeight \in StartHeights /\ storageUsed = <<>>
      /\ pc = "subscribe" /\ lastIndexed = NewIndexerService
      /\ position = 0 /\ live = FALSE /\ published = 0 /\ until = 0
      /\ height = 0 /\ item = 0 /\ row = 0 /\ used = 0 /\ failures = 0
  BY DEF IndexerInit
<1>2. startHeight \in Nat /\ MaxHeight \in Nat /\ DOMAIN storageUsed = {}
  BY <1>1, HeightAssumption
<1>3. startHeight + 1 .. startHeight + 0 = {}
  BY <1>2
<1>4. Indexed(0) /\ StreamInv
  BY <1>1, <1>2, <1>3 DEF Indexed, StreamInv
<1>5. NewIndexerService = startHeight
  <2>1. GetLastIndexedHeight = 0
    BY <1>2 DEF GetLastIndexedHeight
  <2> QED
    BY <2>1 DEF NewIndexerService
<1>6. IndexerTypeOK
  <2>1. /\ finalizedHeight \in 0 .. MaxHeight /\ lastIndexed \in Nat
        /\ 0 \in Nat
    BY <1>1, <1>2, <1>5
  <2>2. live \in BOOLEAN
    BY <1>1
  <2> QED
    BY <1>1, <1>2, <2>1, <2>2 DEF IndexerTypeOK
<1>7. startHeight <= startHeight + 0 /\ 0 \in Nat
  BY <1>2
<1>8. PositionInv
  BY <1>1, <1>4, <1>5, <1>7 DEF PositionInv
<1> QED
  BY <1>4, <1>6, <1>8 DEF BaseInv

(* A statement of an item, or its failure. *)
LEMMA ItemStepBase ==
    ASSUME BaseInv, pc = "index", item <= Len(Items(height)),
           UNCHANGED <<node, storageUsed, pc, lastIndexed, streamVars, height>>,
           item' = item \/ item' = item + 1, row' \in Nat \ {0}, used' \in Nat, failures' \in Nat
    PROVE  BaseInv'
<1>1. UNCHANGED <<finalizedHeight, startHeight, position, live, published, until>>
  BY DEF node, streamVars
<1>2. IndexerTypeOK' /\ StreamInv'
  BY <1>1 DEF BaseInv, IndexerTypeOK, StreamInv
<1>3. Items(height)' = Items(height) /\ \A n : Indexed(n)' <=> Indexed(n)
  BY <1>1 DEF Items, Indexed
<1>4. Len(Items(height)) \in Nat
  <2>1. height \in Heights
    BY DEF BaseInv, PositionInv, IndexerTypeOK
  <2> QED
    BY <2>1, ItemsType
<1>5. item' \in 1 .. Len(Items(height)) + 1
  BY <1>4 DEF BaseInv, PositionInv
<1>6. row' > 0
  OBVIOUS
<1>7. PositionInv'
  BY <1>1, <1>3, <1>5, <1>6 DEF BaseInv, PositionInv
<1> QED
  BY <1>2, <1>7 DEF BaseInv

LEMMA AdvanceType ==
    ASSUME BaseInv, Advance
    PROVE  /\ item' = item \/ item' = item + 1
           /\ pc = "index" => row' \in Nat \ {0}
           /\ used' \in Nat
<1>1. item \in Nat /\ row \in Nat /\ used \in Nat
  BY DEF BaseInv, IndexerTypeOK
<1>2. CASE row' = row + 1 /\ UNCHANGED <<item, used>>
  BY <1>1, <1>2
<1>3. CASE item' = item + 1 /\ row' = 1 /\ used' = used + 1
  BY <1>1, <1>3
<1> QED
  BY <1>2, <1>3 DEF Advance

LEMMA ItemsBase ==
    ASSUME BaseInv, indexChunk \/ indexFile \/ indexDirectory \/ ForeignKeyFails \/ ItemFails
    PROVE  BaseInv'
<1>1. item \in Nat /\ row \in Nat /\ used \in Nat /\ failures \in Nat
  BY DEF BaseInv, IndexerTypeOK
<1>2. CASE indexChunk \/ indexFile \/ indexDirectory
  <2>1. /\ pc = "index" /\ item <= Len(Items(height)) /\ Advance
        /\ UNCHANGED <<node, storageUsed, pc, lastIndexed, streamVars, height>>
        /\ failures' = failures
    BY <1>2 DEF indexChunk, indexFile, indexDirectory, AtItem
  <2> QED
    BY <1>1, <2>1, AdvanceType, ItemStepBase
<1>3. CASE ForeignKeyFails \/ ItemFails
  <2>1. /\ pc = "index" /\ item <= Len(Items(height)) /\ SkipItem
        /\ UNCHANGED <<node, storageUsed, pc, lastIndexed, streamVars, height>>
    BY <1>3 DEF ForeignKeyFails, ItemFails, ForeignKeyMissing, AtItem, db
  <2>2. failures' = failures \/ failures' = failures + 1
    BY <1>3 DEF ForeignKeyFails, ItemFails, Fails
  <2>3. failures' \in Nat
    BY <1>1, <2>2
  <2>4. item' = item + 1 /\ row' = 1 /\ used' = used
    BY <2>1 DEF SkipItem
  <2>5. row' \in Nat \ {0} /\ used' \in Nat
    BY <1>1, <2>4
  <2> QED
    BY <2>1, <2>3, <2>4, <2>5, ItemStepBase
<1> QED
  BY <1>2, <1>3

(* The stream ends: the next one starts after the last indexed height. *)
LEMMA StreamEndsBase ==
    ASSUME BaseInv, pc' = "subscribe", CloseStream, UNCHANGED <<node, storageUsed>>,
           EndBlock \/ (pc # "index" /\ UNCHANGED indexing),
           lastIndexed' = lastIndexed \/ lastIndexed' = NewIndexerService,
           failures' \in Nat
    PROVE  BaseInv'
<1>1. /\ UNCHANGED <<finalizedHeight, startHeight>>
      /\ position' = 0 /\ live' = FALSE /\ published' = 0 /\ until' = 0
      /\ height' = 0 /\ item' \in Nat /\ row' \in Nat /\ used' \in Nat
  BY DEF node, CloseStream, EndBlock, indexing, BaseInv, PositionInv, IndexerTypeOK
<1>2. PICK n \in Nat : Indexed(n) /\ lastIndexed <= startHeight + n
  BY DEF BaseInv, PositionInv
<1>3. lastIndexed' <= startHeight + n /\ lastIndexed' \in Nat
  BY <1>2, NewServiceIs DEF BaseInv, IndexerTypeOK
<1>4. IndexerTypeOK' /\ StreamInv'
  <2>1. IndexerTypeOK'
    BY <1>1, <1>3 DEF BaseInv, IndexerTypeOK
  <2>2. 0 <= finalizedHeight' /\ pc' = "subscribe" /\ until' = 0
    BY <1>1, HeightFacts DEF BaseInv
  <2> QED
    BY <2>1, <2>2 DEF StreamInv
<1>5. Indexed(n)'
  BY <1>1, <1>2 DEF Indexed
<1>6. PositionInv'
  BY <1>1, <1>3, <1>5 DEF PositionInv
<1> QED
  BY <1>4, <1>6 DEF BaseInv

(* The next header is of a block of the chain. *)
LEMMA NextHeight ==
    ASSUME BaseInv, HeaderSent
    PROVE  /\ pc = "recv" /\ until <= finalizedHeight /\ position \in Nat
           /\ position + 1 \in Heights
<1>1. /\ pc = "recv" /\ until <= finalizedHeight
      /\ position < until \/ position < finalizedHeight
  BY DEF HeaderSent, BaseInv, StreamInv
<1>2. /\ position \in Nat /\ until \in Nat /\ finalizedHeight \in Nat
      /\ MaxHeight \in Nat /\ finalizedHeight <= MaxHeight
  BY HeightFacts DEF BaseInv, IndexerTypeOK
<1>3. position < MaxHeight
  BY <1>1, <1>2
<1> QED
  BY <1>1, <1>2, <1>3 DEF Heights

LEMMA BeginBlockBase ==
    ASSUME BaseInv, BeginBlock
    PROVE  BaseInv'
<1>1. PICK h : h = position + 1
  OBVIOUS
<1>2. /\ HeaderSent /\ position' = h
      /\ storageUsed' = Upsert(storageUsed, h, 0)
      /\ height' = h /\ item' = 1 /\ row' = 1 /\ used' = 0 /\ pc' = "index"
      /\ UNCHANGED <<finalizedHeight, startHeight, lastIndexed, live, published, until, failures>>
  BY <1>1 DEF BeginBlock, PutBlockIndex, node
<1>0. pc = "recv" /\ until <= finalizedHeight /\ h \in Heights
  BY <1>1, <1>2, NextHeight
<1>3. PICK n \in Nat :
        /\ {k \in DOMAIN storageUsed : k > startHeight} = startHeight + 1 .. startHeight + n
        /\ lastIndexed <= startHeight + n
        /\ position <= startHeight + n
  BY <1>0 DEF BaseInv, PositionInv, Indexed
<1>4. /\ startHeight \in Nat /\ position \in Nat /\ until \in Nat /\ lastIndexed \in Nat
      /\ finalizedHeight <= MaxHeight /\ finalizedHeight \in Nat /\ MaxHeight \in Nat
  BY HeightFacts DEF BaseInv, IndexerTypeOK
<1>5. h \in Heights /\ h \in Nat
  BY <1>0 DEF Heights
<1>6. /\ DOMAIN storageUsed' = DOMAIN storageUsed \cup {h} /\ storageUsed'[h] = 0
      /\ \A k \in DOMAIN storageUsed : k # h => storageUsed'[k] = storageUsed[k]
  BY <1>2 DEF Upsert
<1>7. IndexerTypeOK' /\ StreamInv'
  <2>1. IndexerTypeOK'
    BY <1>2, <1>4, <1>5, <1>6 DEF BaseInv, IndexerTypeOK
  <2>2. StreamInv'
    BY <1>0, <1>2 DEF BaseInv, StreamInv
  <2> QED
    BY <2>1, <2>2
<1>8. Len(Items(height')) \in Nat
  BY <1>2, <1>5, ItemsType
<1>9. item' \in 1 .. Len(Items(height')) + 1 /\ row' > 0
  BY <1>2, <1>8
<1>10. PICK m \in Nat :
         /\ {k \in DOMAIN storageUsed' : k > startHeight} = startHeight + 1 .. startHeight + m
         /\ n <= m /\ h <= startHeight + m
  <2>0. {k \in DOMAIN storageUsed' : k > startHeight}
          = {k \in DOMAIN storageUsed : k > startHeight} \cup {k \in {h} : k > startHeight}
    BY <1>6
  <2>1. CASE position = startHeight + n
    <3>1. h = startHeight + (n + 1) /\ n + 1 \in Nat /\ h > startHeight
      BY <1>1, <1>4, <2>1
    <3>2. startHeight + 1 .. startHeight + (n + 1) = (startHeight + 1 .. startHeight + n) \cup {h}
      BY <1>4, <3>1
    <3>3. n <= n + 1 /\ h <= startHeight + (n + 1)
      BY <1>4, <3>1
    <3>4. {k \in {h} : k > startHeight} = {h}
      BY <3>1
    <3> QED
      BY <1>3, <2>0, <3>1, <3>2, <3>3, <3>4
  <2>2. CASE position # startHeight + n
    <3>1. h <= startHeight + n /\ n <= n
      BY <1>1, <1>3, <1>4, <2>2
    <3>2. h > startHeight => h \in startHeight + 1 .. startHeight + n
      BY <1>4, <1>5, <3>1
    <3>3. {k \in {h} : k > startHeight} \subseteq startHeight + 1 .. startHeight + n
      BY <3>2
    <3> QED
      BY <1>3, <2>0, <3>1, <3>3
  <2> QED
    BY <2>1, <2>2
<1>11. Indexed(m)'
  BY <1>2, <1>10 DEF Indexed
<1>12. lastIndexed' <= startHeight' + m /\ position' <= startHeight' + m
  BY <1>2, <1>3, <1>4, <1>10
<1>13. Items(height)' = Items(height') /\ height' \in DOMAIN storageUsed'
  BY <1>2, <1>6 DEF Items
<1>14. PositionInv'
  <2>1. /\ pc' = "index" /\ height' = position'
    BY <1>2
  <2> QED
    BY <1>9, <1>11, <1>12, <1>13, <2>1 DEF PositionInv
<1> QED
  BY <1>7, <1>14 DEF BaseInv

LEMMA FinishBlockBase ==
    ASSUME BaseInv, FinishBlock
    PROVE  BaseInv'
<1>1. /\ pc = "index" /\ storageUsed' = Upsert(storageUsed, height, used)
      /\ lastIndexed' = height /\ pc' = "recv"
      /\ height' = 0 /\ item' = 0 /\ row' = 0 /\ used' = 0
      /\ UNCHANGED <<finalizedHeight, startHeight, position, live, published, until, failures>>
  BY DEF FinishBlock, PutBlockIndex, EndBlock, node, streamVars
<1>2. height \in DOMAIN storageUsed /\ height = position /\ used \in Nat /\ height \in Nat
  BY <1>1 DEF BaseInv, PositionInv, IndexerTypeOK
<1>3. /\ DOMAIN storageUsed' = DOMAIN storageUsed /\ storageUsed'[height] = used
      /\ \A k \in DOMAIN storageUsed : k # height => storageUsed'[k] = storageUsed[k]
  BY <1>1, <1>2 DEF Upsert
<1>4. IndexerTypeOK' /\ StreamInv'
  BY <1>1, <1>2, <1>3 DEF BaseInv, IndexerTypeOK, StreamInv
<1>5. PICK n \in Nat : Indexed(n) /\ position <= startHeight + n
  BY <1>1 DEF BaseInv, PositionInv
<1>6. Indexed(n)'
  BY <1>1, <1>3, <1>5 DEF Indexed
<1>7. PositionInv'
  BY <1>1, <1>2, <1>5, <1>6 DEF PositionInv
<1> QED
  BY <1>4, <1>7 DEF BaseInv

LEMMA StreamBase ==
    ASSUME BaseInv, SubscribeToHeaders \/ SendHistory \/ GoLive
    PROVE  BaseInv'
<1>1. UNCHANGED <<finalizedHeight, startHeight, storageUsed, lastIndexed, height, item, row,
                  used, failures>>
  BY DEF SubscribeToHeaders, SendHistory, GoLive, node, db, indexing
<1>2. PICK n \in Nat : Indexed(n) /\ lastIndexed <= startHeight + n
                       /\ (pc # "subscribe" => position <= startHeight + n)
  BY DEF BaseInv, PositionInv
<1>3. Indexed(n)' /\ lastIndexed' <= startHeight' + n
  BY <1>1, <1>2 DEF Indexed
<1>4. /\ startHeight \in Nat /\ lastIndexed \in Nat /\ position \in Nat
      /\ finalizedHeight \in Nat /\ published \in Nat /\ until \in Nat
  BY HeightFacts DEF BaseInv, IndexerTypeOK
<1>5. /\ pc' \in {"history", "recv"} /\ pc # "index" /\ live' \in BOOLEAN
      /\ position' <= startHeight + n /\ position' \in Nat
      /\ published' \in Nat /\ until' \in Nat /\ StreamInv'
  <2>1. CASE SubscribeToHeaders
    <3>1. /\ pc = "subscribe" /\ position' = lastIndexed /\ live' = FALSE
          /\ published' \in {finalizedHeight - 1, finalizedHeight} \cap Nat
          /\ until' = 0 /\ pc' = "history"
      BY <2>1 DEF SubscribeToHeaders
    <3>2. published' \in Nat /\ published' <= finalizedHeight' /\ until' <= finalizedHeight'
      BY <1>1, <1>4, <3>1
    <3>3. StreamInv'
      BY <3>1, <3>2 DEF StreamInv
    <3> QED
      BY <1>2, <1>4, <3>1, <3>2, <3>3
  <2>2. CASE SendHistory
    <3>1. /\ pc = "history" /\ pc' = "recv" /\ until' = finalizedHeight
          /\ UNCHANGED <<position, live, published>>
      BY <2>2 DEF SendHistory
    <3>2. live \in BOOLEAN /\ published <= finalizedHeight
      BY <3>1 DEF BaseInv, StreamInv, IndexerTypeOK
    <3>3. StreamInv'
      BY <1>1, <1>4, <3>1, <3>2 DEF StreamInv
    <3> QED
      BY <1>2, <1>4, <3>1, <3>2, <3>3
  <2>3. CASE GoLive
    <3>1. /\ pc = "recv" /\ pc' = pc /\ position >= until
          /\ live' = TRUE /\ position' = published /\ published' = 0 /\ until' = 0
      BY <2>3 DEF GoLive
    <3>2. published <= until
      BY <3>1 DEF BaseInv, StreamInv
    <3>3. position' <= startHeight + n
      BY <1>2, <1>4, <3>1, <3>2
    <3>4. StreamInv'
      BY <1>1, <1>4, <3>1 DEF StreamInv
    <3> QED
      BY <1>4, <3>1, <3>3, <3>4
  <2> QED
    BY <2>1, <2>2, <2>3
<1>6. IndexerTypeOK'
  BY <1>1, <1>5 DEF BaseInv, IndexerTypeOK
<1>7. height' = 0
  BY <1>1, <1>5 DEF BaseInv, PositionInv
<1>8. PositionInv'
  BY <1>1, <1>3, <1>5, <1>7 DEF PositionInv
<1> QED
  BY <1>5, <1>6, <1>8 DEF BaseInv

LEMMA BaseUnchanged ==
    ASSUME BaseInv, finalizedHeight' \in finalizedHeight .. MaxHeight,
           UNCHANGED <<startHeight, storageUsed, pc, lastIndexed, streamVars, indexing, failures>>
    PROVE  BaseInv'
<1>1. UNCHANGED <<position, live, published, until, height, item, row, used>>
  BY DEF streamVars, indexing
<1>2. IndexerTypeOK' /\ StreamInv'
  <2>1. /\ finalizedHeight \in Nat /\ MaxHeight \in Nat
        /\ published \in Nat /\ until \in Nat /\ height \in Nat
    BY HeightFacts DEF BaseInv, IndexerTypeOK
  <2>2. finalizedHeight' \in 0 .. MaxHeight /\ finalizedHeight <= finalizedHeight'
    BY <2>1
  <2>3. IndexerTypeOK'
    BY <1>1, <2>2 DEF BaseInv, IndexerTypeOK
  <2>4. /\ until <= finalizedHeight'
        /\ pc = "history" => ~live /\ published <= finalizedHeight'
    BY <2>1, <2>2 DEF BaseInv, StreamInv
  <2>5. StreamInv'
    BY <1>1, <2>4 DEF BaseInv, StreamInv
  <2> QED
    BY <2>3, <2>5
<1>3. Items(height)' = Items(height) /\ \A n : Indexed(n)' <=> Indexed(n)
  BY <1>1 DEF Items, Indexed
<1>4. PositionInv'
  BY <1>1, <1>3 DEF BaseInv, PositionInv
<1> QED
  BY <1>2, <1>4 DEF BaseInv

LEMMA NextBase == BaseInv /\ [Next]_vars => BaseInv'
<1> SUFFICES ASSUME BaseInv, [Next]_vars PROVE BaseInv'
  OBVIOUS
<1>0. failures \in Nat /\ (Fails => failures' \in Nat)
  BY DEF BaseInv, IndexerTypeOK, Fails
<1>1. CASE Finalize
  <2>1. finalizedHeight' \in finalizedHeight .. MaxHeight
    BY <1>1, HeightFacts DEF Finalize, BaseInv
  <2> QED
    BY <1>1, <2>1, BaseUnchanged DEF Finalize, db
<1>2. CASE SubscribeToHeaders \/ SendHistory \/ GoLive
  BY <1>2, StreamBase
<1>3. CASE BeginBlock \/ FinishBlock
  BY <1>3, BeginBlockBase, FinishBlockBase
<1>4. CASE indexChunk \/ indexFile \/ indexDirectory \/ ForeignKeyFails \/ ItemFails
  BY <1>4, ItemsBase
<1>5. CASE StreamFails \/ BeginBlockFails
  <2>1. /\ pc # "index" /\ pc' = "subscribe" /\ CloseStream
        /\ UNCHANGED <<node, storageUsed, indexing>> /\ lastIndexed' = lastIndexed
        /\ failures' = failures \/ Fails
    BY <1>5 DEF StreamFails, BeginBlockFails, HeaderSent, db
  <2> QED
    BY <1>0, <2>1, StreamEndsBase
<1>6. CASE FinishBlockFails \/ Restart
  BY <1>0, <1>6, StreamEndsBase DEF FinishBlockFails, Restart, db
<1>7. CASE UNCHANGED indexerVars
  <2>1. /\ UNCHANGED <<startHeight, storageUsed, pc, lastIndexed, streamVars, indexing, failures>>
        /\ finalizedHeight' = finalizedHeight
    BY <1>7 DEF indexerVars, node, db
  <2>2. finalizedHeight' \in finalizedHeight .. MaxHeight
    BY <2>1, HeightFacts DEF BaseInv
  <2> QED
    BY <2>1, <2>2, BaseUnchanged
<1> QED
  BY <1>1, <1>2, <1>3, <1>4, <1>5, <1>6, <1>7, ClientReads
     DEF Next, IndexerNext, IndexerSteps, vars

LEMMA BaseInvariance == Spec => []BaseInv
<1>1. Init => BaseInv
  BY InitBase DEF Init
<1> QED
  BY <1>1, NextBase, PTL DEF Spec

(* The variables of the indexer have their types. *)
THEOREM TypeCorrect == Spec => []IndexerTypeOK
<1>1. BaseInv => IndexerTypeOK
  BY DEF BaseInv
<1> QED
  BY <1>1, BaseInvariance, PTL

(* NoBlockSkipped for every chain and flag, whatever fails and wherever the indexer is *)
(* killed, also with a flag ahead of the node. *)
THEOREM NoBlockSkippedTheorem == Spec => []NoBlockSkipped
<1>1. ASSUME BaseInv PROVE NoBlockSkipped
  <2>1. PICK n \in Nat :
          {h \in DOMAIN storageUsed : h > startHeight} = startHeight + 1 .. startHeight + n
    BY <1>1 DEF BaseInv, PositionInv, Indexed
  <2>2. startHeight \in Nat
    BY <1>1, HeightFacts DEF BaseInv
  <2>3. PICK a, b \in Int : a = startHeight + 1 /\ b = startHeight + n
    BY <2>2
  <2>4. Cardinality(a .. b) = IF a > b THEN 0 ELSE b - a + 1
    BY <2>3, FS_Interval
  <2>5. (IF a > b THEN 0 ELSE b - a + 1) = n
    BY <2>2, <2>3
  <2>6. Cardinality({h \in DOMAIN storageUsed : h > startHeight}) = n
    BY <2>1, <2>3, <2>4, <2>5
  <2> QED
    BY <2>1, <2>6 DEF NoBlockSkipped
<1> QED
  BY <1>1, BaseInvariance, PTL

-----------------------------------------------------------------------------
(* The storage that is counted is that of items whose rows are there. *)

(* The statements of an item before its r-th have been executed. *)
RowsPut(it, r) ==
    /\ it.kind = "chunk" => (r > 1 => it.id \in DOMAIN chunks)
    /\ it.kind = "file" =>
         /\ r > 1 => it.id \in DOMAIN files
         /\ \A n \in 1 .. r - 2 : <<it.id, ChunksOf[it.id][n]>> \in DOMAIN fileChunks
    /\ it.kind = "dir" =>
         /\ r > 1 => it.id \in DOMAIN directories
         /\ \A n \in 1 .. r - 2 : <<it.id, FilesOf[it.id][n].id>> \in DOMAIN directoryFiles

(* The complete items of block h, and those of them before the k-th. *)
CompleteItems(h) == {i \in DOMAIN Items(h) : Complete(Items(h)[i])}
CompleteBefore(h, k) == {i \in DOMAIN Items(h) : i < k /\ Complete(Items(h)[i])}

(* What is added to used is complete, and of the current item all that was put is there. *)
StorageInv ==
    /\ \A h \in DOMAIN storageUsed : storageUsed[h] <= Cardinality(CompleteItems(h))
    /\ pc = "index" =>
         /\ used <= Cardinality(CompleteBefore(height, item))
         /\ item <= Len(Items(height)) =>
              row <= Len(References(Current)) + 1 /\ RowsPut(Current, row)

(* Rows are never deleted. *)
Grows ==
    /\ DOMAIN chunks \subseteq DOMAIN chunks' /\ DOMAIN files \subseteq DOMAIN files'
    /\ DOMAIN directories \subseteq DOMAIN directories'
    /\ DOMAIN fileChunks \subseteq DOMAIN fileChunks'
    /\ DOMAIN directoryFiles \subseteq DOMAIN directoryFiles'

LEMMA CardGrows ==
    ASSUME NEW n \in Nat, NEW T \in SUBSET (1 .. n), NEW S \in SUBSET T
    PROVE  /\ Cardinality(S) \in Nat /\ Cardinality(T) \in Nat
           /\ Cardinality(S) <= Cardinality(T)
           /\ \A x \in T : x \notin S => Cardinality(S) + 1 <= Cardinality(T)
<1>1. IsFiniteSet(1 .. n)
  BY FS_Interval
<1>2. IsFiniteSet(T)
  BY <1>1, FS_Subset
<1>3. IsFiniteSet(S) /\ Cardinality(S) <= Cardinality(T)
  BY <1>2, FS_Subset
<1>4. Cardinality(S) \in Nat /\ Cardinality(T) \in Nat
  BY <1>2, <1>3, FS_CardinalityType
<1>5. ASSUME NEW x \in T, x \notin S PROVE Cardinality(S) + 1 <= Cardinality(T)
  <2>1. PICK U : U = S \cup {x}
    OBVIOUS
  <2>2. Cardinality(U) = Cardinality(S) + 1
    BY <1>3, <1>5, <2>1, FS_AddElement
  <2>3. U \in SUBSET T
    BY <2>1
  <2>4. Cardinality(U) <= Cardinality(T)
    BY <1>2, <2>3, FS_Subset
  <2> QED
    BY <2>2, <2>4
<1> QED
  BY <1>3, <1>4, <1>5

LEMMA CompleteGrows ==
    ASSUME NEW it \in ItemSet, Grows, Complete(it)
    PROVE  Complete(it)'
<1>1. CASE it.kind = "chunk"
  BY <1>1 DEF Complete, Grows
<1>2. CASE it.kind = "file"
  BY <1>2 DEF Complete, Grows
<1>3. CASE it.kind = "dir"
  BY <1>3 DEF Complete, Grows
<1> QED
  BY <1>1, <1>2, <1>3 DEF ItemSet

(* After its last statement an item is complete. *)
LEMMA AllPut ==
    ASSUME NEW it \in ItemSet, NEW r \in Nat, r = Len(References(it)) + 2, RowsPut(it, r)'
    PROVE  Complete(it)'
<1>1. Len(References(it)) \in Nat /\ r > 1 /\ 1 .. r - 2 = DOMAIN References(it)
  BY ItemCases
<1>2. CASE it.kind = "chunk"
  BY <1>1, <1>2 DEF Complete, RowsPut
<1>3. CASE it.kind = "file"
  <2>1. References(it) = ChunksOf[it.id]
    BY <1>3, ItemCases
  <2> QED
    BY <1>1, <1>3, <2>1 DEF Complete, RowsPut
<1>4. CASE it.kind = "dir"
  <2>1. References(it) = FilesOf[it.id]
    BY <1>4, ItemCases
  <2> QED
    BY <1>1, <1>4, <2>1 DEF Complete, RowsPut
<1> QED
  BY <1>2, <1>3, <1>4 DEF ItemSet

(* The rows of blocks, after a step that deletes nothing. *)
LEMMA CountsGrow ==
    ASSUME Grows, NEW h \in Heights, NEW k, NEW l, k \in Nat, l \in Nat, k <= l
    PROVE  /\ Cardinality(CompleteItems(h)) <= Cardinality(CompleteItems(h)')
           /\ Cardinality(CompleteBefore(h, k)) <= Cardinality(CompleteBefore(h, l)')
           /\ Cardinality(CompleteBefore(h, k)) \in Nat
           /\ Cardinality(CompleteBefore(h, k)) <= Cardinality(CompleteItems(h))
           /\ Cardinality(CompleteItems(h)) \in Nat
           /\ Cardinality(CompleteItems(h)') \in Nat /\ Cardinality(CompleteBefore(h, l)') \in Nat
           /\ (k \in DOMAIN Items(h) /\ k < l /\ Complete(Items(h)[k])') =>
                Cardinality(CompleteBefore(h, k)) + 1 <= Cardinality(CompleteBefore(h, l)')
<1>1. PICK n \in Nat : DOMAIN Items(h) = 1 .. n /\ \A i \in 1 .. n : Items(h)[i] \in ItemSet
  BY ItemsType
<1>2. \A i \in 1 .. n : Complete(Items(h)[i]) => Complete(Items(h)[i])'
  BY <1>1, CompleteGrows
<1>3. PICK S, T, U, V : /\ S = CompleteItems(h) /\ T = CompleteItems(h)'
                        /\ U = CompleteBefore(h, k) /\ V = CompleteBefore(h, l)'
  OBVIOUS
<1>4. /\ S \in SUBSET T /\ T \in SUBSET (1 .. n) /\ U \in SUBSET S /\ S \in SUBSET (1 .. n)
      /\ V \in SUBSET (1 .. n)
  BY <1>1, <1>2, <1>3 DEF CompleteItems, CompleteBefore
<1>5. U \in SUBSET V
  BY <1>1, <1>2, <1>3 DEF CompleteBefore
<1>6. ASSUME k \in DOMAIN Items(h), k < l, Complete(Items(h)[k])'
      PROVE  k \in V /\ k \notin U
  BY <1>3, <1>6 DEF CompleteBefore
<1>7. /\ Cardinality(S) <= Cardinality(T) /\ Cardinality(U) <= Cardinality(V)
      /\ Cardinality(U) <= Cardinality(S) /\ Cardinality(U) \in Nat
      /\ Cardinality(S) \in Nat /\ Cardinality(T) \in Nat /\ Cardinality(V) \in Nat
  BY <1>4, <1>5, CardGrows
<1>8. k \in V /\ k \notin U => Cardinality(U) + 1 <= Cardinality(V)
  BY <1>4, <1>5, CardGrows
<1> QED
  BY <1>3, <1>6, <1>7, <1>8

(* A statement of the current item has been executed. *)
LEMMA StatementStep ==
    ASSUME BaseInv, StorageInv, pc = "index", item <= Len(Items(height)), Advance, Grows,
           UNCHANGED <<storageUsed, pc, height>>,
           NEW it, it = Current, NEW r, r = row, RowsPut(it, r + 1)'
    PROVE  StorageInv'
<1>1. PICK h, k : h = height /\ k = item
  OBVIOUS
<1>2. /\ h \in Heights /\ k \in Nat /\ r \in Nat /\ used \in Nat /\ k \in 1 .. Len(Items(h)) + 1
      /\ height' = h /\ DOMAIN storageUsed \subseteq Heights
      /\ \A g \in DOMAIN storageUsed : storageUsed[g] \in Nat
  BY <1>1 DEF BaseInv, IndexerTypeOK, PositionInv
<1>3. /\ Len(Items(h)) \in Nat /\ DOMAIN Items(h) = 1 .. Len(Items(h))
      /\ \A i \in DOMAIN Items(h) : Items(h)[i] \in ItemSet
  BY <1>2, ItemsType
<1>4. k \in DOMAIN Items(h) /\ it = Items(h)[k] /\ it \in ItemSet
  BY <1>1, <1>2, <1>3 DEF Current
<1>5. ASSUME NEW g \in DOMAIN storageUsed
      PROVE  storageUsed[g] <= Cardinality(CompleteItems(g)')
  <2>1. storageUsed[g] <= Cardinality(CompleteItems(g))
    BY DEF StorageInv
  <2>2. /\ Cardinality(CompleteItems(g)) <= Cardinality(CompleteItems(g)')
        /\ Cardinality(CompleteItems(g)) \in Nat /\ Cardinality(CompleteItems(g)') \in Nat
    BY <1>2, CountsGrow
  <2> QED
    BY <1>2, <2>1, <2>2
<1>6. /\ used <= Cardinality(CompleteBefore(h, k)) /\ r <= Len(References(it)) + 1
      /\ Len(References(it)) \in Nat
  BY <1>1, <1>4, ItemCases DEF StorageInv
<1>7. CASE r <= Len(References(it)) /\ row' = r + 1 /\ UNCHANGED <<item, used>>
  <2>1. Cardinality(CompleteBefore(h, k)) <= Cardinality(CompleteBefore(h, k)')
        /\ Cardinality(CompleteBefore(h, k)) \in Nat /\ Cardinality(CompleteBefore(h, k)') \in Nat
    BY <1>2, CountsGrow
  <2>2. used' <= Cardinality(CompleteBefore(h, k)')
    BY <1>2, <1>6, <1>7, <2>1
  <2>3. CompleteBefore(height, item)' = CompleteBefore(h, k)'
    BY <1>1, <1>2, <1>7 DEF CompleteBefore
  <2>4. Current' = it
    BY <1>1, <1>2, <1>4, <1>7 DEF Current, Items
  <2>5. RowsPut(Current, row)'
    BY <1>7, <2>4 DEF RowsPut
  <2>6. row' <= Len(References(Current)') + 1
    <3>1. References(Current)' = References(it)
      BY <2>4 DEF References
    <3> QED
      BY <1>2, <1>6, <1>7, <3>1
  <2> QED
    BY <1>5, <2>2, <2>3, <2>5, <2>6 DEF StorageInv
<1>8. CASE r > Len(References(it)) /\ item' = k + 1 /\ row' = 1 /\ used' = used + 1
  <2>1. PICK l \in Nat : l = k + 1 /\ k < l /\ k <= l
    BY <1>2
  <2>2. r + 1 = Len(References(it)) + 2 /\ r + 1 \in Nat
    BY <1>2, <1>6, <1>8
  <2>3. Complete(it)'
    BY <1>4, <2>2, AllPut
  <2>4. /\ Cardinality(CompleteBefore(h, k)) + 1 <= Cardinality(CompleteBefore(h, l)')
        /\ Cardinality(CompleteBefore(h, k)) \in Nat /\ Cardinality(CompleteBefore(h, l)') \in Nat
    <3>1. Complete(Items(h)[k])'
      BY <1>4, <2>3
    <3> QED
      BY <1>2, <1>4, <2>1, <3>1, CountsGrow
  <2>5. used' <= Cardinality(CompleteBefore(h, l)')
    BY <1>2, <1>6, <1>8, <2>4
  <2>6. CompleteBefore(height, item)' = CompleteBefore(h, l)'
    BY <1>2, <1>8, <2>1 DEF CompleteBefore
  <2>7. ASSUME item' <= Len(Items(height)')
        PROVE  row' <= Len(References(Current)') + 1 /\ RowsPut(Current, row)'
    <3>1. Items(height)' = Items(h)
      BY <1>2 DEF Items
    <3>2. PICK x : x = Items(h)[l] /\ x \in ItemSet /\ x = Current'
      BY <1>2, <1>3, <1>8, <2>1, <2>7, <3>1 DEF Current
    <3>3. References(Current)' = References(x) /\ Len(References(x)) \in Nat
      BY <3>2, ItemCases DEF References
    <3>4. 1 .. 1 - 2 = {} /\ ~(1 > 1)
      OBVIOUS
    <3>5. RowsPut(Current, row)'
      BY <1>8, <3>4 DEF RowsPut
    <3> QED
      BY <1>8, <3>3, <3>5
  <2> QED
    BY <1>5, <2>5, <2>6, <2>7 DEF StorageInv
<1>9. CASE row <= Len(References(Current))
  <2>1. r <= Len(References(it)) /\ row' = r + 1 /\ UNCHANGED <<item, used>>
    BY <1>9 DEF Advance
  <2> QED
    BY <1>7, <2>1
<1>10. CASE ~(row <= Len(References(Current)))
  <2>1. ~(r <= Len(References(it))) /\ item' = k + 1 /\ row' = 1 /\ used' = used + 1
    BY <1>1, <1>10 DEF Advance
  <2>2. r > Len(References(it))
    BY <1>2, <1>6, <2>1
  <2> QED
    BY <1>8, <2>1, <2>2
<1> QED
  BY <1>9, <1>10

(* An item fails: it is not counted. *)
LEMMA SkipStep ==
    ASSUME BaseInv, StorageInv, pc = "index", item <= Len(Items(height)), SkipItem,
           UNCHANGED <<storageUsed, contents, pc, height>>
    PROVE  StorageInv'
<1>1. PICK h, k : h = height /\ k = item
  OBVIOUS
<1>2. /\ h \in Heights /\ k \in Nat /\ used \in Nat
      /\ height' = h /\ DOMAIN storageUsed \subseteq Heights
  BY <1>1 DEF BaseInv, IndexerTypeOK, PositionInv
<1>3. /\ UNCHANGED <<chunks, files, directories, fileChunks, directoryFiles>>
      /\ item' = k + 1 /\ row' = 1 /\ used' = used
  BY <1>1 DEF contents, SkipItem
<1>4. Grows /\ \A g : CompleteItems(g)' = CompleteItems(g)
  BY <1>3 DEF Grows, CompleteItems, Complete, Items
<1>5. PICK l \in Nat : l = k + 1 /\ k <= l
  BY <1>2
<1>6. used' <= Cardinality(CompleteBefore(h, l)')
  <2>1. used <= Cardinality(CompleteBefore(h, k))
    BY <1>1 DEF StorageInv
  <2>2. /\ Cardinality(CompleteBefore(h, k)) <= Cardinality(CompleteBefore(h, l)')
        /\ Cardinality(CompleteBefore(h, k)) \in Nat /\ Cardinality(CompleteBefore(h, l)') \in Nat
    BY <1>2, <1>4, <1>5, CountsGrow
  <2> QED
    BY <1>2, <1>3, <2>1, <2>2
<1>7. CompleteBefore(height, item)' = CompleteBefore(h, l)'
  BY <1>2, <1>3, <1>5 DEF CompleteBefore
<1>8. ASSUME item' <= Len(Items(height)')
      PROVE  row' <= Len(References(Current)') + 1 /\ RowsPut(Current, row)'
  <2>1. /\ Items(height)' = Items(h) /\ Len(Items(h)) \in Nat /\ DOMAIN Items(h) = 1 .. Len(Items(h))
        /\ \A i \in DOMAIN Items(h) : Items(h)[i] \in ItemSet
    BY <1>2, ItemsType DEF Items
  <2>2. PICK x : x = Items(h)[l] /\ x \in ItemSet /\ x = Current'
    BY <1>2, <1>3, <1>5, <1>8, <2>1 DEF Current
  <2>3. References(Current)' = References(x) /\ Len(References(x)) \in Nat
    BY <2>2, ItemCases DEF References
  <2>4. 1 .. 1 - 2 = {} /\ ~(1 > 1)
    OBVIOUS
  <2>5. RowsPut(Current, row)'
    BY <1>3, <2>4 DEF RowsPut
  <2> QED
    BY <1>3, <2>3, <2>5
<1>9. \A g \in DOMAIN storageUsed' : storageUsed'[g] <= Cardinality(CompleteItems(g)')
  BY <1>4 DEF StorageInv
<1> QED
  BY <1>6, <1>7, <1>8, <1>9 DEF StorageInv

(* The row that a statement of an item puts. *)
LEMMA ItemPuts ==
    ASSUME BaseInv, StorageInv, indexChunk \/ indexFile \/ indexDirectory,
           NEW it, it = Current, NEW r, r = row
    PROVE  Grows /\ RowsPut(it, r + 1)'
<1>1. /\ pc = "index" /\ item <= Len(Items(height)) /\ Advance
      /\ UNCHANGED <<storageUsed, pc, height>>
  BY DEF indexChunk, indexFile, indexDirectory, AtItem
<1>3. r \in Nat \ {0} /\ RowsPut(it, r)
  BY <1>1 DEF BaseInv, IndexerTypeOK, PositionInv, StorageInv
<1>4. CASE indexChunk
  <2>1. /\ it.kind = "chunk" /\ chunks' = Upsert(chunks, it.id, height)
        /\ UNCHANGED <<files, directories, fileChunks, directoryFiles>>
    BY <1>4 DEF indexChunk, AtItem
  <2>2. DOMAIN chunks' = DOMAIN chunks \cup {it.id}
    BY <2>1 DEF Upsert
  <2>3. Grows
    BY <2>1, <2>2 DEF Grows
  <2>4. RowsPut(it, r + 1)'
    BY <2>1, <2>2 DEF RowsPut
  <2> QED
    BY <2>3, <2>4
<1>5. CASE indexFile
  <2>1. /\ it.kind = "file" /\ UNCHANGED <<chunks, directories, directoryFiles>>
        /\ \/ r = 1 /\ PutFileIndex(it.id)
           \/ r > 1 /\ PutFileChunk(it.id, ChunksOf[it.id][r - 1], r - 1)
    BY <1>5 DEF indexFile, AtItem
  <2>2. CASE r = 1 /\ PutFileIndex(it.id)
    <3>1. DOMAIN files' = DOMAIN files \cup {it.id} /\ UNCHANGED fileChunks
      BY <2>2 DEF PutFileIndex, Upsert
    <3>2. Grows
      BY <2>1, <3>1 DEF Grows
    <3>3. 1 .. (r + 1) - 2 = {}
      BY <2>2
    <3>4. RowsPut(it, r + 1)'
      BY <2>1, <3>1, <3>3 DEF RowsPut
    <3> QED
      BY <3>2, <3>4
  <2>3. CASE r > 1 /\ PutFileChunk(it.id, ChunksOf[it.id][r - 1], r - 1)
    <3>1. /\ DOMAIN fileChunks' = DOMAIN fileChunks \cup {<<it.id, ChunksOf[it.id][r - 1]>>}
          /\ UNCHANGED files
      BY <2>3 DEF PutFileChunk, Upsert
    <3>2. Grows
      BY <2>1, <3>1 DEF Grows
    <3>3. 1 .. (r + 1) - 2 = (1 .. r - 2) \cup {r - 1}
      BY <1>3, <2>3
    <3>4. it.id \in DOMAIN files
      BY <1>3, <2>1, <2>3 DEF RowsPut
    <3>5. ASSUME NEW n \in 1 .. (r + 1) - 2
          PROVE  <<it.id, ChunksOf[it.id][n]>> \in DOMAIN fileChunks'
      <4>1. CASE n \in 1 .. r - 2
        BY <1>3, <2>1, <3>1, <4>1 DEF RowsPut
      <4>2. CASE n = r - 1
        BY <3>1, <4>2
      <4> QED
        BY <3>3, <4>1, <4>2
    <3>6. RowsPut(it, r + 1)'
      BY <2>1, <3>1, <3>4, <3>5 DEF RowsPut
    <3> QED
      BY <3>2, <3>6
  <2> QED
    BY <2>1, <2>2, <2>3
<1>6. CASE indexDirectory
  <2>1. /\ it.kind = "dir" /\ UNCHANGED <<chunks, files, fileChunks>>
        /\ \/ r = 1 /\ PutDirectoryIndex(it.id)
           \/ r > 1 /\ PutDirectoryFile(it.id, FilesOf[it.id][r - 1])
    BY <1>6 DEF indexDirectory, AtItem
  <2>2. CASE r = 1 /\ PutDirectoryIndex(it.id)
    <3>1. DOMAIN directories' = DOMAIN directories \cup {it.id} /\ UNCHANGED directoryFiles
      BY <2>2 DEF PutDirectoryIndex, Upsert
    <3>2. Grows
      BY <2>1, <3>1 DEF Grows
    <3>3. 1 .. (r + 1) - 2 = {}
      BY <2>2
    <3>4. RowsPut(it, r + 1)'
      BY <2>1, <3>1, <3>3 DEF RowsPut
    <3> QED
      BY <3>2, <3>4
  <2>3. CASE r > 1 /\ PutDirectoryFile(it.id, FilesOf[it.id][r - 1])
    <3>1. /\ DOMAIN directoryFiles' =
               DOMAIN directoryFiles \cup {<<it.id, FilesOf[it.id][r - 1].id>>}
          /\ UNCHANGED directories
      BY <2>3 DEF PutDirectoryFile, Upsert
    <3>2. Grows
      BY <2>1, <3>1 DEF Grows
    <3>3. 1 .. (r + 1) - 2 = (1 .. r - 2) \cup {r - 1}
      BY <1>3, <2>3
    <3>4. it.id \in DOMAIN directories
      BY <1>3, <2>1, <2>3 DEF RowsPut
    <3>5. ASSUME NEW n \in 1 .. (r + 1) - 2
          PROVE  <<it.id, FilesOf[it.id][n].id>> \in DOMAIN directoryFiles'
      <4>1. CASE n \in 1 .. r - 2
        BY <1>3, <2>1, <3>1, <4>1 DEF RowsPut
      <4>2. CASE n = r - 1
        BY <3>1, <4>2
      <4> QED
        BY <3>3, <4>1, <4>2
    <3>6. RowsPut(it, r + 1)'
      BY <2>1, <3>1, <3>4, <3>5 DEF RowsPut
    <3> QED
      BY <3>2, <3>6
  <2> QED
    BY <2>1, <2>2, <2>3
<1> QED
  BY <1>4, <1>5, <1>6

LEMMA ItemStorage ==
    ASSUME BaseInv, StorageInv, indexChunk \/ indexFile \/ indexDirectory
    PROVE  StorageInv'
<1>1. /\ pc = "index" /\ item <= Len(Items(height)) /\ Advance
      /\ UNCHANGED <<storageUsed, pc, height>>
  BY DEF indexChunk, indexFile, indexDirectory, AtItem
<1>2. PICK it, r : it = Current /\ r = row
  OBVIOUS
<1>3. Grows /\ RowsPut(it, r + 1)'
  BY <1>2, ItemPuts
<1> QED
  BY <1>1, <1>2, <1>3, StatementStep

(* A step after which no block is being indexed, and the rows of blocks are as before. *)
LEMMA StorageIdle ==
    ASSUME StorageInv, UNCHANGED <<storageUsed, contents>>, pc' # "index"
    PROVE  StorageInv'
<1>1. UNCHANGED <<chunks, files, directories, fileChunks, directoryFiles>>
  BY DEF contents
<1>2. \A g : CompleteItems(g)' = CompleteItems(g)
  BY <1>1 DEF CompleteItems, Complete, Items
<1> QED
  BY <1>2 DEF StorageInv

LEMMA BeginBlockStorage ==
    ASSUME BaseInv, StorageInv, BeginBlock
    PROVE  StorageInv'
<1>1. PICK h : h = position + 1
  OBVIOUS
<1>2. /\ storageUsed' = Upsert(storageUsed, h, 0) /\ height' = h /\ item' = 1 /\ row' = 1
      /\ used' = 0 /\ UNCHANGED <<chunks, files, directories, fileChunks, directoryFiles>>
  BY <1>1 DEF BeginBlock, PutBlockIndex, contents
<1>3. /\ h \in Heights
      /\ DOMAIN storageUsed' = DOMAIN storageUsed \cup {h} /\ storageUsed'[h] = 0
      /\ \A k \in DOMAIN storageUsed : k # h => storageUsed'[k] = storageUsed[k]
  <2>1. h \in Heights
    BY <1>1, NextHeight DEF BeginBlock
  <2> QED
    BY <1>2, <2>1 DEF Upsert
<1>4. Grows /\ \A g : CompleteItems(g)' = CompleteItems(g)
  BY <1>2 DEF Grows, CompleteItems, Complete, Items
<1>5. ASSUME NEW g \in DOMAIN storageUsed' PROVE storageUsed'[g] <= Cardinality(CompleteItems(g)')
  <2>1. CASE g = h
    <3>1. Cardinality(CompleteItems(h)') \in Nat
      BY <1>3, <1>4, CountsGrow, 1 \in Nat, 1 <= 1
    <3> QED
      BY <1>3, <2>1, <3>1
  <2>2. CASE g # h
    BY <1>3, <1>4, <2>2 DEF StorageInv
  <2> QED
    BY <2>1, <2>2
<1>6. used' <= Cardinality(CompleteBefore(height, item)')
  <2>1. Cardinality(CompleteBefore(h, 1)') \in Nat
    BY <1>3, <1>4, CountsGrow, 1 \in Nat, 1 <= 1
  <2>2. CompleteBefore(height, item)' = CompleteBefore(h, 1)'
    BY <1>2 DEF CompleteBefore
  <2> QED
    BY <1>2, <2>1, <2>2
<1>7. ASSUME item' <= Len(Items(height)')
      PROVE  row' <= Len(References(Current)') + 1 /\ RowsPut(Current, row)'
  <2>1. /\ Items(height)' = Items(h) /\ Len(Items(h)) \in Nat /\ DOMAIN Items(h) = 1 .. Len(Items(h))
        /\ \A i \in DOMAIN Items(h) : Items(h)[i] \in ItemSet
    BY <1>2, <1>3, ItemsType DEF Items
  <2>2. PICK x : x = Items(h)[1] /\ x \in ItemSet /\ x = Current'
    BY <1>2, <1>7, <2>1 DEF Current
  <2>3. References(Current)' = References(x) /\ Len(References(x)) \in Nat
    BY <2>2, ItemCases DEF References
  <2>4. 1 .. 1 - 2 = {} /\ ~(1 > 1)
    OBVIOUS
  <2>5. RowsPut(Current, row)'
    BY <1>2, <2>4 DEF RowsPut
  <2> QED
    BY <1>2, <2>3, <2>5
<1> QED
  BY <1>5, <1>6, <1>7 DEF StorageInv

LEMMA FinishBlockStorage ==
    ASSUME BaseInv, StorageInv, FinishBlock
    PROVE  StorageInv'
<1>1. PICK h, k : h = height /\ k = item
  OBVIOUS
<1>2. /\ storageUsed' = Upsert(storageUsed, h, used) /\ pc = "index" /\ pc' = "recv"
      /\ UNCHANGED <<chunks, files, directories, fileChunks, directoryFiles>>
  BY <1>1 DEF FinishBlock, PutBlockIndex, contents
<1>3. h \in Heights /\ used \in Nat /\ k \in Nat
  BY <1>1, <1>2 DEF BaseInv, IndexerTypeOK, PositionInv
<1>4. /\ DOMAIN storageUsed' = DOMAIN storageUsed \cup {h} /\ storageUsed'[h] = used
      /\ \A g \in DOMAIN storageUsed : g # h => storageUsed'[g] = storageUsed[g]
  BY <1>2 DEF Upsert
<1>5. Grows /\ \A g : CompleteItems(g)' = CompleteItems(g)
  BY <1>2 DEF Grows, CompleteItems, Complete, Items
<1>6. used <= Cardinality(CompleteItems(h)')
  <2>1. used <= Cardinality(CompleteBefore(h, k))
    BY <1>1, <1>2 DEF StorageInv
  <2>2. /\ Cardinality(CompleteBefore(h, k)) <= Cardinality(CompleteItems(h))
        /\ Cardinality(CompleteBefore(h, k)) \in Nat /\ Cardinality(CompleteItems(h)) \in Nat
    <3>1. k <= k
      BY <1>3
    <3> QED
      BY <1>3, <1>5, <3>1, CountsGrow
  <2>3. used <= Cardinality(CompleteItems(h))
    BY <1>3, <2>1, <2>2
  <2> QED
    BY <1>5, <2>3
<1>7. \A g \in DOMAIN storageUsed' : storageUsed'[g] <= Cardinality(CompleteItems(g)')
  BY <1>4, <1>5, <1>6 DEF StorageInv
<1> QED
  BY <1>2, <1>7 DEF StorageInv

(* A step that leaves the database and indexBlock alone. *)
LEMMA StorageUnchanged ==
    ASSUME StorageInv, UNCHANGED <<storageUsed, contents, pc, indexing>>
    PROVE  StorageInv'
<1>1. UNCHANGED <<chunks, files, directories, fileChunks, directoryFiles, height, item, row, used>>
  BY DEF contents, indexing
<1>2. /\ \A g : CompleteItems(g)' = CompleteItems(g)
      /\ CompleteBefore(height, item)' = CompleteBefore(height, item)
  BY <1>1 DEF CompleteItems, CompleteBefore, Complete, Items
<1>3. /\ Current' = Current /\ Items(height)' = Items(height)
      /\ References(Current)' = References(Current)
  BY <1>1 DEF Current, Items, References
<1>4. RowsPut(Current, row)' <=> RowsPut(Current, row)
  BY <1>1, <1>3 DEF RowsPut
<1> QED
  BY <1>1, <1>2, <1>3, <1>4 DEF StorageInv

LEMMA NextStorage == BaseInv /\ StorageInv /\ [Next]_vars => StorageInv'
<1> SUFFICES ASSUME BaseInv, StorageInv, [Next]_vars PROVE StorageInv'
  OBVIOUS
<1>1. CASE Finalize
  BY <1>1, StorageUnchanged DEF Finalize, db
<1>2. CASE SubscribeToHeaders \/ SendHistory \/ GoLive
  BY <1>2, StorageIdle DEF SubscribeToHeaders, SendHistory, GoLive, db
<1>3. CASE BeginBlock \/ FinishBlock
  BY <1>3, BeginBlockStorage, FinishBlockStorage
<1>4. CASE indexChunk \/ indexFile \/ indexDirectory
  BY <1>4, ItemStorage
<1>5. CASE ForeignKeyFails \/ ItemFails
  BY <1>5, SkipStep DEF ForeignKeyFails, ForeignKeyMissing, AtItem, ItemFails, db
<1>6. CASE StreamFails \/ BeginBlockFails \/ FinishBlockFails \/ Restart
  BY <1>6, StorageIdle DEF StreamFails, BeginBlockFails, FinishBlockFails, Restart, db
<1>7. CASE UNCHANGED indexerVars
  BY <1>7, StorageUnchanged DEF indexerVars, db
<1> QED
  BY <1>1, <1>2, <1>3, <1>4, <1>5, <1>6, <1>7, ClientReads
     DEF Next, IndexerNext, IndexerSteps, vars

LEMMA StorageInvariance == Spec => [](BaseInv /\ StorageInv)
<1>1. Init => BaseInv /\ StorageInv
  <2>1. Init => BaseInv
    BY InitBase DEF Init
  <2>2. Init => StorageInv
    BY DEF Init, IndexerInit, StorageInv
  <2> QED
    BY <2>1, <2>2
<1> QED
  BY <1>1, NextBase, NextStorage, PTL DEF Spec

(* StorageUsed never counts an item whose rows are not all there: StorageCounts for every *)
(* chain, whatever fails. *)
THEOREM StorageTheorem == Spec => []StorageCounts
<1>1. StorageInv => StorageCounts
  BY DEF StorageInv, StorageCounts, CompleteItems
<1> QED
  BY <1>1, StorageInvariance, PTL

-----------------------------------------------------------------------------
(* While only the stream fails, every block is indexed completely. *)

(* The own row of a chunk or file. *)
Present(it) ==
    /\ it.kind = "chunk" => it.id \in DOMAIN chunks
    /\ it.kind = "file" => it.id \in DOMAIN files

BlockPresent(h) == \A i \in DOMAIN Items(h) : Present(Items(h)[i])

(* Chunks and files of the blocks that were indexed, and of the block being indexed up to *)
(* its current item, have their rows, even if a foreign key was missing: so no foreign *)
(* key is missing for a block that is Resolvable, and all its items are counted. *)
RowsInv ==
    failures = 0 =>
        /\ \A h \in DOMAIN storageUsed \ {height} :
             BlockPresent(h) /\ (Resolvable(h) => storageUsed[h] = Len(Items(h)))
        /\ pc = "index" =>
             /\ \A i \in DOMAIN Items(height) : i < item => Present(Items(height)[i])
             /\ Resolvable(height) => used = item - 1

LEMMA ChunkItem ==
    ASSUME NEW h \in Heights, NEW i \in DOMAIN Body[h].chunks
    PROVE  /\ i \in DOMAIN Items(h) /\ Items(h)[i].kind = "chunk"
           /\ Items(h)[i].id = Body[h].chunks[i]
           /\ \A k \in DOMAIN Items(h) : Items(h)[k].kind # "chunk" => i < k
<1>1. PICK nc \in Nat, nf \in Nat, nd \in Nat :
        /\ DOMAIN Body[h].chunks = 1 .. nc /\ DOMAIN Items(h) = 1 .. (nc + nf + nd)
        /\ \A j \in 1 .. nc : Items(h)[j] = [kind |-> "chunk", id |-> Body[h].chunks[j]]
  BY ItemsAre
<1>2. i \in DOMAIN Items(h) /\ Items(h)[i] = [kind |-> "chunk", id |-> Body[h].chunks[i]]
  BY <1>1
<1>3. \A k \in DOMAIN Items(h) : Items(h)[k].kind # "chunk" => i < k
  <2> SUFFICES ASSUME NEW k \in DOMAIN Items(h), Items(h)[k].kind # "chunk" PROVE i < k
    OBVIOUS
  <2>1. ASSUME k \in 1 .. nc PROVE FALSE
    <3>1. Items(h)[k] = [kind |-> "chunk", id |-> Body[h].chunks[k]]
      BY <1>1, <2>1
    <3> QED
      BY <3>1
  <2>2. i \in 1 .. nc /\ k \in 1 .. (nc + nf + nd)
    BY <1>1
  <2> QED
    BY <2>1, <2>2
<1> QED
  BY <1>2, <1>3

LEMMA FileItem ==
    ASSUME NEW h \in Heights, NEW i \in DOMAIN Body[h].files
    PROVE  \E j \in DOMAIN Items(h) :
             /\ Items(h)[j].kind = "file" /\ Items(h)[j].id = Body[h].files[i]
             /\ \A k \in DOMAIN Items(h) : Items(h)[k].kind = "dir" => j < k
<1>1. PICK nc \in Nat, nf \in Nat, nd \in Nat :
        /\ DOMAIN Body[h].files = 1 .. nf /\ DOMAIN Items(h) = 1 .. (nc + nf + nd)
        /\ \A j \in 1 .. nc : Items(h)[j] = [kind |-> "chunk", id |-> Body[h].chunks[j]]
        /\ \A j \in 1 .. nf : Items(h)[nc + j] = [kind |-> "file", id |-> Body[h].files[j]]
  BY ItemsAre
<1>2. PICK j : j = nc + i
  OBVIOUS
<1>3. j \in DOMAIN Items(h) /\ Items(h)[j] = [kind |-> "file", id |-> Body[h].files[i]]
  BY <1>1, <1>2
<1>4. ASSUME NEW k \in DOMAIN Items(h), Items(h)[k].kind = "dir" PROVE j < k
  <2>1. CASE k <= nc
    <3>1. k \in 1 .. nc
      BY <1>1, <2>1
    <3>2. Items(h)[k] = [kind |-> "chunk", id |-> Body[h].chunks[k]]
      BY <1>1, <3>1
    <3> QED
      BY <1>4, <3>2
  <2>2. CASE k > nc /\ k <= nc + nf
    <3>1. PICK l : l = k - nc
      OBVIOUS
    <3>2. l \in 1 .. nf /\ k = nc + l
      BY <1>1, <2>2, <3>1
    <3>3. Items(h)[k] = [kind |-> "file", id |-> Body[h].files[l]]
      BY <1>1, <3>2
    <3> QED
      BY <1>4, <3>3
  <2>3. CASE k > nc + nf
    BY <1>1, <1>2, <2>3
  <2> QED
    BY <1>1, <2>1, <2>2, <2>3
<1> QED
  BY <1>3, <1>4

(* Where the items come from. *)
LEMMA ItemListed ==
    ASSUME NEW h \in Heights, NEW k \in DOMAIN Items(h)
    PROVE  /\ Items(h)[k].kind = "chunk" =>
                \E i \in DOMAIN Body[h].chunks : Items(h)[k].id = Body[h].chunks[i]
           /\ Items(h)[k].kind = "file" =>
                \E i \in DOMAIN Body[h].files : Items(h)[k].id = Body[h].files[i]
           /\ Items(h)[k].kind = "dir" =>
                \E i \in DOMAIN Body[h].dirs : Items(h)[k].id = Body[h].dirs[i]
<1>1. PICK nc \in Nat, nf \in Nat, nd \in Nat :
        /\ DOMAIN Body[h].chunks = 1 .. nc
        /\ DOMAIN Body[h].files = 1 .. nf /\ DOMAIN Body[h].dirs = 1 .. nd
        /\ DOMAIN Items(h) = 1 .. (nc + nf + nd)
        /\ \A j \in 1 .. nc : Items(h)[j] = [kind |-> "chunk", id |-> Body[h].chunks[j]]
        /\ \A j \in 1 .. nf : Items(h)[nc + j] = [kind |-> "file", id |-> Body[h].files[j]]
        /\ \A j \in 1 .. nd : Items(h)[nc + nf + j] = [kind |-> "dir", id |-> Body[h].dirs[j]]
  BY ItemsAre
<1>2. CASE k <= nc
  <2>1. k \in 1 .. nc
    BY <1>1, <1>2
  <2>2. Items(h)[k] = [kind |-> "chunk", id |-> Body[h].chunks[k]]
    BY <1>1, <2>1
  <2>3. Items(h)[k].kind = "chunk" /\ Items(h)[k].id = Body[h].chunks[k]
    BY <2>2
  <2> QED
    BY <1>1, <2>1, <2>3
<1>3. CASE k > nc /\ k <= nc + nf
  <2>1. PICK l : l = k - nc
    OBVIOUS
  <2>2. l \in 1 .. nf /\ k = nc + l
    BY <1>1, <1>3, <2>1
  <2>3. Items(h)[k] = [kind |-> "file", id |-> Body[h].files[l]]
    BY <1>1, <2>2
  <2>4. Items(h)[k].kind = "file" /\ Items(h)[k].id = Body[h].files[l]
    BY <2>3
  <2> QED
    BY <1>1, <2>2, <2>4
<1>4. CASE k > nc + nf
  <2>1. PICK l : l = k - (nc + nf)
    OBVIOUS
  <2>2. l \in 1 .. nd /\ k = nc + nf + l
    BY <1>1, <1>4, <2>1
  <2>3. Items(h)[k] = [kind |-> "dir", id |-> Body[h].dirs[l]]
    BY <1>1, <2>2
  <2>4. Items(h)[k].kind = "dir" /\ Items(h)[k].id = Body[h].dirs[l]
    BY <2>3
  <2> QED
    BY <1>1, <2>2, <2>4
<1> QED
  BY <1>1, <1>2, <1>3, <1>4

(* What a resolvable block refers to. *)
LEMMA ResolvableIs ==
    ASSUME NEW h \in Heights, Resolvable(h)
    PROVE  /\ \A i \in DOMAIN Body[h].files : \A n \in DOMAIN ChunksOf[Body[h].files[i]] :
                \E g \in (startHeight + 1 .. h) \cup {h} : \E j \in DOMAIN Body[g].chunks :
                   ChunksOf[Body[h].files[i]][n] = Body[g].chunks[j]
           /\ \A i \in DOMAIN Body[h].dirs : \A n \in DOMAIN FilesOf[Body[h].dirs[i]] :
                \E g \in (startHeight + 1 .. h) \cup {h} : \E j \in DOMAIN Body[g].files :
                   FilesOf[Body[h].dirs[i]][n].id = Body[g].files[j]
<1>1. ASSUME NEW i \in DOMAIN Body[h].files, NEW n \in DOMAIN ChunksOf[Body[h].files[i]]
      PROVE  \E g \in (startHeight + 1 .. h) \cup {h} : \E j \in DOMAIN Body[g].chunks :
                ChunksOf[Body[h].files[i]][n] = Body[g].chunks[j]
  <2>1. ChunksOf[Body[h].files[i]][n] \in
          UNION {{Body[g].chunks[j] : j \in DOMAIN Body[g].chunks} : g \in (startHeight + 1 .. h) \cup {h}}
    BY Zenon DEF Resolvable
  <2> QED
    BY <2>1, Zenon
<1>2. ASSUME NEW i \in DOMAIN Body[h].dirs, NEW n \in DOMAIN FilesOf[Body[h].dirs[i]]
      PROVE  \E g \in (startHeight + 1 .. h) \cup {h} : \E j \in DOMAIN Body[g].files :
                FilesOf[Body[h].dirs[i]][n].id = Body[g].files[j]
  <2>1. FilesOf[Body[h].dirs[i]][n].id \in
          UNION {{Body[g].files[j] : j \in DOMAIN Body[g].files} : g \in (startHeight + 1 .. h) \cup {h}}
    BY Zenon DEF Resolvable
  <2> QED
    BY <2>1, Zenon
<1> QED
  BY <1>1, <1>2, Zenon

(* No foreign key of a resolvable block is missing. *)
LEMMA KeysFound ==
    ASSUME BaseInv, StorageInv, RowsInv, failures = 0, Resolvable(height), ForeignKeyMissing
    PROVE  FALSE
<1>1. PICK h, k, it : h = height /\ k = item /\ it = Current
  OBVIOUS
<1>2. pc = "index" /\ k <= Len(Items(h)) /\ row > 1
  BY <1>1 DEF ForeignKeyMissing, AtItem
<1>3. /\ h \in Heights /\ k \in 1 .. Len(Items(h)) + 1 /\ row \in Nat /\ startHeight \in Nat
      /\ h \in DOMAIN storageUsed /\ MaxHeight \in Nat
  BY <1>1, <1>2, HeightFacts DEF BaseInv, IndexerTypeOK, PositionInv
<1>4. k \in DOMAIN Items(h) /\ it = Items(h)[k] /\ it \in ItemSet
  BY <1>1, <1>2, <1>3, ItemsType DEF Current
<1>5. row <= Len(References(it)) + 1
  BY <1>1, <1>2 DEF StorageInv
<1>6. row - 1 \in DOMAIN References(it)
  <2>1. Len(References(it)) \in Nat /\ DOMAIN References(it) = 1 .. Len(References(it))
    BY <1>4, ItemCases
  <2> QED
    BY <1>2, <1>3, <1>5, <2>1
<1>7. /\ \A i \in DOMAIN Items(h) : i < k => Present(Items(h)[i])
      /\ \A g \in DOMAIN storageUsed : g # h => BlockPresent(g)
  BY <1>1, <1>2 DEF RowsInv
<1>8. \A g \in (startHeight + 1 .. h) \cup {h} : g \in Heights /\ g \in DOMAIN storageUsed
  <2>1. PICK n \in Nat :
          {g \in DOMAIN storageUsed : g > startHeight} = startHeight + 1 .. startHeight + n
    BY DEF BaseInv, PositionInv, Indexed
  <2>2. ASSUME NEW g \in startHeight + 1 .. h, g # h PROVE g \in DOMAIN storageUsed
    <3>1. h > startHeight
      BY <1>3, <2>2 DEF Heights
    <3>2. h <= startHeight + n
      BY <1>3, <2>1, <3>1
    <3>3. g \in startHeight + 1 .. startHeight + n
      BY <1>3, <2>2, <3>2 DEF Heights
    <3> QED
      BY <2>1, <3>3
  <2>3. DOMAIN storageUsed \subseteq Heights
    BY DEF BaseInv, IndexerTypeOK
  <2> QED
    BY <1>3, <2>2, <2>3
<1>9. CASE it.kind = "file" /\ ChunksOf[it.id][row - 1] \notin DOMAIN chunks
  <2>1. PICK i \in DOMAIN Body[h].files : it.id = Body[h].files[i]
    BY <1>3, <1>4, <1>9, ItemListed
  <2>2. row - 1 \in DOMAIN ChunksOf[Body[h].files[i]]
    BY <1>4, <1>6, <1>9, <2>1, ItemCases
  <2>3. PICK g \in (startHeight + 1 .. h) \cup {h} : \E j \in DOMAIN Body[g].chunks :
          ChunksOf[Body[h].files[i]][row - 1] = Body[g].chunks[j]
    BY <1>1, <1>3, <2>2, ResolvableIs
  <2>4. PICK j \in DOMAIN Body[g].chunks : ChunksOf[it.id][row - 1] = Body[g].chunks[j]
    BY <2>1, <2>3
  <2>5. /\ j \in DOMAIN Items(g) /\ Items(g)[j].kind = "chunk"
        /\ Items(g)[j].id = Body[g].chunks[j]
        /\ \A l \in DOMAIN Items(g) : Items(g)[l].kind # "chunk" => j < l
    BY <1>8, ChunkItem
  <2>6. Present(Items(g)[j])
    <3>1. CASE g = h
      <4>1. j < k
        BY <1>4, <1>9, <2>5, <3>1
      <4> QED
        BY <1>7, <2>5, <3>1, <4>1
    <3>2. CASE g # h
      BY <1>7, <1>8, <2>5, <3>2 DEF BlockPresent
    <3> QED
      BY <3>1, <3>2
  <2> QED
    BY <1>9, <2>4, <2>5, <2>6 DEF Present
<1>10. CASE it.kind = "dir" /\ FilesOf[it.id][row - 1].id \notin DOMAIN files
  <2>1. PICK i \in DOMAIN Body[h].dirs : it.id = Body[h].dirs[i]
    BY <1>3, <1>4, <1>10, ItemListed
  <2>2. row - 1 \in DOMAIN FilesOf[Body[h].dirs[i]]
    BY <1>4, <1>6, <1>10, <2>1, ItemCases
  <2>3. PICK g \in (startHeight + 1 .. h) \cup {h} : \E j \in DOMAIN Body[g].files :
          FilesOf[Body[h].dirs[i]][row - 1].id = Body[g].files[j]
    BY <1>1, <1>3, <2>2, ResolvableIs
  <2>4. PICK m \in DOMAIN Body[g].files : FilesOf[it.id][row - 1].id = Body[g].files[m]
    BY <2>1, <2>3
  <2>5. PICK j \in DOMAIN Items(g) :
          /\ Items(g)[j].kind = "file" /\ Items(g)[j].id = Body[g].files[m]
          /\ \A l \in DOMAIN Items(g) : Items(g)[l].kind = "dir" => j < l
    BY <1>8, FileItem
  <2>6. Present(Items(g)[j])
    <3>1. CASE g = h
      <4>1. j < k
        BY <1>4, <1>10, <2>5, <3>1
      <4> QED
        BY <1>7, <2>5, <3>1, <4>1
    <3>2. CASE g # h
      BY <1>7, <1>8, <2>5, <3>2 DEF BlockPresent
    <3> QED
      BY <3>1, <3>2
  <2> QED
    BY <1>10, <2>4, <2>5, <2>6 DEF Present
<1> QED
  BY <1>1, <1>9, <1>10 DEF ForeignKeyMissing, AtItem

LEMMA ResolvableSame ==
    ASSUME startHeight' = startHeight, NEW h
    PROVE  Resolvable(h)' <=> Resolvable(h)
BY DEF Resolvable

LEMMA PresentGrows ==
    ASSUME Grows, NEW it, Present(it)
    PROVE  Present(it)'
BY DEF Grows, Present

(* The rows of a block that is not being indexed, after a step that deletes nothing. *)
LEMMA OthersKept ==
    ASSUME RowsInv, failures = 0, Grows, startHeight' = startHeight,
           NEW h \in DOMAIN storageUsed \ {height}, storageUsed'[h] = storageUsed[h]
    PROVE  BlockPresent(h)' /\ (Resolvable(h)' => storageUsed'[h] = Len(Items(h)))
<1>1. BlockPresent(h) /\ (Resolvable(h) => storageUsed[h] = Len(Items(h)))
  BY DEF RowsInv
<1>2. BlockPresent(h)'
  BY <1>1, PresentGrows DEF BlockPresent, Items
<1> QED
  BY <1>1, <1>2, ResolvableSame

(* A step of indexBlock within a block: what is before the next item is present, and *)
(* counted if the block is resolvable. *)
LEMMA WithinBlockRows ==
    ASSUME RowsInv, failures = 0, Grows, UNCHANGED <<storageUsed, height, startHeight>>,
           NEW h, h = height,
           \A i \in DOMAIN Items(h) : i < item' => Present(Items(h)[i])',
           Resolvable(h) => used' = item' - 1
    PROVE  RowsInv'
<1>1. \A g \in DOMAIN storageUsed' \ {height'} :
        BlockPresent(g)' /\ (Resolvable(g)' => storageUsed'[g] = Len(Items(g)))
  BY OthersKept
<1>2. Items(height)' = Items(h) /\ (Resolvable(height)' <=> Resolvable(h))
  BY ResolvableSame DEF Items, Resolvable
<1>3. /\ \A i \in DOMAIN Items(height)' : i < item' => Present(Items(height)[i])'
      /\ Resolvable(height)' => used' = item' - 1
  BY <1>2 DEF Present
<1> QED
  BY <1>1, <1>3 DEF RowsInv, Items

(* On to the next item, the own row of the current one being there. *)
LEMMA NextItemRows ==
    ASSUME BaseInv, RowsInv, failures = 0, pc = "index", item <= Len(Items(height)), Grows,
           UNCHANGED <<storageUsed, height, startHeight>>, item' = item + 1,
           NEW it, it = Current, Present(it)', Resolvable(height) => used' = used + 1
    PROVE  RowsInv'
<1>1. PICK h, k : h = height /\ k = item
  OBVIOUS
<1>2. h \in Heights /\ k \in Nat /\ used \in Nat
  BY <1>1 DEF BaseInv, IndexerTypeOK, PositionInv
<1>3. Len(Items(h)) \in Nat /\ DOMAIN Items(h) = 1 .. Len(Items(h))
  BY <1>2, ItemsType
<1>4. ASSUME NEW i \in DOMAIN Items(h), i < item' PROVE Present(Items(h)[i])'
  <2>1. i < k \/ i = k
    BY <1>1, <1>2, <1>3, <1>4
  <2>2. CASE i < k
    <3>1. Present(Items(h)[i])
      BY <1>1, <2>2 DEF RowsInv
    <3> QED
      BY <3>1, PresentGrows
  <2>3. CASE i = k
    <3>1. it = Items(h)[i]
      BY <1>1, <2>3 DEF Current
    <3> QED
      BY <3>1
  <2> QED
    BY <2>1, <2>2, <2>3
<1>5. Resolvable(h) => used' = item' - 1
  BY <1>1, <1>2 DEF RowsInv
<1> QED
  BY <1>1, <1>4, <1>5, WithinBlockRows

LEMMA ItemRows ==
    ASSUME BaseInv, StorageInv, RowsInv, failures = 0, indexChunk \/ indexFile \/ indexDirectory
    PROVE  RowsInv'
<1>1. /\ pc = "index" /\ item <= Len(Items(height)) /\ Advance
      /\ UNCHANGED <<storageUsed, pc, height, startHeight>>
  BY DEF indexChunk, indexFile, indexDirectory, AtItem, node
<1>2. PICK it, r, h : it = Current /\ r = row /\ h = height
  OBVIOUS
<1>3. Grows /\ RowsPut(it, r + 1)'
  BY <1>2, ItemPuts
<1>4. CASE UNCHANGED <<item, used>>
  <2>1. \A i \in DOMAIN Items(h) : i < item' => Present(Items(h)[i])'
    BY <1>1, <1>2, <1>3, <1>4, PresentGrows DEF RowsInv
  <2>2. Resolvable(h) => used' = item' - 1
    BY <1>1, <1>2, <1>4 DEF RowsInv
  <2> QED
    BY <1>1, <1>2, <1>3, <2>1, <2>2, WithinBlockRows
<1>5. CASE item' = item + 1 /\ used' = used + 1
  <2>1. r \in Nat /\ r > 0
    BY <1>1, <1>2 DEF BaseInv, IndexerTypeOK, PositionInv
  <2>2. r + 1 > 1
    BY <2>1
  <2>3. Present(it)'
    BY <1>3, <2>2 DEF Present, RowsPut
  <2> QED
    BY <1>1, <1>2, <1>3, <1>5, <2>3, NextItemRows
<1> QED
  BY <1>1, <1>4, <1>5 DEF Advance

LEMMA ForeignKeyRows ==
    ASSUME BaseInv, StorageInv, RowsInv, failures = 0, ForeignKeyFails
    PROVE  RowsInv'
<1>1. /\ pc = "index" /\ item <= Len(Items(height)) /\ row > 1 /\ ForeignKeyMissing
      /\ item' = item + 1
      /\ UNCHANGED <<storageUsed, height, startHeight, chunks, files, directories,
                     fileChunks, directoryFiles>>
  BY DEF ForeignKeyFails, ForeignKeyMissing, AtItem, SkipItem, node, db, contents
<1>2. PICK it : it = Current
  OBVIOUS
<1>3. Grows
  BY <1>1 DEF Grows
<1>4. RowsPut(it, row)
  BY <1>1, <1>2 DEF StorageInv
<1>5. Present(it)'
  BY <1>1, <1>4 DEF Present, RowsPut
<1>6. ~Resolvable(height)
  BY <1>1, KeysFound
<1> QED
  BY <1>1, <1>2, <1>3, <1>5, <1>6, NextItemRows

LEMMA BeginBlockRows ==
    ASSUME BaseInv, RowsInv, failures = 0, BeginBlock
    PROVE  RowsInv'
<1>1. PICK h : h = position + 1
  OBVIOUS
<1>2. /\ storageUsed' = Upsert(storageUsed, h, 0) /\ height' = h /\ item' = 1 /\ used' = 0
      /\ HeaderSent /\ pc = "recv"
      /\ UNCHANGED <<startHeight, chunks, files, directories, fileChunks, directoryFiles>>
  BY <1>1 DEF BeginBlock, HeaderSent, PutBlockIndex, contents, node
<1>3. /\ DOMAIN storageUsed' = DOMAIN storageUsed \cup {h}
      /\ \A k \in DOMAIN storageUsed : k # h => storageUsed'[k] = storageUsed[k]
  BY <1>2 DEF Upsert
<1>4. height \notin DOMAIN storageUsed /\ h \in Heights
  BY <1>1, <1>2, NextHeight DEF BaseInv, IndexerTypeOK, PositionInv, Heights, BeginBlock
<1>5. Grows
  BY <1>2 DEF Grows
<1>6. ASSUME NEW g \in DOMAIN storageUsed' \ {height'}
      PROVE  BlockPresent(g)' /\ (Resolvable(g)' => storageUsed'[g] = Len(Items(g)))
  <2>1. g \in DOMAIN storageUsed \ {height} /\ storageUsed'[g] = storageUsed[g]
    BY <1>2, <1>3, <1>4
  <2> QED
    BY <1>2, <1>5, <2>1, OthersKept
<1>7. DOMAIN Items(h) = 1 .. Len(Items(h)) /\ Len(Items(h)) \in Nat
  BY <1>4, ItemsType
<1>8. ASSUME NEW i \in DOMAIN Items(height)', i < item' PROVE FALSE
  <2>1. Items(height)' = Items(h)
    BY <1>2 DEF Items
  <2> QED
    BY <1>2, <1>7, <1>8, <2>1
<1> QED
  BY <1>2, <1>6, <1>8 DEF RowsInv, Items

LEMMA FinishBlockRows ==
    ASSUME BaseInv, RowsInv, failures = 0, FinishBlock
    PROVE  RowsInv'
<1>1. PICK h, k : h = height /\ k = item
  OBVIOUS
<1>2. /\ storageUsed' = Upsert(storageUsed, h, used) /\ pc = "index" /\ pc' = "recv"
      /\ k > Len(Items(h))
      /\ UNCHANGED <<startHeight, chunks, files, directories, fileChunks, directoryFiles>>
  BY <1>1 DEF FinishBlock, PutBlockIndex, contents, node
<1>3. /\ DOMAIN storageUsed' = DOMAIN storageUsed \cup {h} /\ storageUsed'[h] = used
      /\ \A g \in DOMAIN storageUsed : g # h => storageUsed'[g] = storageUsed[g]
  BY <1>2 DEF Upsert
<1>4. Grows
  BY <1>2 DEF Grows
<1>5. h \in Heights /\ k \in 1 .. Len(Items(h)) + 1
  BY <1>1, <1>2 DEF BaseInv, IndexerTypeOK, PositionInv
<1>6. Len(Items(h)) \in Nat /\ DOMAIN Items(h) = 1 .. Len(Items(h))
  BY <1>5, ItemsType
<1>7. k = Len(Items(h)) + 1 /\ \A i \in DOMAIN Items(h) : i < k
  BY <1>2, <1>5, <1>6
<1>8. BlockPresent(h)'
  <2>1. ASSUME NEW i \in DOMAIN Items(h) PROVE Present(Items(h)[i])'
    <3>1. Present(Items(h)[i])
      BY <1>1, <1>2, <1>7 DEF RowsInv
    <3> QED
      BY <1>4, <3>1, PresentGrows
  <2> QED
    BY <2>1 DEF BlockPresent, Items
<1>9. Resolvable(h)' => storageUsed'[h] = Len(Items(h))
  <2>1. Resolvable(h) => used = Len(Items(h))
    BY <1>1, <1>2, <1>6, <1>7 DEF RowsInv
  <2> QED
    BY <1>2, <1>3, <2>1, ResolvableSame
<1>10. ASSUME NEW g \in DOMAIN storageUsed'
       PROVE  BlockPresent(g)' /\ (Resolvable(g)' => storageUsed'[g] = Len(Items(g)))
  <2>1. CASE g = h
    BY <1>8, <1>9, <2>1
  <2>2. CASE g # h
    BY <1>1, <1>2, <1>3, <1>4, <2>2, OthersKept
  <2> QED
    BY <2>1, <2>2
<1> QED
  BY <1>2, <1>10 DEF RowsInv, Items

(* A step that leaves the database alone and either indexBlock too, or is not in it. *)
LEMMA RowsUnchanged ==
    ASSUME BaseInv, RowsInv, failures = 0,
           UNCHANGED <<startHeight, storageUsed, contents, indexing>>,
           pc' = "index" => pc = "index"
    PROVE  RowsInv'
<1>1. UNCHANGED <<chunks, files, directories, fileChunks, directoryFiles, height, item, row, used>>
  BY DEF contents, indexing
<1>2. Grows
  BY <1>1 DEF Grows
<1>3. CASE pc = "index"
  <2>1. PICK h : h = height
    OBVIOUS
  <2>2. /\ \A i \in DOMAIN Items(h) : i < item' => Present(Items(h)[i])'
        /\ Resolvable(h) => used' = item' - 1
    BY <1>1, <1>2, <1>3, <2>1, PresentGrows DEF RowsInv
  <2> QED
    BY <1>1, <1>2, <2>1, <2>2, WithinBlockRows
<1>4. CASE pc' # "index"
  <2>1. \A g \in DOMAIN storageUsed' \ {height'} :
          BlockPresent(g)' /\ (Resolvable(g)' => storageUsed'[g] = Len(Items(g)))
    BY <1>1, <1>2, OthersKept
  <2> QED
    BY <1>4, <2>1 DEF RowsInv, Items
<1> QED
  BY <1>3, <1>4

LEMMA NextRows == BaseInv /\ StorageInv /\ RowsInv /\ [Next]_vars => RowsInv'
<1> SUFFICES ASSUME BaseInv, StorageInv, RowsInv, [Next]_vars, failures' = 0 PROVE RowsInv'
  BY DEF RowsInv
<1>1. CASE Finalize \/ SubscribeToHeaders \/ SendHistory \/ GoLive \/ StreamFails
  <2>1. /\ failures' = failures /\ UNCHANGED <<startHeight, storageUsed, contents, indexing>>
        /\ pc' = "index" => pc = "index"
    BY <1>1 DEF Finalize, SubscribeToHeaders, SendHistory, GoLive, StreamFails, db, node
  <2> QED
    BY <2>1, RowsUnchanged
<1>2. CASE BeginBlock \/ FinishBlock
  <2>1. failures = 0
    BY <1>2 DEF BeginBlock, FinishBlock
  <2> QED
    BY <1>2, <2>1, BeginBlockRows, FinishBlockRows
<1>3. CASE indexChunk \/ indexFile \/ indexDirectory
  <2>1. failures = 0
    BY <1>3 DEF indexChunk, indexFile, indexDirectory
  <2> QED
    BY <1>3, <2>1, ItemRows
<1>4. CASE ForeignKeyFails
  <2>1. failures = 0
    BY <1>4 DEF ForeignKeyFails
  <2> QED
    BY <1>4, <2>1, ForeignKeyRows
<1>5. CASE BeginBlockFails \/ ItemFails \/ FinishBlockFails \/ Restart
  <2>1. failures' = failures + 1 /\ failures \in Nat
    BY <1>5 DEF BeginBlockFails, ItemFails, FinishBlockFails, Restart, Fails, BaseInv, IndexerTypeOK
  <2> QED
    BY <2>1
<1>6. CASE UNCHANGED indexerVars
  <2>1. /\ failures' = failures /\ UNCHANGED <<startHeight, storageUsed, contents, indexing>>
        /\ pc' = "index" => pc = "index"
    BY <1>6 DEF indexerVars, db, node
  <2> QED
    BY <2>1, RowsUnchanged
<1> QED
  BY <1>1, <1>2, <1>3, <1>4, <1>5, <1>6, ClientReads
     DEF Next, IndexerNext, IndexerSteps, vars

(* While only the stream fails, every block but the one being indexed has the storage of *)
(* all its items, if its foreign keys can be found: RowsComplete for every chain. *)
THEOREM RowsTheorem == Spec => []RowsComplete
<1>1. Init => RowsInv
  BY DEF Init, IndexerInit, RowsInv
<1>2. Spec => []RowsInv
  BY <1>1, NextRows, StorageInvariance, PTL DEF Spec
<1>3. RowsInv => RowsComplete
  BY DEF RowsInv, RowsComplete, BlockComplete
<1> QED
  BY <1>2, <1>3, PTL
=============================================================================
