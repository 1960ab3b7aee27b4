---------------------------- MODULE ListingProofs ----------------------------
(***************************************************************************)
(* Proofs about the pages of the explorer: what a reader of a listing, or  *)
(* of the page of a file, is shown while the indexer writes between the    *)
(* queries, for every chain of blocks, page size and pattern of failures.  *)
(***************************************************************************)
EXTENDS ExplorerProofs, SequenceTheorems

Listings == {"blocks", "files", "directories"}

-----------------------------------------------------------------------------
(* The tables are finite; a row of chunks, files or directories has the height of the *)
(* block that lists it, and a row of file_chunks a position of its chunk in the manifest. *)
TablesInv ==
    /\ IsFiniteSet(DOMAIN chunks) /\ IsFiniteSet(DOMAIN files) /\ IsFiniteSet(DOMAIN directories)
    /\ IsFiniteSet(DOMAIN fileChunks)
    /\ \A c \in DOMAIN chunks :
         /\ chunks[c] \in Heights
         /\ \E i \in DOMAIN Body[chunks[c]].chunks : Body[chunks[c]].chunks[i] = c
    /\ \A f \in DOMAIN files :
         files[f] \in Heights /\ \E i \in DOMAIN Body[files[f]].files : Body[files[f]].files[i] = f
    /\ \A d \in DOMAIN directories :
         /\ directories[d] \in Heights
         /\ \E i \in DOMAIN Body[directories[d]].dirs : Body[directories[d]].dirs[i] = d
    /\ \A k \in DOMAIN fileChunks :
         /\ k = <<k[1], k[2]>> /\ k[1] \in DOMAIN ChunksOf /\ k[2] \in DOMAIN chunks
         /\ fileChunks[k] \in DOMAIN ChunksOf[k[1]]
         /\ ChunksOf[k[1]][fileChunks[k]] = k[2]

(* How many rows come before row r, whatever the order of rows of the same height. *)
Above(table, r) == Cardinality({q \in DOMAIN table : table[q] > table[r]})

Tied(table, r) == \E q \in DOMAIN table \ {r} : table[q] = table[r]

Page == {got[1][i] : i \in DOMAIN got[1]}

(* A row that was there when the reader began, and that has not been shown, comes after *)
(* what earlier pages and this one have shown; if so, the total says that there is more. *)
Covered(table, r) ==
    \/ Tied(table, r)
    \/ r \in seen
    \/ Len(got) = 0 /\ Above(table, r) >= Offset(request.arg)
    \/ Len(got) > 0 /\ r \in Page
    \/ /\ Len(got) > 0 /\ Above(table, r) >= Offset(request.arg + 1)
       /\ Len(got) = 2 /\ ~request.failed => got[2] \in Nat /\ got[2] > Offset(request.arg + 1)

CoverInv ==
    request.handler \in Listings =>
        /\ request.arg \in Nat \ {0}
        /\ \A r \in there : r \in DOMAIN Table(request.handler) /\ Covered(Table(request.handler), r)

(* A chunk that was recorded when the page of the file was asked for has its row. *)
ChunksInv ==
    request.handler = "fileDetails" =>
        /\ request.arg \in DOMAIN ChunksOf
        /\ \A c \in there : <<request.arg, c>> \in DOMAIN fileChunks
        /\ ChunksListed

RequestInv ==
    /\ request = [handler |-> request.handler, arg |-> request.arg, failed |-> request.failed]
    /\ IsList(got)
    /\ request.handler = "none" => got = <<>>

ReaderInv == RequestInv /\ CoverInv /\ ChunksInv

-----------------------------------------------------------------------------
(* Facts about orders of rows. *)

(* A finite set whose elements have different values can be listed by value: the place of *)
(* an element is the number of elements up to it. *)
LEMMA OrderExists ==
    ASSUME NEW J, IsFiniteSet(J), NEW v, \A k \in J : v[k] \in Nat,
           \A k, l \in J : v[k] = v[l] => k = l
    PROVE  \E s \in [1 .. Cardinality(J) -> J] :
             \A i, j \in DOMAIN s : i < j => s[i] # s[j] /\ v[s[i]] <= v[s[j]]
<1>1. PICK n \in Nat : n = Cardinality(J)
  BY FS_CardinalityType
<1> DEFINE upto(k) == {l \in J : v[l] <= v[k]}
           R == [k \in J |-> Cardinality(upto(k))]
<1>2. ASSUME NEW k \in J PROVE /\ IsFiniteSet(upto(k)) /\ Cardinality(upto(k)) \in 1 .. n
                               /\ k \in upto(k)
  <2>1. upto(k) \in SUBSET J /\ k \in upto(k)
    OBVIOUS
  <2>2. IsFiniteSet(upto(k)) /\ Cardinality(upto(k)) <= n
    BY <1>1, <2>1, FS_Subset
  <2>3. Cardinality(upto(k)) \in Nat
    BY <2>2, FS_CardinalityType
  <2>4. Cardinality(upto(k)) # 0
    BY <2>1, <2>2, FS_EmptySet
  <2> QED
    BY <2>1, <2>2, <2>3, <2>4
<1>3. ASSUME NEW k \in J, NEW l \in J, v[k] < v[l] PROVE R[k] < R[l]
  <2>1. PICK A, B : A = upto(k) /\ B = upto(l)
    OBVIOUS
  <2>2. /\ IsFiniteSet(B) /\ Cardinality(A) \in 1 .. n /\ Cardinality(B) \in 1 .. n
        /\ l \in B
    BY <1>2, <2>1
  <2>3. A \in SUBSET B /\ l \notin A
    BY <1>3, <2>1
  <2>4. Cardinality(A) <= Cardinality(B) /\ Cardinality(A) # Cardinality(B)
    BY <2>2, <2>3, FS_Subset
  <2>5. Cardinality(A) < Cardinality(B)
    BY <2>2, <2>4
  <2> QED
    BY <2>1, <2>5
<1>4. R \in [J -> 1 .. n]
  BY <1>2
<1>5. ASSUME NEW k \in J, NEW l \in J, R[k] = R[l] PROVE k = l
  <2>1. R[k] \in Int /\ ~(R[k] < R[l]) /\ ~(R[l] < R[k])
    BY <1>4, <1>5
  <2>2. ~(v[k] < v[l]) /\ ~(v[l] < v[k])
    BY <1>3, <2>1
  <2> QED
    BY <2>2
<1>6. R \in Injection(J, 1 .. n)
  BY <1>4, <1>5 DEF Injection, IsInjective
<1>7. IsFiniteSet(1 .. n) /\ Cardinality(1 .. n) = n
  BY FS_Interval
<1>8. R \in Surjection(J, 1 .. n)
  BY <1>1, <1>6, <1>7, FS_Injection
<1>9. \A i \in 1 .. n : \E k \in J : R[k] = i
  BY <1>8 DEF Surjection
<1> HIDE DEF R
<1>10. PICK s : s = [i \in 1 .. n |-> CHOOSE k \in J : R[k] = i]
  OBVIOUS
<1>11. s \in [1 .. n -> J] /\ \A i \in 1 .. n : R[s[i]] = i
  BY <1>9, <1>10
<1>12. ASSUME NEW i \in DOMAIN s, NEW j \in DOMAIN s, i < j
       PROVE  s[i] # s[j] /\ v[s[i]] <= v[s[j]]
  <2>1. s[i] \in J /\ s[j] \in J /\ R[s[i]] = i /\ R[s[j]] = j
    BY <1>11
  <2>2. ~(R[s[j]] < R[s[i]])
    BY <1>11, <1>12, <2>1
  <2>3. ~(v[s[j]] < v[s[i]])
    BY <1>3, <2>1, <2>2
  <2> QED
    BY <1>11, <1>12, <2>1, <2>3
<1> QED
  BY <1>1, <1>11, <1>12

(* A list without repetitions that is as long as a finite set has all its elements. *)
LEMMA OrderOnto ==
    ASSUME NEW J, IsFiniteSet(J), NEW s \in [1 .. Cardinality(J) -> J],
           \A i, j \in DOMAIN s : i < j => s[i] # s[j]
    PROVE  \A k \in J : \E i \in DOMAIN s : s[i] = k
<1>1. PICK n \in Nat : n = Cardinality(J)
  BY FS_CardinalityType
<1>2. IsFiniteSet(1 .. n) /\ Cardinality(1 .. n) = n
  BY FS_Interval
<1>3. ASSUME NEW i \in 1 .. n, NEW j \in 1 .. n, s[i] = s[j] PROVE i = j
  <2>1. ~(i < j) /\ ~(j < i)
    BY <1>1, <1>3
  <2> QED
    BY <2>1
<1>4. s \in Injection(1 .. n, J)
  BY <1>1, <1>3 DEF Injection, IsInjective
<1>5. s \in Surjection(1 .. n, J)
  BY <1>1, <1>2, <1>4, FS_Injection
<1> QED
  BY <1>1, <1>5 DEF Surjection

(* A row that shares its height with no other has the same place in every order. *)
LEMMA PlaceIs ==
    ASSUME NEW table, IsFiniteSet(DOMAIN table), \A q \in DOMAIN table : table[q] \in Nat,
           NEW s \in Orders(table), NEW r \in DOMAIN table, ~Tied(table, r)
    PROVE  /\ Above(table, r) \in Nat /\ Above(table, r) + 1 <= Cardinality(DOMAIN table)
           /\ Above(table, r) + 1 \in DOMAIN s /\ s[Above(table, r) + 1] = r
<1>1. PICK n \in Nat : n = Cardinality(DOMAIN table)
  BY FS_CardinalityType
<1>2. /\ s \in [1 .. n -> DOMAIN table]
      /\ \A i, j \in 1 .. n : i < j => s[i] # s[j] /\ table[s[i]] >= table[s[j]]
  BY <1>1 DEF Orders
<1>3. \A q \in DOMAIN table : \E i \in 1 .. n : s[i] = q
  BY <1>1, <1>2, OrderOnto
<1>4. PICK m \in 1 .. n : s[m] = r
  BY <1>3
<1>5. PICK A : A = {q \in DOMAIN table : table[q] > table[r]}
  OBVIOUS
<1>6. PICK f : f = [i \in 1 .. m - 1 |-> s[i]]
  OBVIOUS
<1>7. ASSUME NEW i \in 1 .. m - 1 PROVE f[i] = s[i] /\ s[i] \in A
  <2>1. i \in 1 .. n /\ i < m
    BY <1>4
  <2>2. s[i] \in DOMAIN table /\ s[i] # r /\ table[s[i]] >= table[r]
    BY <1>2, <1>4, <2>1
  <2>3. table[s[i]] # table[r]
    BY <2>2 DEF Tied
  <2> QED
    BY <1>5, <1>6, <2>2, <2>3
<1>8. ASSUME NEW q \in A PROVE \E i \in 1 .. m - 1 : f[i] = q
  <2>1. PICK i \in 1 .. n : s[i] = q
    BY <1>3, <1>5
  <2>2. table[s[i]] > table[r] /\ table[s[i]] \in Nat /\ table[r] \in Nat
    BY <1>5, <2>1
  <2>3. ~(m < i) /\ i # m
    BY <1>2, <1>4, <2>2
  <2>4. i \in 1 .. m - 1
    BY <1>4, <2>3
  <2> QED
    BY <1>7, <2>1, <2>4
<1>9. f \in [1 .. m - 1 -> A]
  BY <1>6, <1>7
<1>10. ASSUME NEW i \in 1 .. m - 1, NEW j \in 1 .. m - 1, f[i] = f[j] PROVE i = j
  <2>1. i \in 1 .. n /\ j \in 1 .. n /\ s[i] = s[j]
    BY <1>4, <1>7, <1>10
  <2>2. ~(i < j) /\ ~(j < i)
    BY <1>2, <2>1
  <2> QED
    BY <2>2
<1>11. f \in Injection(1 .. m - 1, A) /\ f \in Surjection(1 .. m - 1, A)
  BY <1>8, <1>9, <1>10 DEF Injection, Surjection, IsInjective
<1>12. IsFiniteSet(1 .. m - 1) /\ Cardinality(1 .. m - 1) = m - 1
  <2>1. m - 1 \in Int /\ (1 > m - 1 => m - 1 = 0)
    BY <1>4
  <2>2. /\ IsFiniteSet(1 .. m - 1)
        /\ Cardinality(1 .. m - 1) = IF 1 > m - 1 THEN 0 ELSE (m - 1) - 1 + 1
    BY <2>1, FS_Interval
  <2> QED
    BY <2>1, <2>2
<1>13. Cardinality(A) = m - 1
  BY <1>11, <1>12, FS_Surjection
<1>14. Above(table, r) = m - 1
  BY <1>5, <1>13 DEF Above
<1> QED
  BY <1>1, <1>2, <1>4, <1>14

(* A page shows the row whose place is on it. *)
LEMMA SelectShows ==
    ASSUME NEW table, IsFiniteSet(DOMAIN table), \A q \in DOMAIN table : table[q] \in Nat,
           NEW limit \in Nat, NEW offset \in Nat, NEW page \in Select(table, limit, offset),
           NEW r \in DOMAIN table, ~Tied(table, r),
           offset <= Above(table, r), Above(table, r) < offset + limit
    PROVE  r \in {page[i] : i \in DOMAIN page}
<1>1. PICK n \in Nat : n = Cardinality(DOMAIN table)
  BY FS_CardinalityType
<1>2. PICK s \in Orders(table) : page = SubSeq(s, offset + 1, Min({offset + limit, Len(s)}))
  BY DEF Select
<1>3. s \in [1 .. n -> DOMAIN table]
  BY <1>1, <1>2 DEF Orders
<1>4. s \in Seq(DOMAIN table) /\ Len(s) = n
  BY <1>3
<1>5. PICK a : a = Above(table, r)
  OBVIOUS
<1>6. a \in Nat /\ a + 1 <= n /\ s[a + 1] = r
  BY <1>1, <1>2, <1>5, PlaceIs
<1>7. PICK m : m = Min({offset + limit, n})
  OBVIOUS
<1>8. m \in {offset + limit, n} /\ m <= offset + limit /\ m <= n
  <2>1. \E x \in {offset + limit, n} : \A y \in {offset + limit, n} : x <= y
    <3>1. CASE n <= offset + limit
      BY <3>1
    <3>2. CASE offset + limit <= n
      BY <3>2
    <3> QED
      BY <3>1, <3>2
  <2> QED
    BY <1>7, <2>1 DEF Min
<1>9. m \in Nat /\ a + 1 <= m /\ offset + 1 <= a + 1
  BY <1>5, <1>6, <1>8
<1>10. page = SubSeq(s, offset + 1, m)
  BY <1>2, <1>4, <1>7
<1>11. Len(page) = m - offset /\ \A i \in 1 .. (m - offset) : page[i] = s[i + offset]
  <2>1. PICK lo \in Int : lo = offset + 1
    OBVIOUS
  <2>2. /\ Len(SubSeq(s, lo, m)) = IF lo <= m THEN m - lo + 1 ELSE 0
        /\ \A i \in 1 .. m - lo + 1 : SubSeq(s, lo, m)[i] = s[lo + i - 1]
    <3>1. \A i \in lo .. m : s[i] \in DOMAIN table
      BY <1>3, <1>8, <2>1
    <3> QED
      BY <1>9, <3>1, SubSeqProperties
  <2>3. m - lo + 1 = m - offset /\ lo <= m /\ \A i \in 1 .. (m - offset) : lo + i - 1 = i + offset
    BY <1>6, <1>9, <2>1
  <2> QED
    BY <1>10, <2>1, <2>2, <2>3
<1>12. PICK i : i = a + 1 - offset
  OBVIOUS
<1>13. i \in 1 .. (m - offset) /\ i + offset = a + 1
  BY <1>6, <1>9, <1>12
<1>14. page[i] = r
  BY <1>6, <1>11, <1>13
<1>15. i \in DOMAIN page
  <2>1. page \in Seq(DOMAIN table)
    BY <1>4, <1>8, <1>9, <1>10
  <2>2. DOMAIN page = 1 .. (m - offset)
    BY <1>11, <2>1
  <2> QED
    BY <1>13, <2>2
<1> QED
  BY <1>14, <1>15

(* Rows are only added, and keep their heights. *)
Extends(table, later) ==
    DOMAIN table \subseteq DOMAIN later /\ \A q \in DOMAIN table : later[q] = table[q]

(* Then a row only moves down, and a row that shares its height goes on to do so. *)
LEMMA RowsMoveDown ==
    ASSUME NEW table, NEW later, Extends(table, later), IsFiniteSet(DOMAIN later),
           NEW r \in DOMAIN table
    PROVE  /\ Above(table, r) \in Nat /\ Above(later, r) \in Nat
           /\ Above(table, r) <= Above(later, r)
           /\ Tied(table, r) => Tied(later, r)
<1>1. PICK A, B : /\ A = {q \in DOMAIN table : table[q] > table[r]}
                  /\ B = {q \in DOMAIN later : later[q] > later[r]}
  OBVIOUS
<1>2. A \in SUBSET B /\ B \in SUBSET DOMAIN later
  BY <1>1 DEF Extends
<1>3. IsFiniteSet(B)
  BY <1>2, FS_Subset
<1>4. IsFiniteSet(A) /\ Cardinality(A) <= Cardinality(B)
  BY <1>2, <1>3, FS_Subset
<1>5. Cardinality(A) \in Nat /\ Cardinality(B) \in Nat
  BY <1>3, <1>4, FS_CardinalityType
<1>6. Tied(table, r) => Tied(later, r)
  BY DEF Tied, Extends
<1> QED
  BY <1>1, <1>4, <1>5, <1>6 DEF Above

(* If there are more rows than the pages so far can show, there is a next page. *)
LEMMA MorePages ==
    ASSUME NEW t \in Nat, NEW p \in Nat, NEW n \in Nat \ {0}, t > p * n
    PROVE  p < (t + n - 1) \div n
<1>1. PICK d : d = (t + n - 1) \div n
  OBVIOUS
<1>2. d \in Int /\ t + n - 1 < n * (d + 1)
  BY <1>1
<1>3. CASE d <= p
  <2>1. n * (d + 1) <= n * (p + 1)
    BY <1>2, <1>3
  <2>2. n * (p + 1) = p * n + n
    OBVIOUS
  <2>3. p * n \in Nat
    OBVIOUS
  <2> QED
    BY <1>2, <2>1, <2>2, <2>3
<1> QED
  BY <1>1, <1>2, <1>3

-----------------------------------------------------------------------------
(* The tables. *)

TablesExtend ==
    /\ Extends(chunks, chunks')
    /\ Extends(files, files') /\ Extends(directories, directories')
    /\ DOMAIN storageUsed \subseteq DOMAIN storageUsed'
    /\ DOMAIN fileChunks \subseteq DOMAIN fileChunks'

(* What is being put is of the block being indexed. *)
LEMMA CurrentIs ==
    ASSUME BaseInv, pc = "index", item <= Len(Items(height))
    PROVE  /\ height \in Heights /\ Current \in ItemSet
           /\ Current.kind = "chunk" =>
                \E i \in DOMAIN Body[height].chunks : Body[height].chunks[i] = Current.id
           /\ Current.kind = "file" =>
                /\ Current.id \in DOMAIN ChunksOf /\ References(Current) = ChunksOf[Current.id]
                /\ \E i \in DOMAIN Body[height].files : Body[height].files[i] = Current.id
           /\ Current.kind = "dir" =>
                \E i \in DOMAIN Body[height].dirs : Body[height].dirs[i] = Current.id
           /\ Len(References(Current)) \in Nat
           /\ DOMAIN References(Current) = 1 .. Len(References(Current))
<1>1. height \in Heights /\ item \in 1 .. Len(Items(height)) + 1
  BY DEF BaseInv, IndexerTypeOK, PositionInv
<1>2. item \in DOMAIN Items(height)
  BY <1>1, ItemsType
<1>3. Current \in ItemSet
  BY <1>1, <1>2, ItemsType DEF Current
<1>4. PICK k, h : k = item /\ h = height
  OBVIOUS
<1>5. /\ Items(h)[k].kind = "chunk" =>
           \E i \in DOMAIN Body[h].chunks : Items(h)[k].id = Body[h].chunks[i]
      /\ Items(h)[k].kind = "file" => \E i \in DOMAIN Body[h].files : Items(h)[k].id = Body[h].files[i]
      /\ Items(h)[k].kind = "dir" => \E i \in DOMAIN Body[h].dirs : Items(h)[k].id = Body[h].dirs[i]
  BY <1>1, <1>2, <1>4, ItemListed
<1>6. Current = Items(h)[k]
  BY <1>4 DEF Current
<1> QED
  BY <1>1, <1>3, <1>4, <1>5, <1>6, ItemCases

LEMMA ChunkPut ==
    ASSUME BaseInv, TablesInv, NEW c, chunks' = Upsert(chunks, c, height), height \in Heights,
           \E i \in DOMAIN Body[height].chunks : Body[height].chunks[i] = c
    PROVE  /\ Extends(chunks, chunks') /\ IsFiniteSet(DOMAIN chunks')
           /\ \A g \in DOMAIN chunks' :
                /\ chunks'[g] \in Heights
                /\ \E i \in DOMAIN Body[chunks'[g]].chunks : Body[chunks'[g]].chunks[i] = g
<1>1. PICK h \in Heights : h = height
  OBVIOUS
<1>2. chunks' = Upsert(chunks, c, h)
  BY <1>1
<1>3. PICK i \in DOMAIN Body[h].chunks : Body[h].chunks[i] = c
  BY <1>1
<1>4. c \in DOMAIN chunks => chunks[c] = h
  <2> SUFFICES ASSUME c \in DOMAIN chunks, chunks[c] # h PROVE FALSE
    OBVIOUS
  <2>1. PICK g \in Heights :
          g = chunks[c] /\ \E j \in DOMAIN Body[g].chunks : Body[g].chunks[j] = c
    BY DEF TablesInv
  <2>2. PICK j \in DOMAIN Body[g].chunks : Body[g].chunks[j] = c
    BY <2>1
  <2> QED
    BY <1>3, <2>1, <2>2, IdentifierAssumption
<1>5. /\ DOMAIN chunks' = DOMAIN chunks \cup {c} /\ chunks'[c] = h
      /\ IsFiniteSet(DOMAIN chunks')
      /\ \A q \in DOMAIN chunks : q # c => chunks'[q] = chunks[q]
  <2>1. IsFiniteSet(DOMAIN chunks \cup {c})
    BY FS_AddElement DEF TablesInv
  <2>2. /\ DOMAIN chunks' = DOMAIN chunks \cup {c} /\ chunks'[c] = h
        /\ \A q \in DOMAIN chunks : q # c => chunks'[q] = chunks[q]
    BY <1>2 DEF Upsert
  <2> QED
    BY <2>1, <2>2
<1>6. ASSUME NEW g \in DOMAIN chunks'
      PROVE  /\ chunks'[g] \in Heights
             /\ \E j \in DOMAIN Body[chunks'[g]].chunks : Body[chunks'[g]].chunks[j] = g
  <2>1. CASE g = c
    BY <1>3, <1>5, <2>1
  <2>2. CASE g # c
    BY <1>5, <2>2 DEF TablesInv
  <2> QED
    BY <2>1, <2>2
<1> QED
  BY <1>4, <1>5, <1>6 DEF Extends

LEMMA FilePut ==
    ASSUME BaseInv, TablesInv, NEW f, PutFileIndex(f), height \in Heights,
           \E i \in DOMAIN Body[height].files : Body[height].files[i] = f
    PROVE  /\ Extends(files, files') /\ IsFiniteSet(DOMAIN files')
           /\ \A g \in DOMAIN files' :
                /\ files'[g] \in Heights
                /\ \E i \in DOMAIN Body[files'[g]].files : Body[files'[g]].files[i] = g
<1>1. PICK h \in Heights : h = height
  OBVIOUS
<1>2. files' = Upsert(files, f, h)
  BY <1>1 DEF PutFileIndex
<1>3. PICK i \in DOMAIN Body[h].files : Body[h].files[i] = f
  BY <1>1
<1>4. f \in DOMAIN files => files[f] = h
  <2> SUFFICES ASSUME f \in DOMAIN files, files[f] # h PROVE FALSE
    OBVIOUS
  <2>1. PICK g \in Heights : g = files[f] /\ \E j \in DOMAIN Body[g].files : Body[g].files[j] = f
    BY DEF TablesInv
  <2>2. PICK j \in DOMAIN Body[g].files : Body[g].files[j] = f
    BY <2>1
  <2> QED
    BY <1>3, <2>1, <2>2, IdentifierAssumption
<1>5. /\ DOMAIN files' = DOMAIN files \cup {f} /\ files'[f] = h /\ IsFiniteSet(DOMAIN files')
      /\ \A q \in DOMAIN files : q # f => files'[q] = files[q]
  <2>1. IsFiniteSet(DOMAIN files \cup {f})
    BY FS_AddElement DEF TablesInv
  <2>2. /\ DOMAIN files' = DOMAIN files \cup {f} /\ files'[f] = h
        /\ \A q \in DOMAIN files : q # f => files'[q] = files[q]
    BY <1>2 DEF Upsert
  <2> QED
    BY <2>1, <2>2
<1>6. ASSUME NEW g \in DOMAIN files'
      PROVE  /\ files'[g] \in Heights
             /\ \E j \in DOMAIN Body[files'[g]].files : Body[files'[g]].files[j] = g
  <2>1. CASE g = f
    BY <1>3, <1>5, <2>1
  <2>2. CASE g # f
    BY <1>5, <2>2 DEF TablesInv
  <2> QED
    BY <2>1, <2>2
<1> QED
  BY <1>4, <1>5, <1>6 DEF Extends

LEMMA DirectoryPut ==
    ASSUME BaseInv, TablesInv, NEW d, PutDirectoryIndex(d), height \in Heights,
           \E i \in DOMAIN Body[height].dirs : Body[height].dirs[i] = d
    PROVE  /\ Extends(directories, directories') /\ IsFiniteSet(DOMAIN directories')
           /\ \A g \in DOMAIN directories' :
                /\ directories'[g] \in Heights
                /\ \E i \in DOMAIN Body[directories'[g]].dirs : Body[directories'[g]].dirs[i] = g
<1>1. PICK h \in Heights : h = height
  OBVIOUS
<1>2. directories' = Upsert(directories, d, h)
  BY <1>1 DEF PutDirectoryIndex
<1>3. PICK i \in DOMAIN Body[h].dirs : Body[h].dirs[i] = d
  BY <1>1
<1>4. d \in DOMAIN directories => directories[d] = h
  <2> SUFFICES ASSUME d \in DOMAIN directories, directories[d] # h PROVE FALSE
    OBVIOUS
  <2>1. PICK g \in Heights :
          g = directories[d] /\ \E j \in DOMAIN Body[g].dirs : Body[g].dirs[j] = d
    BY DEF TablesInv
  <2>2. PICK j \in DOMAIN Body[g].dirs : Body[g].dirs[j] = d
    BY <2>1
  <2> QED
    BY <1>3, <2>1, <2>2, IdentifierAssumption
<1>5. /\ DOMAIN directories' = DOMAIN directories \cup {d} /\ directories'[d] = h
      /\ IsFiniteSet(DOMAIN directories')
      /\ \A q \in DOMAIN directories : q # d => directories'[q] = directories[q]
  <2>1. IsFiniteSet(DOMAIN directories \cup {d})
    BY FS_AddElement DEF TablesInv
  <2>2. /\ DOMAIN directories' = DOMAIN directories \cup {d} /\ directories'[d] = h
        /\ \A q \in DOMAIN directories : q # d => directories'[q] = directories[q]
    BY <1>2 DEF Upsert
  <2> QED
    BY <2>1, <2>2
<1>6. ASSUME NEW g \in DOMAIN directories'
      PROVE  /\ directories'[g] \in Heights
             /\ \E j \in DOMAIN Body[directories'[g]].dirs : Body[directories'[g]].dirs[j] = g
  <2>1. CASE g = d
    BY <1>3, <1>5, <2>1
  <2>2. CASE g # d
    BY <1>5, <2>2 DEF TablesInv
  <2> QED
    BY <2>1, <2>2
<1> QED
  BY <1>4, <1>5, <1>6 DEF Extends

LEMMA FileChunkPut ==
    ASSUME TablesInv, NEW f \in DOMAIN ChunksOf, NEW n \in DOMAIN ChunksOf[f],
           PutFileChunk(f, ChunksOf[f][n], n), UNCHANGED chunks
    PROVE  /\ IsFiniteSet(DOMAIN fileChunks') /\ DOMAIN fileChunks \subseteq DOMAIN fileChunks'
           /\ \A k \in DOMAIN fileChunks' :
                /\ k = <<k[1], k[2]>> /\ k[1] \in DOMAIN ChunksOf /\ k[2] \in DOMAIN chunks'
                /\ fileChunks'[k] \in DOMAIN ChunksOf[k[1]]
                /\ ChunksOf[k[1]][fileChunks'[k]] = k[2]
<1>1. PICK l : l = <<f, ChunksOf[f][n]>>
  OBVIOUS
<1>2. fileChunks' = Upsert(fileChunks, l, n) /\ ChunksOf[f][n] \in DOMAIN chunks
  BY <1>1 DEF PutFileChunk
<1>3. /\ DOMAIN fileChunks' = DOMAIN fileChunks \cup {l} /\ fileChunks'[l] = n
      /\ \A q \in DOMAIN fileChunks : q # l => fileChunks'[q] = fileChunks[q]
      /\ IsFiniteSet(DOMAIN fileChunks')
  <2>1. IsFiniteSet(DOMAIN fileChunks \cup {l})
    BY FS_AddElement DEF TablesInv
  <2>2. /\ DOMAIN fileChunks' = DOMAIN fileChunks \cup {l} /\ fileChunks'[l] = n
        /\ \A q \in DOMAIN fileChunks : q # l => fileChunks'[q] = fileChunks[q]
    BY <1>2 DEF Upsert
  <2> QED
    BY <2>1, <2>2
<1>4. ASSUME NEW k \in DOMAIN fileChunks'
      PROVE  /\ k = <<k[1], k[2]>> /\ k[1] \in DOMAIN ChunksOf /\ k[2] \in DOMAIN chunks'
             /\ fileChunks'[k] \in DOMAIN ChunksOf[k[1]]
             /\ ChunksOf[k[1]][fileChunks'[k]] = k[2]
  <2>1. CASE k = l
    <3>1. k[1] = f /\ k[2] = ChunksOf[f][n] /\ k = <<k[1], k[2]>>
      BY <1>1, <2>1
    <3> QED
      BY <1>2, <1>3, <2>1, <3>1
  <2>2. CASE k # l
    <3>1. k \in DOMAIN fileChunks /\ fileChunks'[k] = fileChunks[k]
      BY <1>3, <2>2
    <3> QED
      BY <3>1 DEF TablesInv
  <2> QED
    BY <2>1, <2>2
<1> QED
  BY <1>3, <1>4

LEMMA ItemTables ==
    ASSUME BaseInv, StorageInv, TablesInv, indexChunk \/ indexFile \/ indexDirectory
    PROVE  TablesInv' /\ TablesExtend
<1>1. /\ pc = "index" /\ item <= Len(Items(height)) /\ UNCHANGED storageUsed
      /\ row \in Nat /\ row <= Len(References(Current)) + 1
  BY DEF indexChunk, indexFile, indexDirectory, AtItem, StorageInv, BaseInv, IndexerTypeOK
<1>2. CASE indexChunk
  <2>1. PICK c : c = Current.id
    OBVIOUS
  <2>2. /\ chunks' = Upsert(chunks, c, height) /\ height \in Heights
        /\ \E i \in DOMAIN Body[height].chunks : Body[height].chunks[i] = c
        /\ UNCHANGED <<files, directories, fileChunks>>
    BY <1>1, <1>2, <2>1, CurrentIs DEF indexChunk, AtItem
  <2>3. /\ Extends(chunks, chunks') /\ IsFiniteSet(DOMAIN chunks')
        /\ \A g \in DOMAIN chunks' :
             /\ chunks'[g] \in Heights
             /\ \E i \in DOMAIN Body[chunks'[g]].chunks : Body[chunks'[g]].chunks[i] = g
    BY <2>2, ChunkPut
  <2>4. TablesExtend
    BY <1>1, <2>2, <2>3 DEF TablesExtend, Extends
  <2>5. TablesInv'
    BY <2>2, <2>3 DEF TablesInv, Extends
  <2> QED
    BY <2>4, <2>5
<1>3. CASE indexFile
  <2>1. PICK f : f = Current.id
    OBVIOUS
  <2>2. /\ f \in DOMAIN ChunksOf /\ height \in Heights
        /\ \E i \in DOMAIN Body[height].files : Body[height].files[i] = f
        /\ DOMAIN ChunksOf[f] = 1 .. Len(ChunksOf[f]) /\ Len(ChunksOf[f]) \in Nat
        /\ References(Current) = ChunksOf[f]
    BY <1>1, <1>3, <2>1, CurrentIs DEF indexFile, AtItem
  <2>3. /\ UNCHANGED <<chunks, directories, directoryFiles>>
        /\ \/ row = 1 /\ PutFileIndex(f)
           \/ row > 1 /\ PutFileChunk(f, ChunksOf[f][row - 1], row - 1)
    BY <1>3, <2>1 DEF indexFile
  <2>4. CASE PutFileIndex(f)
    <3>1. /\ Extends(files, files') /\ IsFiniteSet(DOMAIN files') /\ UNCHANGED fileChunks
          /\ \A g \in DOMAIN files' :
               /\ files'[g] \in Heights
               /\ \E i \in DOMAIN Body[files'[g]].files : Body[files'[g]].files[i] = g
      BY <2>2, <2>4, FilePut DEF PutFileIndex
    <3>2. TablesExtend
      BY <1>1, <2>3, <3>1 DEF TablesExtend, Extends
    <3>3. TablesInv'
      BY <2>3, <3>1 DEF TablesInv
    <3> QED
      BY <3>2, <3>3
  <2>5. CASE row > 1 /\ PutFileChunk(f, ChunksOf[f][row - 1], row - 1)
    <3>1. PICK n : n = row - 1
      OBVIOUS
    <3>2. n \in DOMAIN ChunksOf[f]
      BY <1>1, <2>2, <2>5, <3>1
    <3>3. PutFileChunk(f, ChunksOf[f][n], n) /\ UNCHANGED files
      BY <2>5, <3>1 DEF PutFileChunk
    <3>4. /\ IsFiniteSet(DOMAIN fileChunks') /\ DOMAIN fileChunks \subseteq DOMAIN fileChunks'
          /\ \A k \in DOMAIN fileChunks' :
               /\ k = <<k[1], k[2]>> /\ k[1] \in DOMAIN ChunksOf /\ k[2] \in DOMAIN chunks'
               /\ fileChunks'[k] \in DOMAIN ChunksOf[k[1]]
               /\ ChunksOf[k[1]][fileChunks'[k]] = k[2]
      BY <2>2, <2>3, <3>2, <3>3, FileChunkPut
    <3>5. TablesExtend
      BY <1>1, <2>3, <3>3, <3>4 DEF TablesExtend, Extends
    <3>6. TablesInv'
      BY <2>3, <3>3, <3>4 DEF TablesInv
    <3> QED
      BY <3>5, <3>6
  <2> QED
    BY <2>3, <2>4, <2>5
<1>4. CASE indexDirectory
  <2>1. PICK d : d = Current.id
    OBVIOUS
  <2>2. height \in Heights /\ \E i \in DOMAIN Body[height].dirs : Body[height].dirs[i] = d
    BY <1>1, <1>4, <2>1, CurrentIs DEF indexDirectory, AtItem
  <2>3. UNCHANGED <<chunks, files, fileChunks>> /\ (PutDirectoryIndex(d) \/ UNCHANGED directories)
    BY <1>4, <2>1 DEF indexDirectory, PutDirectoryFile
  <2>4. CASE PutDirectoryIndex(d)
    <3>1. /\ Extends(directories, directories') /\ IsFiniteSet(DOMAIN directories')
          /\ \A g \in DOMAIN directories' :
               /\ directories'[g] \in Heights
               /\ \E i \in DOMAIN Body[directories'[g]].dirs : Body[directories'[g]].dirs[i] = g
      BY <2>2, <2>4, DirectoryPut
    <3>2. TablesExtend
      BY <1>1, <2>3, <3>1 DEF TablesExtend, Extends
    <3>3. TablesInv'
      BY <2>3, <3>1 DEF TablesInv
    <3> QED
      BY <3>2, <3>3
  <2>5. CASE UNCHANGED directories
    <3>1. TablesExtend
      BY <1>1, <2>3, <2>5 DEF TablesExtend, Extends
    <3>2. TablesInv'
      BY <2>3, <2>5 DEF TablesInv
    <3> QED
      BY <3>1, <3>2
  <2> QED
    BY <2>3, <2>4, <2>5
<1> QED
  BY <1>2, <1>3, <1>4

LEMMA TablesUnchanged ==
    ASSUME TablesInv, UNCHANGED contents, DOMAIN storageUsed \subseteq DOMAIN storageUsed'
    PROVE  TablesInv' /\ TablesExtend
<1>1. UNCHANGED <<chunks, files, directories, fileChunks>>
  BY DEF contents
<1>2. TablesInv'
  BY <1>1 DEF TablesInv
<1> QED
  BY <1>1, <1>2 DEF TablesExtend, Extends

LEMMA NextTables ==
    BaseInv /\ StorageInv /\ TablesInv /\ [Next]_vars => TablesInv' /\ TablesExtend
<1> SUFFICES ASSUME BaseInv, StorageInv, TablesInv, [Next]_vars
             PROVE  TablesInv' /\ TablesExtend
  OBVIOUS
<1>1. CASE indexChunk \/ indexFile \/ indexDirectory
  BY <1>1, ItemTables
<1>2. CASE BeginBlock \/ FinishBlock
  <2>1. UNCHANGED contents /\ DOMAIN storageUsed \subseteq DOMAIN storageUsed'
    BY <1>2 DEF BeginBlock, FinishBlock, PutBlockIndex, Upsert
  <2> QED
    BY <2>1, TablesUnchanged
<1>3. CASE UNCHANGED db
  <2>1. UNCHANGED contents /\ UNCHANGED storageUsed
    BY <1>3 DEF db
  <2> QED
    BY <2>1, TablesUnchanged
<1>4. \/ Finalize \/ SubscribeToHeaders \/ SendHistory \/ GoLive \/ StreamFails \/ BeginBlockFails
      \/ ForeignKeyFails \/ ItemFails \/ FinishBlockFails \/ Restart \/ UNCHANGED indexerVars
      => UNCHANGED db
  BY DEF Finalize, SubscribeToHeaders, SendHistory, GoLive, StreamFails, BeginBlockFails, ForeignKeyFails,
         ItemFails, FinishBlockFails, Restart, indexerVars
<1> QED
  BY <1>1, <1>2, <1>3, <1>4, ClientReads DEF Next, IndexerNext, IndexerSteps, vars

LEMMA TablesInvariance == Spec => [](BaseInv /\ StorageInv /\ TablesInv)
<1>1. Init => TablesInv
  <2> SUFFICES ASSUME Init PROVE TablesInv
    OBVIOUS
  <2>1. /\ DOMAIN chunks = {} /\ DOMAIN files = {} /\ DOMAIN directories = {}
        /\ DOMAIN fileChunks = {}
    BY DEF Init, IndexerInit
  <2> QED
    BY <2>1, FS_EmptySet DEF TablesInv
<1> QED
  BY <1>1, NextTables, StorageInvariance, PTL DEF Spec

LEMMA TableFacts ==
    ASSUME BaseInv, TablesInv, NEW listing \in Listings
    PROVE  /\ IsFiniteSet(DOMAIN Table(listing))
           /\ \A q \in DOMAIN Table(listing) : Table(listing)[q] \in Nat
<1>0. \A h \in Heights : h \in Nat
  BY HeightAssumption DEF Heights
<1>1. CASE listing = "blocks"
  <2>1. Table(listing) = BlockRows
    BY <1>1 DEF Table
  <2>2. DOMAIN storageUsed \in SUBSET Heights /\ IsFiniteSet(Heights)
    BY HeightAssumption, FS_Interval DEF Heights, BaseInv, IndexerTypeOK
  <2>3. IsFiniteSet(DOMAIN storageUsed)
    BY <2>2, FS_Subset
  <2> QED
    BY <1>0, <2>1, <2>2, <2>3 DEF BlockRows
<1>2. CASE listing = "files"
  <2>1. Table(listing) = files
    BY <1>2 DEF Table
  <2> QED
    BY <1>0, <2>1 DEF TablesInv
<1>3. CASE listing = "directories"
  <2>1. Table(listing) = directories
    BY <1>3 DEF Table
  <2> QED
    BY <1>0, <2>1 DEF TablesInv
<1> QED
  BY <1>1, <1>2, <1>3 DEF Listings

LEMMA TableExtends ==
    ASSUME BaseInv', TablesInv', TablesExtend, NEW listing \in Listings
    PROVE  Extends(Table(listing), Table(listing)') /\ IsFiniteSet(DOMAIN Table(listing)')
<1>1. CASE listing = "blocks"
  <2>1. Table(listing) = BlockRows /\ Table(listing)' = BlockRows'
    BY <1>1 DEF Table
  <2>2. DOMAIN storageUsed' \in SUBSET Heights /\ IsFiniteSet(Heights)
    <3>1. IsFiniteSet(Heights)
      BY HeightAssumption, FS_Interval DEF Heights
    <3>2. (DOMAIN storageUsed \subseteq Heights)'
      BY DEF BaseInv, IndexerTypeOK
    <3>3. Heights' = Heights
      BY DEF Heights
    <3> QED
      BY <3>1, <3>2, <3>3
  <2>3. IsFiniteSet(DOMAIN storageUsed')
    BY <2>2, FS_Subset
  <2> QED
    BY <2>1, <2>3 DEF BlockRows, TablesExtend, Extends
<1>2. CASE listing = "files"
  <2>1. Table(listing) = files /\ Table(listing)' = files'
    BY <1>2 DEF Table
  <2> QED
    BY <2>1 DEF TablesInv, TablesExtend
<1>3. CASE listing = "directories"
  <2>1. Table(listing) = directories /\ Table(listing)' = directories'
    BY <1>3 DEF Table
  <2> QED
    BY <2>1 DEF TablesInv, TablesExtend
<1> QED
  BY <1>1, <1>2, <1>3 DEF Listings

-----------------------------------------------------------------------------
(* The rows of a file's chunks. *)

(* GetFileChunks lists the file's rows, each once, by their positions in the manifest. *)
LEMMA FileChunksAre ==
    ASSUME TablesInv, NEW f \in DOMAIN ChunksOf, NEW list, list = GetFileChunks(f)
    PROVE  /\ \A c : <<f, c>> \in DOMAIN fileChunks => \E i \in DOMAIN list : list[i].chunk = c
           /\ \A i \in DOMAIN list : ChunksOf[f][list[i].index] = list[i].chunk
           /\ \A i, j \in DOMAIN list :
                i < j => list[i].index < list[j].index /\ list[i].chunk # list[j].chunk
<1>1. PICK v, J : /\ v = fileChunks
                  /\ J = {k \in DOMAIN fileChunks : k[1] = f /\ k[2] \in DOMAIN chunks}
  OBVIOUS
<1>2. IsFiniteSet(J)
  <2>1. IsFiniteSet(DOMAIN fileChunks) /\ J \in SUBSET DOMAIN fileChunks
    BY <1>1 DEF TablesInv
  <2> QED
    BY <2>1, FS_Subset
<1>3. \A k \in J : /\ k = <<f, k[2]>> /\ v[k] \in Nat
                   /\ v[k] \in DOMAIN ChunksOf[f] /\ ChunksOf[f][v[k]] = k[2]
  <2>1. \A n \in DOMAIN ChunksOf[f] : n \in Nat
    BY BodyAssumption, ListType
  <2> QED
    BY <1>1, <2>1 DEF TablesInv
<1>4. \A k, l \in J : (v[k] = v[l] => k = l) /\ (k[2] = l[2] => k = l)
  BY <1>3
<1>5. \E s \in [1 .. Cardinality(J) -> J] :
        \A i, j \in DOMAIN s : i < j => s[i] # s[j] /\ v[s[i]] <= v[s[j]]
  BY <1>2, <1>3, <1>4, OrderExists
<1>6. PICK s : s = CHOOSE u \in [1 .. Cardinality(J) -> J] :
                     \A i, j \in DOMAIN u : i < j => u[i] # u[j] /\ v[u[i]] <= v[u[j]]
  OBVIOUS
<1>7. /\ s \in [1 .. Cardinality(J) -> J]
      /\ \A i, j \in DOMAIN s : i < j => s[i] # s[j] /\ v[s[i]] <= v[s[j]]
  BY <1>5, <1>6
<1>8. list = [i \in DOMAIN s |-> [chunk |-> s[i][2], index |-> v[s[i]]]]
  BY <1>1, <1>6 DEF GetFileChunks
<1>9. DOMAIN list = DOMAIN s
  BY <1>8
<1>10. \A i \in DOMAIN s : list[i].chunk = s[i][2] /\ list[i].index = v[s[i]] /\ s[i] \in J
  BY <1>7, <1>8
<1>11. \A i \in DOMAIN list : ChunksOf[f][list[i].index] = list[i].chunk
  BY <1>3, <1>9, <1>10
<1>12. ASSUME NEW i \in DOMAIN s, NEW j \in DOMAIN s, i < j
       PROVE  list[i].index < list[j].index /\ list[i].chunk # list[j].chunk
  <2>1. s[i] # s[j] /\ v[s[i]] <= v[s[j]]
    BY <1>7, <1>12
  <2>2. v[s[i]] # v[s[j]] /\ s[i][2] # s[j][2]
    BY <1>4, <1>10, <2>1
  <2>3. v[s[i]] \in Nat /\ v[s[j]] \in Nat
    BY <1>3, <1>10
  <2>4. v[s[i]] < v[s[j]]
    BY <2>1, <2>2, <2>3
  <2> QED
    BY <1>10, <2>2, <2>4
<1>13. ASSUME NEW c, <<f, c>> \in DOMAIN fileChunks PROVE \E i \in DOMAIN list : list[i].chunk = c
  <2>1. PICK k : k = <<f, c>>
    OBVIOUS
  <2>2. k \in DOMAIN fileChunks /\ k[1] = f /\ k[2] = c /\ k[2] \in DOMAIN chunks
    BY <1>13, <2>1 DEF TablesInv
  <2>3. k \in J
    BY <1>1, <2>2
  <2>4. \A l \in J : \E i \in DOMAIN s : s[i] = l
    <3>1. \A i, j \in DOMAIN s : i < j => s[i] # s[j]
      BY <1>7
    <3> QED
      BY <1>2, <1>7, <3>1, OrderOnto
  <2>5. PICK i \in DOMAIN s : s[i] = k
    BY <2>3, <2>4
  <2>6. list[i].chunk = c
    BY <1>10, <2>2, <2>5
  <2> QED
    BY <1>9, <2>6
<1> QED
  BY <1>9, <1>11, <1>12, <1>13

-----------------------------------------------------------------------------
(* The reader. *)

(* An answer is added to the answers so far. *)
LEMMA AnswerAdded ==
    ASSUME NEW s, IsList(s), NEW a, NEW u, u = Append(s, a)
    PROVE  /\ IsList(u) /\ Len(s) \in Nat /\ Len(u) = Len(s) + 1 /\ u[Len(s) + 1] = a
           /\ \A i \in 1 .. Len(s) : u[i] = s[i]
<1>1. PICK S : S = {s[i] : i \in DOMAIN s} \cup {a}
  OBVIOUS
<1>2. s \in Seq({s[i] : i \in DOMAIN s})
  BY DEF IsList
<1>3. s \in Seq(S)
  BY <1>1, <1>2
<1>4. u \in Seq(S) /\ Len(s) \in Nat /\ Len(u) = Len(s) + 1 /\ u[Len(s) + 1] = a
  BY <1>1, <1>3
<1>5. \A i \in 1 .. Len(s) : u[i] = s[i]
  BY <1>1, <1>3
<1>6. u \in Seq({u[i] : i \in DOMAIN u})
  BY <1>4
<1> QED
  BY <1>4, <1>5, <1>6 DEF IsList

(* What the step of a handler does to the request: it gets one more answer, perhaps an *)
(* empty one for a query that failed, or the request is over. *)
Answered ==
    /\ \E a : got' = Append(got, a)
    /\ request' = request \/ request' = [request EXCEPT !.failed = TRUE]
    /\ UNCHANGED <<there, seen>>

Over == request' = Idle /\ got' = <<>>

LEMMA HandlerIs ==
    ASSUME Handlers
    PROVE  /\ Answered \/ Over
           /\ request.handler # "none"
           /\ request.handler \in Listings => HandleListing(request.handler)
           /\ request.handler = "fileDetails" => handleFileDetails
           /\ request.handler = "blockDetails" => handleBlockDetails
           /\ request.handler = "apiGetAnalytics" => apiGetAnalytics
           /\ request.handler = "home" => handleHome
<1>1. \A n, s : Asks(n, s) => Answered
  BY DEF Asks, Answered
<1>2. \A n, e : Tolerates(n, e) => Answered
  BY DEF Tolerates, Answered
<1>3. \A n : Returns(n) \/ GivesUp(n) => Over
  BY DEF Returns, GivesUp, Over
<1>4. \A l : HandleListing(l) => (Answered \/ Over) /\ request.handler = l
  BY <1>1, <1>2, <1>3 DEF HandleListing, Running
<1>5. handleFileDetails => (Answered \/ Over) /\ request.handler = "fileDetails"
  BY <1>1, <1>2, <1>3 DEF handleFileDetails, Running
<1>6. handleHome => (Answered \/ Over) /\ request.handler = "home"
  BY <1>1, <1>2 DEF handleHome, Running
<1>7. handleBlockDetails => (Answered \/ Over) /\ request.handler = "blockDetails"
  BY <1>1, <1>2, <1>3 DEF handleBlockDetails, Running
<1>8. handleDirectoryDetails => (Answered \/ Over) /\ request.handler = "directoryDetails"
  BY <1>1, <1>3 DEF handleDirectoryDetails, Running
<1>9. handleSearch => (Answered \/ Over) /\ request.handler = "search"
  BY <1>1, <1>2 DEF handleSearch, Running
<1>10. apiGetBlocks => (Answered \/ Over) /\ request.handler = "apiGetBlocks"
  BY <1>1, <1>3 DEF apiGetBlocks, Running
<1>11. apiGetAnalytics => (Answered \/ Over) /\ request.handler = "apiGetAnalytics"
  BY <1>1, <1>3 DEF apiGetAnalytics, Running
<1> QED
  BY <1>4, <1>5, <1>6, <1>7, <1>8, <1>9, <1>10, <1>11
     DEF Handlers, handleBlocks, handleFiles, handleDirectories, Listings

LEMMA AnsweredRequest ==
    ASSUME RequestInv, Answered, request.handler # "none"
    PROVE  /\ RequestInv'
           /\ request'.handler = request.handler /\ request'.arg = request.arg
           /\ request'.failed = request.failed \/ request'.failed = TRUE
<1>1. PICK a : got' = Append(got, a)
  BY DEF Answered
<1>2. IsList(got)'
  <2>1. IsList(got')
    BY <1>1, AnswerAdded DEF RequestInv
  <2> QED
    BY <2>1 DEF IsList
<1>3. CASE request' = request
  BY <1>2, <1>3 DEF RequestInv
<1>4. CASE request' = [request EXCEPT !.failed = TRUE]
  <2>1. request' = [handler |-> request.handler, arg |-> request.arg, failed |-> TRUE]
    BY <1>4 DEF RequestInv
  <2> QED
    BY <1>2, <2>1 DEF RequestInv
<1> QED
  BY <1>3, <1>4 DEF Answered

LEMMA OverReader ==
    ASSUME Over
    PROVE  ReaderInv'
<1>1. /\ request' = [handler |-> "none", arg |-> 0, failed |-> FALSE] /\ got' = <<>>
      /\ request'.handler = "none"
  BY DEF Over, Idle
<1>2. IsList(got)'
  BY <1>1 DEF IsList
<1>3. RequestInv'
  BY <1>1, <1>2 DEF RequestInv
<1>4. CoverInv' /\ ChunksInv'
  BY <1>1 DEF CoverInv, ChunksInv, Listings
<1> QED
  BY <1>3, <1>4 DEF ReaderInv

LEMMA Offsets ==
    ASSUME NEW p \in Nat \ {0}
    PROVE  /\ PageSize \in Nat \ {0} /\ Offset(p) \in Nat /\ Offset(p + 1) = p * PageSize
           /\ Offset(p + 1) = Offset(p) + PageSize /\ Offset(1) = 0
<1>1. PICK n \in Nat \ {0} : n = PageSize
  BY PagingAssumption
<1>2. (p - 1) * n \in Nat /\ ((p + 1) - 1) * n = p * n
  <2>1. p - 1 \in Nat /\ (p + 1) - 1 = p
    OBVIOUS
  <2> QED
    BY <2>1
<1>3. p * n = (p - 1) * n + n /\ (1 - 1) * n = 0
  OBVIOUS
<1> QED
  BY <1>1, <1>2, <1>3 DEF Offset

(* A row is not before itself. *)
LEMMA AboveBound ==
    ASSUME NEW table, IsFiniteSet(DOMAIN table), NEW r \in DOMAIN table, table[r] \in Nat
    PROVE  Above(table, r) \in Nat /\ Above(table, r) < Cardinality(DOMAIN table)
           /\ Cardinality(DOMAIN table) \in Nat
<1>1. PICK D, A : D = DOMAIN table /\ A = {q \in DOMAIN table : table[q] > table[r]}
  OBVIOUS
<1>2. A \in SUBSET D /\ r \notin A /\ IsFiniteSet(D)
  BY <1>1
<1>3. IsFiniteSet(A) /\ Cardinality(A) <= Cardinality(D) /\ (Cardinality(D) = Cardinality(A) => D = A)
  BY <1>2, FS_Subset
<1>4. Cardinality(A) \in Nat /\ Cardinality(D) \in Nat
  BY <1>2, <1>3, FS_CardinalityType
<1>5. Cardinality(A) # Cardinality(D)
  BY <1>1, <1>2, <1>3
<1> QED
  BY <1>1, <1>3, <1>4, <1>5 DEF Above

(* What has to be shown of the rows on the way to CoverInv after a step. *)
LEMMA CoverAfter ==
    ASSUME NEW listing \in Listings, NEW p \in Nat \ {0}, NEW table,
           request'.handler = listing, request'.arg = p, table = Table(listing)',
           \A r \in there' :
             /\ r \in DOMAIN table
             /\ \/ Tied(table, r)
                \/ r \in seen'
                \/ Len(got') = 0 /\ Above(table, r) >= Offset(p)
                \/ Len(got') > 0 /\ r \in {got'[1][i] : i \in DOMAIN got'[1]}
                \/ /\ Len(got') > 0 /\ Above(table, r) >= Offset(p + 1)
                   /\ Len(got') = 2 /\ ~request'.failed
                        => got'[2] \in Nat /\ got'[2] > Offset(p + 1)
    PROVE  CoverInv'
<1>1. (request.arg \in Nat \ {0})'
  OBVIOUS
<1>2. ASSUME NEW r \in there'
      PROVE  (r \in DOMAIN Table(request.handler))' /\ Covered(Table(request.handler), r)'
  <2>1. Table(request.handler)' = table
    BY DEF Table
  <2>2. r \in DOMAIN table
    OBVIOUS
  <2>3. /\ Offset(request.arg)' = Offset(p) /\ Offset(request.arg + 1)' = Offset(p + 1)
        /\ Page' = {got'[1][i] : i \in DOMAIN got'[1]}
    BY DEF Offset, Page
  <2>4. Covered(Table(request.handler), r)'
    BY <2>1, <2>3 DEF Covered, Tied, Above
  <2> QED
    BY <2>1, <2>2, <2>4
<1> QED
  BY <1>1, <1>2 DEF CoverInv

(* What CoverInv says, in terms of the listing and its page. *)
LEMMA CoverBefore ==
    ASSUME CoverInv, NEW listing \in Listings, request.handler = listing,
           NEW p, p = request.arg, NEW table, table = Table(listing)
    PROVE  /\ p \in Nat \ {0}
           /\ \A r \in there :
                /\ r \in DOMAIN table
                /\ \/ Tied(table, r)
                   \/ r \in seen
                   \/ Len(got) = 0 /\ Above(table, r) >= Offset(p)
                   \/ Len(got) > 0 /\ r \in Page
                   \/ /\ Len(got) > 0 /\ Above(table, r) >= Offset(p + 1)
                      /\ Len(got) = 2 /\ ~request.failed => got[2] \in Nat /\ got[2] > Offset(p + 1)
BY DEF CoverInv, Covered

LEMMA TableSame ==
    ASSUME UNCHANGED indexerVars, NEW listing \in Listings
    PROVE  Table(listing)' = Table(listing)
BY DEF indexerVars, db, contents, Table, BlockRows, Listings

(* The page is fetched: a row that is not on an earlier one is on it or comes after it. *)
LEMMA PageCover ==
    ASSUME BaseInv, TablesInv, RequestInv, CoverInv, UNCHANGED indexerVars,
           NEW listing \in Listings, request.handler = listing,
           Asks(0, Select(Table(listing), PageSize, Offset(request.arg)))
    PROVE  CoverInv'
<1>1. PICK p, table : p = request.arg /\ table = Table(listing)
  OBVIOUS
<1>2. /\ p \in Nat \ {0}
      /\ \A r \in there :
           r \in DOMAIN table /\ (Tied(table, r) \/ r \in seen \/ Above(table, r) >= Offset(p))
  <2>1. Len(got) = 0
    BY DEF Asks
  <2> QED
    BY <1>1, <2>1, CoverBefore
<1>3. PICK page \in Select(table, PageSize, Offset(p)) : got' = Append(got, page)
  BY <1>1 DEF Asks
<1>4. Len(got) = 0 /\ UNCHANGED <<request, there, seen>>
  BY DEF Asks
<1>5. Len(got') = 1 /\ got'[1] = page
  <2>1. Len(got') = 0 + 1 /\ got'[0 + 1] = page
    BY <1>3, <1>4, AnswerAdded DEF RequestInv
  <2> QED
    BY <2>1
<1>6. IsFiniteSet(DOMAIN table) /\ \A q \in DOMAIN table : table[q] \in Nat
  BY <1>1, TableFacts
<1>7. /\ PageSize \in Nat \ {0} /\ Offset(p) \in Nat /\ Offset(p + 1) = Offset(p) + PageSize
  BY <1>2, Offsets
<1>8. ASSUME NEW r \in there
      PROVE  \/ Tied(table, r) \/ r \in seen \/ r \in {page[i] : i \in DOMAIN page}
             \/ Above(table, r) >= Offset(p + 1)
  <2> SUFFICES ASSUME ~Tied(table, r), r \notin seen, ~(Above(table, r) >= Offset(p + 1))
               PROVE  r \in {page[i] : i \in DOMAIN page}
    OBVIOUS
  <2>1. r \in DOMAIN table /\ Above(table, r) >= Offset(p)
    BY <1>2
  <2>2. PICK a \in Nat : a = Above(table, r)
    BY <1>6, <2>1, AboveBound
  <2>3. Offset(p) <= a /\ a < Offset(p) + PageSize
    BY <1>7, <2>1, <2>2
  <2> QED
    BY <1>3, <1>6, <1>7, <2>1, <2>2, <2>3, SelectShows
<1>9. table = Table(listing)' /\ request'.handler = listing /\ request'.arg = p
  BY <1>1, <1>4, TableSame
<1> QED
  BY <1>2, <1>4, <1>5, <1>8, <1>9, CoverAfter

(* The total is read: it counts the rows that come after the page. *)
LEMMA TotalCover ==
    ASSUME BaseInv, TablesInv, RequestInv, CoverInv, UNCHANGED indexerVars,
           NEW listing \in Listings, request.handler = listing,
           Asks(1, {GetTotal(Table(listing))}) \/ Tolerates(1, 0)
    PROVE  CoverInv'
<1>1. PICK p, table : p = request.arg /\ table = Table(listing)
  OBVIOUS
<1>2. Len(got) = 1 /\ Answered /\ UNCHANGED <<there, seen>>
  BY DEF Asks, Tolerates, Answered
<1>3. /\ p \in Nat \ {0}
      /\ \A r \in there :
           /\ r \in DOMAIN table
           /\ Tied(table, r) \/ r \in seen \/ r \in Page \/ Above(table, r) >= Offset(p + 1)
  BY <1>1, <1>2, CoverBefore
<1>4. PICK a : got' = Append(got, a) /\ (Asks(1, {GetTotal(Table(listing))}) => a = GetTotal(table))
  BY <1>1 DEF Asks, Tolerates
<1>5. Len(got') = 2 /\ got'[1] = got[1] /\ got'[2] = a
  <2>1. PICK s, u : s = got /\ u = got'
    OBVIOUS
  <2>2. IsList(s) /\ u = Append(s, a) /\ Len(s) = 1
    BY <1>2, <1>4, <2>1 DEF RequestInv
  <2>3. Len(u) = Len(s) + 1 /\ u[Len(s) + 1] = a /\ \A i \in 1 .. Len(s) : u[i] = s[i]
    BY ONLY <2>2, AnswerAdded
  <2> QED
    BY <2>1, <2>2, <2>3
<1>6. IsFiniteSet(DOMAIN table) /\ \A q \in DOMAIN table : table[q] \in Nat
  BY <1>1, TableFacts
<1>7. request'.handler = listing /\ request'.arg = p /\ table = Table(listing)'
  BY <1>1, <1>2, AnsweredRequest, TableSame DEF Listings
<1>8. request'.failed \/ a = GetTotal(table)
  <2>1. CASE Tolerates(1, 0)
    <3>1. request' = [handler |-> request.handler, arg |-> request.arg, failed |-> TRUE]
      BY <2>1 DEF Tolerates, RequestInv
    <3> QED
      BY <3>1
  <2> QED
    BY <1>4, <2>1
<1>9. ASSUME NEW r \in there, Above(table, r) >= Offset(p + 1), ~request'.failed
      PROVE  got'[2] \in Nat /\ got'[2] > Offset(p + 1)
  <2>1. got'[2] = Cardinality(DOMAIN table)
    BY <1>5, <1>8, <1>9 DEF GetTotal
  <2>2. /\ Above(table, r) \in Nat /\ Above(table, r) < Cardinality(DOMAIN table)
        /\ Cardinality(DOMAIN table) \in Nat
    BY <1>3, <1>6, AboveBound
  <2>3. Offset(p + 1) \in Nat
    BY <1>3, Offsets
  <2> QED
    BY <1>9, <2>1, <2>2, <2>3
<1>10. ASSUME NEW r \in there'
       PROVE  /\ r \in DOMAIN table
              /\ \/ Tied(table, r) \/ r \in seen'
                 \/ Len(got') > 0 /\ r \in {got'[1][i] : i \in DOMAIN got'[1]}
                 \/ /\ Len(got') > 0 /\ Above(table, r) >= Offset(p + 1)
                    /\ Len(got') = 2 /\ ~request'.failed
                         => got'[2] \in Nat /\ got'[2] > Offset(p + 1)
  <2>1. r \in there /\ Len(got') > 0
    BY <1>2, <1>5
  <2>2. r \in Page => r \in {got'[1][i] : i \in DOMAIN got'[1]}
    BY <1>5 DEF Page
  <2> QED
    BY <1>2, <1>3, <1>9, <2>1, <2>2
<1> QED
  BY <1>3, <1>7, <1>10, CoverAfter

(* The next page begins where this one ends. *)
LEMMA NextPageCover ==
    ASSUME RequestInv, CoverInv, NextPage
    PROVE  RequestInv' /\ CoverInv' /\ ChunksInv'
<1>1. PICK listing \in Listings : listing = request.handler
  BY DEF NextPage, Listings
<1>2. PICK p, table : p = request.arg /\ table = Table(listing)
  OBVIOUS
<1>3. /\ Len(got) = 2 /\ got' = <<>> /\ UNCHANGED <<indexerVars, there>>
      /\ seen' = seen \cup Page
  BY <1>1 DEF NextPage, Responded, Queries, Page, Listings
<1>4. /\ p \in Nat \ {0}
      /\ \A r \in there :
           /\ r \in DOMAIN table
           /\ Tied(table, r) \/ r \in seen \/ r \in Page \/ Above(table, r) >= Offset(p + 1)
  BY <1>1, <1>2, <1>3, CoverBefore
<1>5. request' = [handler |-> listing, arg |-> p + 1, failed |-> request.failed]
  BY <1>1, <1>2 DEF NextPage, RequestInv
<1>6. Len(got') = 0 /\ IsList(got)'
  BY <1>3 DEF IsList
<1>7. RequestInv'
  BY <1>3, <1>5, <1>6 DEF RequestInv
<1>8. ChunksInv'
  BY <1>5 DEF ChunksInv, Listings
<1>9. CoverInv'
  <2>1. /\ p + 1 \in Nat \ {0} /\ request'.handler = listing /\ request'.arg = p + 1
        /\ table = Table(listing)'
    BY <1>2, <1>3, <1>4, <1>5, TableSame
  <2>2. \A r \in there' :
          r \in DOMAIN table /\ (Tied(table, r) \/ r \in seen' \/ Above(table, r) >= Offset(p + 1))
    BY <1>3, <1>4
  <2> QED
    BY <1>6, <2>1, <2>2, CoverAfter
<1> QED
  BY <1>7, <1>8, <1>9

(* The indexer adds rows while the reader waits. *)
LEMMA IndexerReader ==
    ASSUME ReaderInv, BaseInv', TablesInv', TablesExtend, UNCHANGED clientVars
    PROVE  ReaderInv'
<1>1. UNCHANGED <<request, got, there, seen>>
  BY DEF clientVars
<1>2. RequestInv'
  BY <1>1 DEF ReaderInv, RequestInv, IsList
<1>3. CoverInv'
  <2>1. CASE request.handler \notin Listings
    BY <1>1, <2>1 DEF CoverInv
  <2>2. CASE request.handler \in Listings
    <3>1. PICK listing \in Listings : listing = request.handler
      BY <2>2
    <3>2. PICK p, table, later : p = request.arg /\ table = Table(listing) /\ later = Table(listing)'
      OBVIOUS
    <3>3. /\ p \in Nat \ {0}
          /\ \A r \in there :
               /\ r \in DOMAIN table
               /\ \/ Tied(table, r)
                  \/ r \in seen
                  \/ Len(got) = 0 /\ Above(table, r) >= Offset(p)
                  \/ Len(got) > 0 /\ r \in Page
                  \/ /\ Len(got) > 0 /\ Above(table, r) >= Offset(p + 1)
                     /\ Len(got) = 2 /\ ~request.failed => got[2] \in Nat /\ got[2] > Offset(p + 1)
      BY <3>1, <3>2, CoverBefore DEF ReaderInv
    <3>4. Extends(table, later) /\ IsFiniteSet(DOMAIN later)
      BY <3>2, TableExtends
    <3>5. Offset(p) \in Int /\ Offset(p + 1) \in Int
      BY <3>3, Offsets
    <3>6. ASSUME NEW r \in there
          PROVE  /\ r \in DOMAIN later /\ Above(table, r) \in Int /\ Above(later, r) \in Int
                 /\ Above(table, r) <= Above(later, r)
                 /\ Tied(table, r) => Tied(later, r)
      <4>1. r \in DOMAIN table
        BY <3>3
      <4> QED
        BY <3>4, <4>1, RowsMoveDown DEF Extends
    <3>7. ASSUME NEW r \in there
          PROVE  /\ Above(table, r) >= Offset(p) => Above(later, r) >= Offset(p)
                 /\ Above(table, r) >= Offset(p + 1) => Above(later, r) >= Offset(p + 1)
      BY <3>5, <3>6
    <3>8. Page = {got'[1][i] : i \in DOMAIN got'[1]}
      BY <1>1 DEF Page
    <3>9. ASSUME NEW r \in there'
          PROVE  /\ r \in DOMAIN later
                 /\ \/ Tied(later, r)
                    \/ r \in seen'
                    \/ Len(got') = 0 /\ Above(later, r) >= Offset(p)
                    \/ Len(got') > 0 /\ r \in {got'[1][i] : i \in DOMAIN got'[1]}
                    \/ /\ Len(got') > 0 /\ Above(later, r) >= Offset(p + 1)
                       /\ Len(got') = 2 /\ ~request'.failed
                            => got'[2] \in Nat /\ got'[2] > Offset(p + 1)
      BY <1>1, <3>3, <3>6, <3>7, <3>8
    <3>10. request'.handler = listing /\ request'.arg = p
      BY <1>1, <3>1, <3>2
    <3> QED
      BY <3>2, <3>3, <3>9, <3>10, CoverAfter
  <2> QED
    BY <2>1, <2>2
<1>4. ChunksInv'
  <2>1. ChunksListed' <=> ChunksListed
    BY <1>1 DEF ChunksListed, Responded
  <2> QED
    BY <1>1, <2>1 DEF ReaderInv, ChunksInv, TablesExtend
<1> QED
  BY <1>2, <1>3, <1>4 DEF ReaderInv

LEMMA ChunksRead ==
    ASSUME TablesInv, RequestInv, ChunksInv, UNCHANGED indexerVars,
           request.handler = "fileDetails", handleFileDetails, Answered
    PROVE  ChunksInv'
<1>1. PICK f : f = request.arg
  OBVIOUS
<1>2. f \in DOMAIN ChunksOf /\ \A c \in there : <<f, c>> \in DOMAIN fileChunks
  BY <1>1 DEF ChunksInv
<1>3. UNCHANGED <<there, fileChunks>>
  BY DEF Answered, indexerVars, db, contents
<1>4. request'.handler = "fileDetails" /\ request'.arg = f
  BY <1>1, AnsweredRequest
<1>5. ChunksListed'
  <2> SUFFICES ASSUME Len(got') = 2, ~request'.failed PROVE ChunksListed'
    BY <1>4 DEF ChunksListed, Responded, Queries
  <2>1. PICK s, u : s = got /\ u = got'
    OBVIOUS
  <2>2. PICK a : u = Append(s, a)
    BY <2>1 DEF Answered
  <2>3. /\ Len(s) \in Nat /\ Len(u) = Len(s) + 1 /\ u[Len(s) + 1] = a
    <3>1. IsList(s)
      BY <2>1 DEF RequestInv
    <3> QED
      BY ONLY <2>2, <3>1, AnswerAdded
  <2>4. Len(s) = 1
    <3>1. PICK m \in Nat : m = Len(s)
      BY <2>3
    <3>2. 2 = m + 1
      BY <2>1, <2>3, <3>1
    <3> QED
      BY <3>1, <3>2
  <2>5. ~Tolerates(1, <<>>)
    <3> SUFFICES ASSUME Tolerates(1, <<>>) PROVE FALSE
      OBVIOUS
    <3>1. request' = [handler |-> request.handler, arg |-> request.arg, failed |-> TRUE]
      BY DEF Tolerates, RequestInv
    <3> QED
      BY <3>1
  <2>6. Asks(1, {GetFileChunks(f)})
    <3>1. ~Asks(0, {files[f]}) /\ ~Returns(0) /\ ~GivesUp(0)
      BY <2>1, <2>4 DEF Asks, Returns, GivesUp
    <3> QED
      BY <1>1, <2>5, <3>1 DEF handleFileDetails
  <2>7. u = Append(s, GetFileChunks(f))
    BY <2>1, <2>6 DEF Asks
  <2>8. PICK list : list = GetFileChunks(f)
    OBVIOUS
  <2>9. got'[2] = list
    <3>1. u[Len(s) + 1] = list
      <4>1. IsList(s)
        BY <2>1 DEF RequestInv
      <4> QED
        BY ONLY <2>7, <2>8, <4>1, AnswerAdded
    <3> QED
      BY <2>1, <2>4, <3>1
  <2>10. /\ \A c : <<f, c>> \in DOMAIN fileChunks => \E i \in DOMAIN list : list[i].chunk = c
         /\ \A i \in DOMAIN list : ChunksOf[f][list[i].index] = list[i].chunk
         /\ \A i, j \in DOMAIN list :
              i < j => list[i].index < list[j].index /\ list[i].chunk # list[j].chunk
    BY <1>2, <2>8, FileChunksAre
  <2>11. ASSUME NEW c \in there' PROVE c \in {list[i].chunk : i \in DOMAIN list}
    <3>1. <<f, c>> \in DOMAIN fileChunks
      BY <1>2, <1>3
    <3>2. PICK i \in DOMAIN list : list[i].chunk = c
      BY <2>10, <3>1
    <3> QED
      BY <3>2
  <2> QED
    BY <1>4, <2>9, <2>10, <2>11 DEF ChunksListed
<1> QED
  BY <1>2, <1>3, <1>4, <1>5 DEF ChunksInv

LEMMA HandlerReader ==
    ASSUME BaseInv, TablesInv, ReaderInv, Handlers
    PROVE  ReaderInv'
<1>1. UNCHANGED indexerVars
  BY ClientReads
<1>2. RequestInv /\ CoverInv /\ ChunksInv
  BY DEF ReaderInv
<1>3. CASE Over
  BY <1>3, OverReader
<1>4. CASE Answered /\ ~Over
  <2>1. request.handler # "none"
    BY HandlerIs
  <2>2. RequestInv' /\ request'.handler = request.handler
    BY <1>2, <1>4, <2>1, AnsweredRequest
  <2>3. CoverInv'
    <3>1. CASE request.handler \notin Listings
      BY <2>2, <3>1 DEF CoverInv
    <3>2. CASE request.handler \in Listings
      <4>1. PICK listing \in Listings : listing = request.handler /\ HandleListing(listing)
        BY <3>2, HandlerIs
      <4>2. ~GivesUp(0)
        BY <1>4 DEF GivesUp, Returns, Over
      <4>3. CASE Asks(0, Select(Table(listing), PageSize, Offset(request.arg)))
        BY <1>1, <1>2, <4>1, <4>3, PageCover
      <4>4. CASE Asks(1, {GetTotal(Table(listing))}) \/ Tolerates(1, 0)
        BY <1>1, <1>2, <4>1, <4>4, TotalCover
      <4> QED
        BY <4>1, <4>2, <4>3, <4>4 DEF HandleListing
    <3> QED
      BY <3>1, <3>2
  <2>4. ChunksInv'
    <3>1. CASE request.handler # "fileDetails"
      BY <2>2, <3>1 DEF ChunksInv
    <3>2. CASE request.handler = "fileDetails"
      BY <1>1, <1>2, <1>4, <3>2, HandlerIs, ChunksRead
    <3> QED
      BY <3>1, <3>2
  <2> QED
    BY <2>2, <2>3, <2>4 DEF ReaderInv
<1> QED
  BY <1>3, <1>4, HandlerIs

LEMMA GetReader ==
    ASSUME BaseInv, TablesInv, ReaderInv, Get
    PROVE  ReaderInv'
<1>1. UNCHANGED indexerVars
  BY ClientReads
<1>2. PICK handler, arg : Requests(handler, arg) /\ request' = [handler |-> handler, arg |-> arg,
                                                                failed |-> FALSE]
  BY DEF Get, Requests
<1>3. got = <<>> /\ UNCHANGED <<got, seen>>
  BY <1>2 DEF Requests, ReaderInv, RequestInv
<1>4. Len(got') = 0 /\ IsList(got)'
  BY <1>3 DEF IsList
<1>5. RequestInv'
  BY <1>2, <1>3, <1>4 DEF RequestInv
<1>6. request'.handler = handler /\ request'.arg = arg
  BY <1>2
<1>7. CoverInv'
  <2>1. CASE handler \notin Listings
    BY <1>6, <2>1 DEF CoverInv
  <2>2. CASE handler \in Listings
    <3>1. there' = DOMAIN Table(handler) /\ arg = 1
      <4>1. \E l \in Listings : Requests(l, 1) /\ there' = DOMAIN Table(l)
        <5>1. \A n, b : Requests(n, b) => n = handler
          BY <1>6 DEF Requests
        <5> QED
          BY <2>2, <5>1 DEF Get, Listings
      <4>2. PICK l \in Listings : Requests(l, 1) /\ there' = DOMAIN Table(l)
        BY <4>1
      <4>3. l = handler /\ arg = 1
        BY <1>6, <4>2 DEF Requests
      <4> QED
        BY <4>2, <4>3
    <3>2. PICK table : table = Table(handler)
      OBVIOUS
    <3>3. table = Table(handler)'
      BY <1>1, <2>2, <3>2, TableSame
    <3>4. IsFiniteSet(DOMAIN table) /\ \A q \in DOMAIN table : table[q] \in Nat
      BY <2>2, <3>2, TableFacts
    <3>5. Offset(1) = 0
      BY Offsets
    <3>6. ASSUME NEW r \in there' PROVE r \in DOMAIN table /\ Above(table, r) >= Offset(1)
      <4>1. r \in DOMAIN table
        BY <3>1, <3>2
      <4>2. Above(table, r) \in Nat
        BY <3>4, <4>1, AboveBound
      <4> QED
        BY <3>5, <4>1, <4>2
    <3> QED
      BY <1>4, <1>6, <2>2, <3>1, <3>3, <3>6, CoverAfter
  <2> QED
    BY <2>1, <2>2
<1>8. ChunksInv'
  <2>1. CASE handler # "fileDetails"
    BY <1>6, <2>1 DEF ChunksInv
  <2>2. CASE handler = "fileDetails"
    <3>1. PICK f \in DOMAIN ChunksOf :
            /\ Requests("fileDetails", f)
            /\ there' = {k[2] : k \in {l \in DOMAIN fileChunks : l[1] = f}}
      <4>1. \A n, b : Requests(n, b) => n = handler
        BY <1>6 DEF Requests
      <4> QED
        BY <2>2, <4>1 DEF Get
    <3>2. request'.arg = f /\ UNCHANGED fileChunks
      BY <1>1, <3>1 DEF Requests, indexerVars, db, contents
    <3>3. ASSUME NEW c \in there' PROVE <<f, c>> \in DOMAIN fileChunks'
      <4>1. PICK k \in DOMAIN fileChunks : k[1] = f /\ c = k[2]
        BY <3>1
      <4>2. k = <<f, c>>
        BY <4>1 DEF TablesInv
      <4> QED
        BY <3>2, <4>1, <4>2
    <3>4. ChunksListed'
      BY <1>4 DEF ChunksListed, Responded, Queries
    <3> QED
      BY <3>2, <3>3, <3>4 DEF ChunksInv
  <2> QED
    BY <2>1, <2>2
<1> QED
  BY <1>5, <1>7, <1>8 DEF ReaderInv

LEMMA NextReader ==
    ASSUME BaseInv, TablesInv, ReaderInv, [Next]_vars, BaseInv', TablesInv', TablesExtend
    PROVE  ReaderInv'
<1>1. CASE UNCHANGED clientVars
  BY <1>1, IndexerReader
<1>2. CASE Handlers
  BY <1>2, HandlerReader
<1>3. CASE Get
  BY <1>3, GetReader
<1>4. CASE NextPage
  BY <1>4, NextPageCover DEF ReaderInv
<1>5. CASE Leave
  BY <1>5, OverReader DEF Leave, Over
<1> QED
  BY <1>1, <1>2, <1>3, <1>4, <1>5 DEF Next, vars

LEMMA ReaderInvariance == Spec => [](BaseInv /\ TablesInv /\ ReaderInv)
<1>1. Init => ReaderInv
  <2> SUFFICES ASSUME Init PROVE ReaderInv
    OBVIOUS
  <2>1. request = [handler |-> "none", arg |-> 0, failed |-> FALSE] /\ got = <<>>
    BY DEF Init, Idle
  <2>2. IsList(got) /\ request.handler = "none"
    BY <2>1 DEF IsList
  <2> QED
    BY <2>1, <2>2 DEF ReaderInv, RequestInv, CoverInv, ChunksInv, Listings
<1>2. BaseInv /\ StorageInv /\ TablesInv /\ ReaderInv /\ [Next]_vars => ReaderInv'
  BY NextReader, NextBase, NextTables
<1> QED
  BY <1>1, <1>2, TablesInvariance, PTL DEF Spec

-----------------------------------------------------------------------------

(* PagesCover for every page size and chain: whoever follows a listing to its last page *)
(* has been shown every row that was there when it began, however many rows the indexer *)
(* puts above them meanwhile, unless another row has the same height. *)
THEOREM PagesTheorem == Spec => []PagesCover
<1>1. ASSUME BaseInv, TablesInv, ReaderInv PROVE PagesCover
  <2> SUFFICES ASSUME NEW listing \in Listings, Responded(listing), ~HasNext, ~request.failed,
                      NEW r \in there
               PROVE  \/ r \in seen \cup {got[1][i] : i \in DOMAIN got[1]}
                      \/ \E q \in DOMAIN Table(listing) \ {r} : Table(listing)[q] = Table(listing)[r]
    BY DEF PagesCover, Listings
  <2>1. PICK p, table : p = request.arg /\ table = Table(listing)
    OBVIOUS
  <2>2. request.handler = listing /\ Len(got) = 2
    BY DEF Responded, Queries, Listings
  <2>3. /\ p \in Nat \ {0}
        /\ \/ Tied(table, r) \/ r \in seen \/ r \in Page
           \/ got[2] \in Nat /\ got[2] > Offset(p + 1)
    BY <1>1, <2>1, <2>2, CoverBefore DEF ReaderInv
  <2>4. CASE got[2] \in Nat /\ got[2] > Offset(p + 1)
    <3>1. PageSize \in Nat \ {0} /\ got[2] > p * PageSize
      BY <2>3, <2>4, Offsets
    <3>2. p < (got[2] + PageSize - 1) \div PageSize
      BY <2>3, <2>4, <3>1, MorePages
    <3> QED
      BY <2>1, <3>2 DEF HasNext, TotalPages
  <2> QED
    BY <2>1, <2>3, <2>4 DEF Tied, Page
<1> QED
  BY <1>1, ReaderInvariance, PTL

(* ChunksListed for every manifest, whatever chunks it repeats and however often the file *)
(* is indexed between the queries. *)
THEOREM ChunksTheorem == Spec => []ChunksListed
<1>1. ReaderInv => ChunksListed
  BY DEF ReaderInv, ChunksInv, ChunksListed, Responded
<1> QED
  BY <1>1, ReaderInvariance, PTL
-----------------------------------------------------------------------------
(* What a page shows of the storage it reports. *)

(* The n-th answer if it is there, else what the query would answer now. *)
Reads(n, now) == IF Len(got) >= n THEN got[n] ELSE now

Shows(it) ==
    /\ it.kind = "chunk" => it.id \in Reads(4, GetByBlockHeight(chunks, request.arg))
    /\ it.kind = "file" => it.id \in Reads(2, GetByBlockHeight(files, request.arg))
    /\ it.kind = "dir" => it.id \in Reads(3, GetByBlockHeight(directories, request.arg))

(* The storage of the block is that of items which the page shows or will show. *)
DetailsInv ==
    request.handler = "blockDetails" =>
        /\ request.arg \in Heights
        /\ Len(got) > 0 /\ ~request.failed =>
             got[1] \in Nat /\ \E S \in SUBSET DOMAIN Items(request.arg) :
                 /\ got[1] <= Cardinality(S)
                 /\ \A i \in S : Shows(Items(request.arg)[i])

AtLeast(n, count) == count \in Nat /\ n <= count

(* So is the storage of all blocks, but for repeated items. *)
AnalyticsInv ==
    request.handler = "apiGetAnalytics" /\ Len(got) > 0 =>
        \E c, f, d \in Nat :
            /\ got[1].storage \in Nat /\ got[1].storage <= c + f + d + Repeats
            /\ AtLeast(c, Reads(2, Cardinality(DOMAIN chunks)))
            /\ AtLeast(f, Reads(3, Cardinality(DOMAIN files)))
            /\ AtLeast(d, Reads(4, Cardinality(DOMAIN directories)))

(* The home page lists the blocks it has counted, up to its limit. *)
HomeInv ==
    request.handler = "home" /\ Len(got) > 0 /\ ~request.failed =>
        /\ AtLeast(got[1].blocks, Cardinality(DOMAIN storageUsed)) /\ got[1].blocks \in Nat
        /\ Len(got) > 1 => Len(got[2]) >= Min({got[1].blocks, RecentLimit})

BackedInv == DetailsInv /\ AnalyticsInv /\ HomeInv

-----------------------------------------------------------------------------
(* If no set F[h] is larger than the set G[h], there are no more pairs in all. *)
Pairs(F) == UNION {{h} \X F[h] : h \in DOMAIN F}

LEMMA PairIs ==
    ASSUME NEW F, NEW e
    PROVE  e \in Pairs(F) <=> \E h \in DOMAIN F : \E x \in F[h] : e = <<h, x>>
BY DEF Pairs

LEMMA FewerPairs ==
    ASSUME NEW F, NEW G, DOMAIN F \subseteq DOMAIN G, IsFiniteSet(Pairs(G)),
           \A h \in DOMAIN F : \E f : f \in Injection(F[h], G[h])
    PROVE  IsFiniteSet(Pairs(F)) /\ Cardinality(Pairs(F)) <= Cardinality(Pairs(G))
<1>1. PICK b : b = [h \in DOMAIN F |-> CHOOSE f : f \in Injection(F[h], G[h])]
  OBVIOUS
<1>2. \A h \in DOMAIN F : b[h] \in Injection(F[h], G[h])
  <2> SUFFICES ASSUME NEW h \in DOMAIN F PROVE b[h] \in Injection(F[h], G[h])
    OBVIOUS
  <2>1. \E f : f \in Injection(F[h], G[h])
    OBVIOUS
  <2>2. b[h] = CHOOSE f : f \in Injection(F[h], G[h])
    BY <1>1
  <2> QED
    BY ONLY <2>1, <2>2
<1>3. \A h \in DOMAIN F : /\ \A x \in F[h] : b[h][x] \in G[h]
                          /\ \A x, y \in F[h] : b[h][x] = b[h][y] => x = y
  BY <1>2 DEF Injection, IsInjective
<1>4. PICK P, Q : P = Pairs(F) /\ Q = Pairs(G)
  OBVIOUS
<1>5. \A e \in P : e[1] \in DOMAIN F /\ e[2] \in F[e[1]] /\ e = <<e[1], e[2]>>
  BY <1>4, PairIs
<1>6. PICK g : g = [e \in P |-> <<e[1], b[e[1]][e[2]]>>]
  OBVIOUS
<1>7. ASSUME NEW e \in P PROVE g[e] = <<e[1], b[e[1]][e[2]]>> /\ g[e] \in Q
  <2>1. g[e] = <<e[1], b[e[1]][e[2]]>>
    BY <1>6
  <2>2. e[1] \in DOMAIN G /\ b[e[1]][e[2]] \in G[e[1]]
    BY <1>3, <1>5
  <2>3. \E h \in DOMAIN G : \E x \in G[h] : g[e] = <<h, x>>
    BY <2>1, <2>2
  <2> QED
    BY <1>4, <2>1, <2>3, PairIs
<1>8. ASSUME NEW d \in P, NEW e \in P, g[d] = g[e] PROVE d = e
  <2>1. d[1] = e[1] /\ b[d[1]][d[2]] = b[e[1]][e[2]]
    BY <1>7, <1>8
  <2>2. d[2] = e[2]
    BY <1>3, <1>5, <2>1
  <2> QED
    BY <1>5, <2>1, <2>2
<1>9. g \in Injection(P, Q)
  <2>1. g \in [P -> Q]
    BY <1>6, <1>7
  <2> QED
    BY <1>8, <2>1 DEF Injection, IsInjective
<1> QED
  BY <1>4, <1>9, FS_Injection

(* There are finitely many pairs of finitely many finite sets. *)
LEMMA PairsFinite ==
    ASSUME NEW F, IsFiniteSet(DOMAIN F), \A h \in DOMAIN F : IsFiniteSet(F[h])
    PROVE  IsFiniteSet(Pairs(F))
<1>1. PICK D, U : D = DOMAIN F /\ U = {{h} \X F[h] : h \in DOMAIN F}
  OBVIOUS
<1>2. PICK g : g = [h \in D |-> {h} \X F[h]]
  OBVIOUS
<1>3. g \in Surjection(D, U)
  BY <1>1, <1>2 DEF Surjection
<1>4. IsFiniteSet(U)
  BY <1>1, <1>3, FS_Surjection
<1>5. ASSUME NEW T \in U PROVE IsFiniteSet(T)
  <2>1. PICK h \in D : T = {h} \X F[h]
    BY <1>1
  <2>2. IsFiniteSet({h}) /\ IsFiniteSet(F[h])
    BY <1>1, FS_Singleton
  <2> QED
    BY <2>1, <2>2, FS_Product
<1>6. IsFiniteSet(UNION U)
  BY <1>4, <1>5, FS_UNION
<1> QED
  BY <1>1, <1>6 DEF Pairs

(* A set of n elements has an injection from 1 .. m for each m up to n. *)
LEMMA Enumerated ==
    ASSUME NEW S, IsFiniteSet(S), NEW m \in Nat, m <= Cardinality(S)
    PROVE  \E f : f \in Injection(1 .. m, S)
<1>1. PICK n \in Nat : n = Cardinality(S)
  BY FS_CardinalityType
<1>2. PICK b : b \in Bijection(1 .. n, S)
  <2>1. ExistsBijection(1 .. n, S)
    BY <1>1, FS_CardinalityType
  <2> QED
    BY <2>1 DEF ExistsBijection
<1>3. /\ b \in [1 .. n -> S] /\ \A x, y \in 1 .. n : b[x] = b[y] => x = y
  BY <1>2 DEF Bijection, Injection, IsInjective
<1>4. PICK f : f = [x \in 1 .. m |-> b[x]]
  OBVIOUS
<1>5. \A x \in 1 .. m : x \in 1 .. n
  BY <1>1
<1>6. f \in [1 .. m -> S] /\ \A x, y \in 1 .. m : f[x] = f[y] => x = y
  BY <1>3, <1>4, <1>5
<1>7. f \in Injection(1 .. m, S)
  BY <1>6 DEF Injection, IsInjective
<1> QED
  BY <1>7

(* No two blocks list the same item. *)
LEMMA OneBlock ==
    ASSUME NEW g \in Heights, NEW h \in Heights, NEW i \in DOMAIN Items(g), NEW j \in DOMAIN Items(h),
           Items(g)[i].kind = Items(h)[j].kind, Items(g)[i].id = Items(h)[j].id
    PROVE  g = h
<1>1. SUFFICES ASSUME g # h PROVE FALSE
  OBVIOUS
<1>2. PICK s, t : s = Items(g)[i] /\ t = Items(h)[j]
  OBVIOUS
<1>3. /\ s.kind = "chunk" => \E k \in DOMAIN Body[g].chunks : s.id = Body[g].chunks[k]
      /\ s.kind = "file" => \E k \in DOMAIN Body[g].files : s.id = Body[g].files[k]
      /\ s.kind = "dir" => \E k \in DOMAIN Body[g].dirs : s.id = Body[g].dirs[k]
  BY <1>2, ItemListed
<1>4. /\ t.kind = "chunk" => \E k \in DOMAIN Body[h].chunks : t.id = Body[h].chunks[k]
      /\ t.kind = "file" => \E k \in DOMAIN Body[h].files : t.id = Body[h].files[k]
      /\ t.kind = "dir" => \E k \in DOMAIN Body[h].dirs : t.id = Body[h].dirs[k]
  BY <1>2, ItemListed
<1>5. s.kind = "chunk" \/ s.kind = "file" \/ s.kind = "dir"
  <2>1. s \in ItemSet
    BY <1>2, ItemsType
  <2> QED
    BY <2>1 DEF ItemSet
<1> QED
  BY <1>1, <1>2, <1>3, <1>4, <1>5, IdentifierAssumption

(* The own row of a complete item has the height of its block. *)
LEMMA CompleteRow ==
    ASSUME TablesInv, NEW h \in Heights, NEW k \in DOMAIN Items(h), NEW it, it = Items(h)[k],
           Complete(it)
    PROVE  /\ it.kind = "chunk" => it.id \in DOMAIN chunks /\ chunks[it.id] = h
           /\ it.kind = "file" => it.id \in DOMAIN files /\ files[it.id] = h
           /\ it.kind = "dir" => it.id \in DOMAIN directories /\ directories[it.id] = h
<1>1. /\ it.kind = "chunk" => \E i \in DOMAIN Body[h].chunks : it.id = Body[h].chunks[i]
      /\ it.kind = "file" => \E i \in DOMAIN Body[h].files : it.id = Body[h].files[i]
      /\ it.kind = "dir" => \E i \in DOMAIN Body[h].dirs : it.id = Body[h].dirs[i]
  BY ItemListed
<1>2. PICK x : x = it.id
  OBVIOUS
<1>3. CASE it.kind = "chunk"
  <2>1. x \in DOMAIN chunks
    BY <1>2, <1>3 DEF Complete
  <2>2. PICK g \in Heights : g = chunks[x] /\ \E j \in DOMAIN Body[g].chunks : Body[g].chunks[j] = x
    BY <2>1 DEF TablesInv
  <2>3. g = h
    BY <1>1, <1>2, <1>3, <2>2, IdentifierAssumption
  <2> QED
    BY <1>2, <1>3, <2>1, <2>2, <2>3
<1>4. CASE it.kind = "file"
  <2>1. x \in DOMAIN files
    BY <1>2, <1>4 DEF Complete
  <2>2. PICK g \in Heights : g = files[x] /\ \E j \in DOMAIN Body[g].files : Body[g].files[j] = x
    BY <2>1 DEF TablesInv
  <2>3. g = h
    BY <1>1, <1>2, <1>4, <2>2, IdentifierAssumption
  <2> QED
    BY <1>2, <1>4, <2>1, <2>2, <2>3
<1>5. CASE it.kind = "dir"
  <2>1. x \in DOMAIN directories
    BY <1>2, <1>5 DEF Complete
  <2>2. PICK g \in Heights : g = directories[x] /\ \E j \in DOMAIN Body[g].dirs : Body[g].dirs[j] = x
    BY <2>1 DEF TablesInv
  <2>3. g = h
    BY <1>1, <1>2, <1>5, <2>2, IdentifierAssumption
  <2> QED
    BY <1>2, <1>5, <2>1, <2>2, <2>3
<1>6. it \in ItemSet
  BY ItemsType
<1> QED
  BY <1>3, <1>4, <1>5, <1>6 DEF ItemSet

(* The rows of the three tables, tagged as items are. *)
RowSet == ({"chunk"} \X DOMAIN chunks) \cup ({"file"} \X DOMAIN files)
                                       \cup ({"dir"} \X DOMAIN directories)

LEMMA RowCount ==
    ASSUME TablesInv
    PROVE  /\ IsFiniteSet(RowSet)
           /\ Cardinality(DOMAIN chunks) \in Nat /\ Cardinality(DOMAIN files) \in Nat
           /\ Cardinality(DOMAIN directories) \in Nat
           /\ Cardinality(RowSet) = Cardinality(DOMAIN chunks) + Cardinality(DOMAIN files)
                                      + Cardinality(DOMAIN directories)
<1>1. PICK c, f, d : c = DOMAIN chunks /\ f = DOMAIN files /\ d = DOMAIN directories
  OBVIOUS
<1>2. IsFiniteSet(c) /\ IsFiniteSet(f) /\ IsFiniteSet(d)
  BY <1>1 DEF TablesInv
<1>3. PICK nc \in Nat, nf \in Nat, nd \in Nat :
        nc = Cardinality(c) /\ nf = Cardinality(f) /\ nd = Cardinality(d)
  BY <1>2, FS_CardinalityType
<1>4. ASSUME NEW tag, NEW S, IsFiniteSet(S), NEW n \in Nat, n = Cardinality(S)
      PROVE  IsFiniteSet({tag} \X S) /\ Cardinality({tag} \X S) = n
  <2>1. IsFiniteSet({tag}) /\ Cardinality({tag}) = 1
    BY FS_Singleton
  <2>2. IsFiniteSet({tag} \X S) /\ Cardinality({tag} \X S) = 1 * n
    BY <1>4, <2>1, FS_Product
  <2> QED
    BY <2>2
<1>5. PICK C, F, D : C = {"chunk"} \X c /\ F = {"file"} \X f /\ D = {"dir"} \X d
  OBVIOUS
<1>6. /\ IsFiniteSet(C) /\ Cardinality(C) = nc /\ IsFiniteSet(F) /\ Cardinality(F) = nf
      /\ IsFiniteSet(D) /\ Cardinality(D) = nd
  BY <1>2, <1>3, <1>4, <1>5
<1>7. C \cap F = {} /\ (C \cup F) \cap D = {}
  BY <1>5
<1>8. Cardinality(C \cap F) = 0 /\ Cardinality((C \cup F) \cap D) = 0
  BY <1>7, FS_EmptySet
<1>9. IsFiniteSet(C \cup F) /\ Cardinality(C \cup F) = nc + nf
  <2>1. /\ IsFiniteSet(C \cup F)
        /\ Cardinality(C \cup F) = Cardinality(C) + Cardinality(F) - Cardinality(C \cap F)
    BY <1>6, FS_Union
  <2> QED
    BY <1>6, <1>8, <2>1
<1>10. IsFiniteSet((C \cup F) \cup D) /\ Cardinality((C \cup F) \cup D) = nc + nf + nd
  <2>1. PICK E : E = C \cup F
    OBVIOUS
  <2>2. /\ IsFiniteSet(E \cup D)
        /\ Cardinality(E \cup D) = Cardinality(E) + Cardinality(D) - Cardinality(E \cap D)
    BY <1>6, <1>9, <2>1, FS_Union
  <2> QED
    BY <1>6, <1>8, <1>9, <2>1, <2>2
<1>11. RowSet = (C \cup F) \cup D
  BY <1>1, <1>5 DEF RowSet
<1> QED
  BY <1>1, <1>3, <1>10, <1>11

(* The storage counted in all rows is at most that of the items shown: each is of an item *)
(* whose row is in a table, and one that repeats an item of its block is in Repeats. *)
LEMMA StorageBound ==
    ASSUME BaseInv, StorageInv, TablesInv
    PROVE  /\ Cardinality(StorageSum) \in Nat /\ Repeats \in Nat
           /\ Cardinality(StorageSum) <= Cardinality(DOMAIN chunks) + Cardinality(DOMAIN files)
                                           + Cardinality(DOMAIN directories) + Repeats
<1>1. PICK D : D = DOMAIN storageUsed
  OBVIOUS
<1>2. D \subseteq Heights /\ \A h \in D : storageUsed[h] \in Nat
  BY <1>1 DEF BaseInv, IndexerTypeOK
<1>3. PICK F, G, R : /\ F = [h \in D |-> 1 .. storageUsed[h]]
                     /\ G = [h \in D |-> CompleteItems(h)]
                     /\ R = [h \in Heights |-> Repeated(h)]
  OBVIOUS
<1>4. ASSUME NEW h \in Heights
      PROVE  IsFiniteSet(CompleteItems(h)) /\ IsFiniteSet(Repeated(h)) /\ IsFiniteSet(DOMAIN Items(h))
  <2>1. PICK n \in Nat : DOMAIN Items(h) = 1 .. n
    BY ItemsType
  <2>2. IsFiniteSet(1 .. n)
    BY FS_Interval
  <2>3. CompleteItems(h) \in SUBSET (1 .. n) /\ Repeated(h) \in SUBSET (1 .. n)
    BY <2>1 DEF CompleteItems, Repeated
  <2> QED
    BY <2>1, <2>2, <2>3, FS_Subset
<1>5. IsFiniteSet(Heights)
  BY HeightAssumption, FS_Interval DEF Heights
<1>6. StorageSum = Pairs(F) /\ Repeats = Cardinality(Pairs(R))
  <2>1. DOMAIN F = D /\ \A h \in D : F[h] = 1 .. storageUsed[h]
    BY <1>3
  <2>2. DOMAIN R = Heights /\ \A h \in Heights : R[h] = Repeated(h)
    BY <1>3
  <2>3. {{h} \X (1 .. storageUsed[h]) : h \in D} = {{h} \X F[h] : h \in D}
    BY <2>1
  <2>4. {{h} \X Repeated(h) : h \in Heights} = {{h} \X R[h] : h \in Heights}
    BY <2>2
  <2> QED
    BY <1>1, <2>1, <2>2, <2>3, <2>4 DEF StorageSum, Repeats, Pairs
<1>7. IsFiniteSet(Pairs(R))
  BY <1>3, <1>4, <1>5, PairsFinite
<1>8. IsFiniteSet(Pairs(G))
  <2>1. IsFiniteSet(D)
    BY <1>2, <1>5, FS_Subset
  <2> QED
    BY <1>2, <1>3, <1>4, <2>1, PairsFinite
<1>9. IsFiniteSet(Pairs(F)) /\ Cardinality(Pairs(F)) <= Cardinality(Pairs(G))
  <2>1. ASSUME NEW h \in DOMAIN F PROVE \E f : f \in Injection(F[h], G[h])
    <3>1. h \in D /\ h \in Heights /\ F[h] = 1 .. storageUsed[h] /\ G[h] = CompleteItems(h)
      BY <1>2, <1>3
    <3>2. storageUsed[h] \in Nat /\ storageUsed[h] <= Cardinality(CompleteItems(h))
      BY <1>1, <1>2, <3>1 DEF StorageInv
    <3> QED
      BY <1>4, <3>1, <3>2, Enumerated
  <2>2. DOMAIN F \subseteq DOMAIN G
    BY <1>3
  <2> QED
    BY <1>8, <2>1, <2>2, FewerPairs
<1>10. PICK W, P, N : W = Pairs(G) /\ P = W \cap Pairs(R) /\ N = W \ Pairs(R)
  OBVIOUS
<1>11. \A e \in W : /\ e[1] \in Heights /\ e[2] \in DOMAIN Items(e[1]) /\ e = <<e[1], e[2]>>
                    /\ Complete(Items(e[1])[e[2]])
  <2> SUFFICES ASSUME NEW e \in W
               PROVE  /\ e[1] \in Heights /\ e[2] \in DOMAIN Items(e[1]) /\ e = <<e[1], e[2]>>
                      /\ Complete(Items(e[1])[e[2]])
    OBVIOUS
  <2>1. PICK h \in DOMAIN G : \E x \in G[h] : e = <<h, x>>
    BY <1>10, PairIs
  <2>2. PICK x \in G[h] : e = <<h, x>>
    BY <2>1
  <2>3. h \in Heights /\ x \in CompleteItems(h) /\ e[1] = h /\ e[2] = x
    BY <1>2, <1>3, <2>2
  <2> QED
    BY <2>2, <2>3 DEF CompleteItems
<1>12. \A e \in N : e[2] \notin Repeated(e[1])
  <2> SUFFICES ASSUME NEW e \in N, e[2] \in Repeated(e[1]) PROVE FALSE
    OBVIOUS
  <2>1. e[1] \in Heights /\ e = <<e[1], e[2]>> /\ e \notin Pairs(R)
    BY <1>10, <1>11
  <2>2. e[1] \in DOMAIN R /\ e[2] \in R[e[1]]
    BY <1>3, <2>1
  <2> QED
    BY <2>1, <2>2, PairIs
<1>13. PICK g : g = [e \in N |-> <<Items(e[1])[e[2]].kind, Items(e[1])[e[2]].id>>]
  OBVIOUS
<1>14. ASSUME NEW e \in N PROVE g[e] \in RowSet
  <2>1. e[1] \in Heights /\ e[2] \in DOMAIN Items(e[1]) /\ Complete(Items(e[1])[e[2]])
    BY <1>10, <1>11
  <2>2. PICK it : it = Items(e[1])[e[2]]
    OBVIOUS
  <2>3. /\ it.kind = "chunk" => it.id \in DOMAIN chunks
        /\ it.kind = "file" => it.id \in DOMAIN files
        /\ it.kind = "dir" => it.id \in DOMAIN directories
    BY <2>1, <2>2, CompleteRow
  <2>4. it.kind = "chunk" \/ it.kind = "file" \/ it.kind = "dir"
    <3>1. it \in ItemSet
      BY <2>1, <2>2, ItemsType
    <3> QED
      BY <3>1 DEF ItemSet
  <2>5. g[e] = <<it.kind, it.id>>
    BY <1>13, <2>2
  <2> QED
    BY <2>3, <2>4, <2>5 DEF RowSet
<1>15. ASSUME NEW d \in N, NEW e \in N, g[d] = g[e] PROVE d = e
  <2>1. PICK h, i, k, j : h = d[1] /\ i = d[2] /\ k = e[1] /\ j = e[2]
    OBVIOUS
  <2>2. /\ h \in Heights /\ i \in DOMAIN Items(h) /\ i \notin Repeated(h)
        /\ k \in Heights /\ j \in DOMAIN Items(k) /\ j \notin Repeated(k)
        /\ d = <<h, i>> /\ e = <<k, j>>
    BY <1>10, <1>11, <1>12, <2>1
  <2>3. PICK s, t : s = Items(h)[i] /\ t = Items(k)[j]
    OBVIOUS
  <2>4. g[d] = <<s.kind, s.id>> /\ g[e] = <<t.kind, t.id>>
    BY <1>13, <2>1, <2>3
  <2>5. s.kind = t.kind /\ s.id = t.id
    <3>1. PICK sk, si, tk, ti : sk = s.kind /\ si = s.id /\ tk = t.kind /\ ti = t.id
      OBVIOUS
    <3>2. <<sk, si>> = <<tk, ti>>
      BY <1>15, <2>4, <3>1
    <3> QED
      BY <3>1, <3>2
  <2>6. h = k
    BY <2>2, <2>3, <2>5, OneBlock
  <2>7. s = t
    <3>1. s \in ItemSet /\ t \in ItemSet
      BY <2>2, <2>3, ItemsType
    <3> QED
      BY <2>5, <3>1 DEF ItemSet
  <2>8. PICK n \in Nat : DOMAIN Items(h) = 1 .. n
    BY <2>2, ItemsType
  <2>9. ~(i < j) /\ ~(j < i) /\ i \in 1 .. n /\ j \in 1 .. n
    <3>1. i \in 1 .. n /\ j \in 1 .. n
      BY <2>2, <2>6, <2>8
    <3>2. ASSUME i < j PROVE FALSE
      <4>1. i \in 1 .. j - 1
        BY <3>1, <3>2
      <4> QED
        BY <2>2, <2>3, <2>6, <2>7, <4>1 DEF Repeated
    <3>3. ASSUME j < i PROVE FALSE
      <4>1. j \in 1 .. i - 1
        BY <3>1, <3>3
      <4> QED
        BY <2>2, <2>3, <2>6, <2>7, <4>1 DEF Repeated
    <3> QED
      BY <3>1, <3>2, <3>3
  <2>10. i = j
    BY <2>9
  <2> QED
    BY <2>2, <2>6, <2>10
<1>16. Cardinality(N) <= Cardinality(RowSet)
  <2>1. g \in [N -> RowSet]
    BY <1>13, <1>14
  <2>2. g \in Injection(N, RowSet)
    BY <1>15, <2>1 DEF Injection, IsInjective
  <2> QED
    BY <2>2, RowCount, FS_Injection
<1>17. PICK w \in Nat, p \in Nat, n \in Nat, r \in Nat :
         w = Cardinality(W) /\ p = Cardinality(P) /\ n = Cardinality(N) /\ r = Cardinality(Pairs(R))
  <2>1. IsFiniteSet(W) /\ IsFiniteSet(P) /\ IsFiniteSet(N)
    BY <1>8, <1>10, FS_Intersection, FS_Difference
  <2> QED
    BY <1>7, <2>1, FS_CardinalityType
<1>18. n = w - p
  <2>1. Cardinality(W \ Pairs(R)) = Cardinality(W) - Cardinality(W \cap Pairs(R))
    BY <1>8, <1>10, FS_Difference
  <2> QED
    BY <1>10, <1>17, <2>1
<1>19. p <= r
  <2>1. Cardinality(W \cap Pairs(R)) <= Cardinality(Pairs(R))
    BY <1>7, FS_Intersection
  <2> QED
    BY <1>10, <1>17, <2>1
<1>20. PICK a \in Nat, b \in Nat, c \in Nat :
         /\ a = Cardinality(DOMAIN chunks) /\ b = Cardinality(DOMAIN files)
         /\ c = Cardinality(DOMAIN directories) /\ Cardinality(RowSet) = a + b + c
  BY RowCount
<1>21. PICK u \in Nat : u = Cardinality(Pairs(F))
  BY <1>9, FS_CardinalityType
<1>22. u <= w /\ n <= a + b + c
  BY <1>9, <1>10, <1>16, <1>17, <1>20, <1>21
<1>23. u <= a + b + c + r
  BY <1>18, <1>19, <1>22
<1> QED
  BY <1>6, <1>17, <1>20, <1>21, <1>23
-----------------------------------------------------------------------------
(* The answers of the handlers. *)

LEMMA Gets ==
    ASSUME RequestInv, NEW n \in Nat, NEW answers, Asks(n, answers)
    PROVE  /\ Len(got) = n /\ Len(got') = n + 1 /\ got'[n + 1] \in answers
           /\ \A i \in 1 .. n : got'[i] = got[i]
           /\ UNCHANGED <<request, indexerVars>>
<1>1. PICK a \in answers : got' = Append(got, a)
  BY DEF Asks
<1>2. PICK s, u : s = got /\ u = got'
  OBVIOUS
<1>3. IsList(s) /\ u = Append(s, a) /\ Len(s) = n
  BY <1>1, <1>2 DEF RequestInv, Asks
<1>4. Len(u) = Len(s) + 1 /\ u[Len(s) + 1] = a /\ \A i \in 1 .. Len(s) : u[i] = s[i]
  BY <1>3, AnswerAdded
<1> QED
  BY <1>2, <1>3, <1>4 DEF Asks

LEMMA ToleratesIs ==
    ASSUME RequestInv, NEW n, NEW empty, Tolerates(n, empty)
    PROVE  request'.failed = TRUE
<1>1. request' = [handler |-> request.handler, arg |-> request.arg, failed |-> TRUE]
  BY DEF Tolerates, RequestInv
<1> QED
  BY <1>1

(* What DetailsInv says of a set of items, in terms of the answers. *)
LEMMA ShowsAfter ==
    ASSUME NEW it, NEW h, request'.arg = h,
           it.kind = "chunk" => it.id \in IF Len(got') >= 4 THEN got'[4] ELSE GetByBlockHeight(chunks, h)',
           it.kind = "file" => it.id \in IF Len(got') >= 2 THEN got'[2] ELSE GetByBlockHeight(files, h)',
           it.kind = "dir" => it.id \in IF Len(got') >= 3 THEN got'[3] ELSE GetByBlockHeight(directories, h)'
    PROVE  Shows(it)'
BY DEF Shows, Reads, GetByBlockHeight

LEMMA DetailsRead ==
    ASSUME BaseInv, StorageInv, TablesInv, RequestInv, DetailsInv,
           request.handler = "blockDetails", handleBlockDetails, Answered
    PROVE  DetailsInv'
<1>1. PICK h \in Heights : h = request.arg
  BY DEF DetailsInv
<1>2. request'.handler = "blockDetails" /\ request'.arg = h /\ (~request'.failed => ~request.failed)
  BY <1>1, AnsweredRequest
<1>3. SUFFICES ASSUME ~request'.failed
               PROVE  got'[1] \in Nat /\ \E S \in SUBSET DOMAIN Items(h) :
                        got'[1] <= Cardinality(S) /\ \A i \in S : Shows(Items(h)[i])'
  BY <1>1, <1>2 DEF DetailsInv
<1>4. CASE h \in DOMAIN storageUsed /\ Asks(0, {storageUsed[h]})
  <2>1. Len(got') = 1 /\ got'[1] = storageUsed[h] /\ UNCHANGED indexerVars
    <3>1. 0 \in Nat /\ 0 + 1 = 1
      OBVIOUS
    <3>2. /\ Len(got') = 0 + 1 /\ got'[0 + 1] \in {storageUsed[h]}
          /\ UNCHANGED <<request, indexerVars>>
      BY <1>4, <3>1, Gets
    <3> QED
      BY <3>1, <3>2
  <2>2. UNCHANGED <<chunks, files, directories>>
    BY <2>1 DEF indexerVars, db, contents
  <2>3. CompleteItems(h) \in SUBSET DOMAIN Items(h)
    BY DEF CompleteItems
  <2>4. got'[1] \in Nat /\ got'[1] <= Cardinality(CompleteItems(h))
    BY <1>4, <2>1 DEF StorageInv, BaseInv, IndexerTypeOK
  <2>5. ASSUME NEW i \in CompleteItems(h) PROVE Shows(Items(h)[i])'
    <3>1. PICK it : it = Items(h)[i]
      OBVIOUS
    <3>2. /\ it.kind = "chunk" => it.id \in DOMAIN chunks /\ chunks[it.id] = h
          /\ it.kind = "file" => it.id \in DOMAIN files /\ files[it.id] = h
          /\ it.kind = "dir" => it.id \in DOMAIN directories /\ directories[it.id] = h
      BY <3>1, CompleteRow DEF CompleteItems
    <3>3. /\ it.kind = "chunk" => it.id \in GetByBlockHeight(chunks, h)'
          /\ it.kind = "file" => it.id \in GetByBlockHeight(files, h)'
          /\ it.kind = "dir" => it.id \in GetByBlockHeight(directories, h)'
      BY <2>2, <3>2 DEF GetByBlockHeight
    <3>4. Shows(it)'
      BY <1>2, <2>1, <3>3, ShowsAfter
    <3> QED
      BY <3>1, <3>4
  <2> QED
    BY <2>3, <2>4, <2>5
<1>5. CASE \/ Asks(1, {GetByBlockHeight(files, h)})
           \/ Asks(2, {GetByBlockHeight(directories, h)})
           \/ Asks(3, {GetByBlockHeight(chunks, h)})
  <2>0. PICK n \in 1 .. 3 : \E a :
          /\ Asks(n, {a})
          /\ n = 1 => a = GetByBlockHeight(files, h)
          /\ n = 2 => a = GetByBlockHeight(directories, h)
          /\ n = 3 => a = GetByBlockHeight(chunks, h)
    <3>1. CASE Asks(1, {GetByBlockHeight(files, h)})
      <4>1. 1 \in 1 .. 3 /\ 1 # 2 /\ 1 # 3
        OBVIOUS
      <4> QED
        BY <3>1, <4>1
    <3>2. CASE Asks(2, {GetByBlockHeight(directories, h)})
      <4>1. 2 \in 1 .. 3 /\ 2 # 1 /\ 2 # 3
        OBVIOUS
      <4> QED
        BY <3>2, <4>1
    <3>3. CASE Asks(3, {GetByBlockHeight(chunks, h)})
      <4>1. 3 \in 1 .. 3 /\ 3 # 1 /\ 3 # 2
        OBVIOUS
      <4> QED
        BY <3>3, <4>1
    <3> QED
      BY <1>5, <3>1, <3>2, <3>3
  <2>1. PICK a :
          /\ Asks(n, {a})
          /\ n = 1 => a = GetByBlockHeight(files, h)
          /\ n = 2 => a = GetByBlockHeight(directories, h)
          /\ n = 3 => a = GetByBlockHeight(chunks, h)
    BY <2>0
  <2>2. /\ Len(got) = n /\ Len(got') = n + 1 /\ got'[n + 1] = a
        /\ \A i \in 1 .. n : got'[i] = got[i]
        /\ UNCHANGED <<request, indexerVars>>
    BY <2>1, Gets
  <2>3. UNCHANGED <<chunks, files, directories>>
    BY <2>2 DEF indexerVars, db, contents
  <2>4. PICK S \in SUBSET DOMAIN Items(h) :
          got[1] \in Nat /\ got[1] <= Cardinality(S) /\ \A i \in S : Shows(Items(h)[i])
    BY <1>1, <1>2, <1>3, <2>2 DEF DetailsInv
  <2>5. got'[1] \in Nat /\ got'[1] <= Cardinality(S)
    BY <2>2, <2>4
  <2>6. ASSUME NEW i \in S PROVE Shows(Items(h)[i])'
    <3>1. PICK it : it = Items(h)[i]
      OBVIOUS
    <3>2. PICK C, F, E : /\ C = GetByBlockHeight(chunks, h) /\ F = GetByBlockHeight(files, h)
                         /\ E = GetByBlockHeight(directories, h)
      OBVIOUS
    <3>3. /\ C = GetByBlockHeight(chunks, h)' /\ F = GetByBlockHeight(files, h)'
          /\ E = GetByBlockHeight(directories, h)'
      BY <2>3, <3>2 DEF GetByBlockHeight
    <3>4. /\ it.kind = "chunk" => it.id \in IF n >= 4 THEN got[4] ELSE C
          /\ it.kind = "file" => it.id \in IF n >= 2 THEN got[2] ELSE F
          /\ it.kind = "dir" => it.id \in IF n >= 3 THEN got[3] ELSE E
      <4>1. Shows(it)
        BY <2>4, <3>1
      <4> QED
        BY <1>1, <2>2, <3>2, <4>1 DEF Shows, Reads
    <3>5. /\ it.kind = "chunk" => it.id \in IF n + 1 >= 4 THEN got'[4] ELSE C
          /\ it.kind = "file" => it.id \in IF n + 1 >= 2 THEN got'[2] ELSE F
          /\ it.kind = "dir" => it.id \in IF n + 1 >= 3 THEN got'[3] ELSE E
      <4>1. CASE n = 1
        BY <2>1, <2>2, <3>2, <3>4, <4>1
      <4>2. CASE n = 2
        BY <2>1, <2>2, <3>2, <3>4, <4>2
      <4>3. CASE n = 3
        BY <2>1, <2>2, <3>2, <3>4, <4>3
      <4> QED
        BY <4>1, <4>2, <4>3
    <3>6. Shows(it)'
      BY <1>2, <2>2, <3>3, <3>5, ShowsAfter
    <3> QED
      BY <3>1, <3>6
  <2> QED
    BY <2>5, <2>6
<1>6. ~Returns(0) /\ ~GivesUp(0)
  <2>1. request'.handler # "none"
    BY <1>2
  <2> QED
    BY <2>1 DEF Returns, GivesUp, Idle
<1>7. ~(\E n \in 1 .. 3 : Tolerates(n, {}))
  BY <1>3, ToleratesIs
<1> QED
  BY <1>1, <1>4, <1>5, <1>6, <1>7 DEF handleBlockDetails

LEMMA AnalyticsRead ==
    ASSUME BaseInv, StorageInv, TablesInv, RequestInv, AnalyticsInv,
           request.handler = "apiGetAnalytics", apiGetAnalytics, Answered
    PROVE  AnalyticsInv'
<1>1. PICK n \in 0 .. 3 : Asks(n, {GetStorageAnalytics[n + 1]})
  <2>1. request'.handler # "none"
    BY AnsweredRequest
  <2>2. \A n : ~GivesUp(n)
    BY <2>1 DEF Returns, GivesUp, Idle
  <2> QED
    BY <2>2 DEF apiGetAnalytics
<1>2. PICK vc, vf, vd : /\ vc = Cardinality(DOMAIN chunks) /\ vf = Cardinality(DOMAIN files)
                        /\ vd = Cardinality(DOMAIN directories)
  OBVIOUS
<1>3. vc \in Nat /\ vf \in Nat /\ vd \in Nat
  BY <1>2, RowCount
<1>4. /\ Len(got) = n /\ Len(got') = n + 1 /\ got'[n + 1] = GetStorageAnalytics[n + 1]
      /\ \A i \in 1 .. n : got'[i] = got[i]
      /\ UNCHANGED <<request, indexerVars>>
  BY <1>1, Gets
<1>5. UNCHANGED <<chunks, files, directories>> /\ Repeats' = Repeats
  BY <1>4 DEF indexerVars, db, contents, Repeats, Repeated
<1>6. SUFFICES \E c, f, d \in Nat :
                  /\ got'[1].storage \in Nat /\ got'[1].storage <= c + f + d + Repeats
                  /\ AtLeast(c, IF n + 1 >= 2 THEN got'[2] ELSE vc)
                  /\ AtLeast(f, IF n + 1 >= 3 THEN got'[3] ELSE vf)
                  /\ AtLeast(d, IF n + 1 >= 4 THEN got'[4] ELSE vd)
  <2>1. PICK c \in Nat, f \in Nat, d \in Nat :
          /\ got'[1].storage \in Nat /\ got'[1].storage <= c + f + d + Repeats
          /\ AtLeast(c, IF n + 1 >= 2 THEN got'[2] ELSE vc)
          /\ AtLeast(f, IF n + 1 >= 3 THEN got'[3] ELSE vf)
          /\ AtLeast(d, IF n + 1 >= 4 THEN got'[4] ELSE vd)
    BY <1>6
  <2>2. /\ Reads(2, Cardinality(DOMAIN chunks))' = IF n + 1 >= 2 THEN got'[2] ELSE vc
        /\ Reads(3, Cardinality(DOMAIN files))' = IF n + 1 >= 3 THEN got'[3] ELSE vf
        /\ Reads(4, Cardinality(DOMAIN directories))' = IF n + 1 >= 4 THEN got'[4] ELSE vd
    BY <1>2, <1>4, <1>5 DEF Reads
  <2>3. /\ AtLeast(c, Reads(2, Cardinality(DOMAIN chunks)))'
        /\ AtLeast(f, Reads(3, Cardinality(DOMAIN files)))'
        /\ AtLeast(d, Reads(4, Cardinality(DOMAIN directories)))'
    BY <2>1, <2>2 DEF AtLeast
  <2> QED
    BY <1>5, <2>1, <2>3 DEF AnalyticsInv
<1>7. /\ n = 0 => got'[1].storage = Cardinality(StorageSum)
      /\ n = 1 => got'[2] = vc
      /\ n = 2 => got'[3] = vf
      /\ n = 3 => got'[4] = vd
  <2>1. CASE n = 0
    <3>1. got'[1] = GetStorageAnalytics[1]
      BY <1>4, <2>1
    <3>2. GetStorageAnalytics[1] = [blocks |-> Cardinality(DOMAIN storageUsed),
                                    storage |-> Cardinality(StorageSum)]
      BY DEF GetStorageAnalytics
    <3> QED
      BY <2>1, <3>1, <3>2
  <2>2. /\ GetStorageAnalytics[2] = vc /\ GetStorageAnalytics[3] = vf
        /\ GetStorageAnalytics[4] = vd
    BY <1>2 DEF GetStorageAnalytics
  <2>3. /\ n = 1 => got'[2] = GetStorageAnalytics[2]
        /\ n = 2 => got'[3] = GetStorageAnalytics[3]
        /\ n = 3 => got'[4] = GetStorageAnalytics[4]
    BY <1>4
  <2> QED
    BY <2>1, <2>2, <2>3
<1>8. CASE n = 0
  <2>1. got'[1].storage \in Nat /\ got'[1].storage <= vc + vf + vd + Repeats
    BY <1>2, <1>7, <1>8, StorageBound
  <2>2. AtLeast(vc, vc) /\ AtLeast(vf, vf) /\ AtLeast(vd, vd)
    BY <1>3 DEF AtLeast
  <2> QED
    BY <1>3, <1>8, <2>1, <2>2
<1>9. CASE n # 0
  <2>1. n \in 1 .. 3 /\ got'[1] = got[1]
    BY <1>4, <1>9
  <2>2. PICK c \in Nat, f \in Nat, d \in Nat :
          /\ got[1].storage \in Nat /\ got[1].storage <= c + f + d + Repeats
          /\ AtLeast(c, IF n >= 2 THEN got[2] ELSE vc)
          /\ AtLeast(f, IF n >= 3 THEN got[3] ELSE vf)
          /\ AtLeast(d, IF n >= 4 THEN got[4] ELSE vd)
    BY <1>2, <1>4, <2>1 DEF AnalyticsInv, Reads
  <2>3. /\ AtLeast(c, IF n + 1 >= 2 THEN got'[2] ELSE vc)
        /\ AtLeast(f, IF n + 1 >= 3 THEN got'[3] ELSE vf)
        /\ AtLeast(d, IF n + 1 >= 4 THEN got'[4] ELSE vd)
    <3>1. CASE n = 1
      BY <1>3, <1>4, <1>7, <2>2, <3>1 DEF AtLeast
    <3>2. CASE n = 2
      BY <1>3, <1>4, <1>7, <2>2, <3>2 DEF AtLeast
    <3>3. CASE n = 3
      BY <1>3, <1>4, <1>7, <2>2, <3>3 DEF AtLeast
    <3> QED
      BY <2>1, <3>1, <3>2, <3>3
  <2> QED
    BY <2>1, <2>2, <2>3
<1> QED
  BY <1>8, <1>9

(* A page of a listing has as many rows as there are, up to its limit. *)
LEMMA SelectLength ==
    ASSUME NEW table, IsFiniteSet(DOMAIN table), NEW limit \in Nat \ {0},
           NEW n \in Nat, n <= Cardinality(DOMAIN table), NEW page \in Select(table, limit, 0)
    PROVE  Len(page) >= Min({n, limit})
<1>1. PICK m \in Nat : m = Cardinality(DOMAIN table)
  BY FS_CardinalityType
<1>2. PICK s \in Orders(table) : page = SubSeq(s, 0 + 1, Min({0 + limit, Len(s)}))
  BY DEF Select
<1>3. s \in [1 .. m -> DOMAIN table]
  BY <1>1, <1>2 DEF Orders
<1>4. s \in Seq(DOMAIN table) /\ Len(s) = m
  BY <1>3
<1>5. ASSUME NEW a \in Nat, NEW b \in Nat
      PROVE  Min({a, b}) \in Nat /\ Min({a, b}) = IF a <= b THEN a ELSE b
  <2>1. PICK x : x = Min({a, b})
    OBVIOUS
  <2>2. \E y \in {a, b} : \A z \in {a, b} : y <= z
    <3>1. CASE a <= b
      BY <3>1
    <3>2. CASE b <= a
      BY <3>2
    <3> QED
      BY <3>1, <3>2
  <2>3. x \in {a, b} /\ x <= a /\ x <= b
    BY <2>1, <2>2 DEF Min
  <2> QED
    BY <2>1, <2>3
<1>6. PICK k \in Nat : k = Min({limit, m}) /\ k = IF limit <= m THEN limit ELSE m
  BY <1>5
<1>7. page = SubSeq(s, 1, k)
  <2>1. 0 + 1 = 1 /\ 0 + limit = limit
    OBVIOUS
  <2> QED
    BY <1>2, <1>4, <1>6, <2>1
<1>8. Len(page) = k
  <2>1. \A i \in 1 .. k : s[i] \in DOMAIN table
    BY <1>3, <1>6
  <2>2. Len(SubSeq(s, 1, k)) = IF 1 <= k THEN k - 1 + 1 ELSE 0
    BY <2>1, SubSeqProperties
  <2> QED
    BY <1>7, <2>2
<1>9. PICK l \in Nat : l = Min({n, limit}) /\ l = IF n <= limit THEN n ELSE limit
  BY <1>5
<1> QED
  BY <1>1, <1>6, <1>8, <1>9

LEMMA HomeRead ==
    ASSUME BaseInv, TablesInv, RequestInv, HomeInv, request.handler = "home", handleHome, Answered
    PROVE  HomeInv'
<1>1. request'.handler = "home" /\ (~request'.failed => ~request.failed)
  BY AnsweredRequest
<1>2. PICK D : D = DOMAIN storageUsed
  OBVIOUS
<1>3. IsFiniteSet(D) /\ Cardinality(D) \in Nat
  <2>1. D \in SUBSET Heights /\ IsFiniteSet(Heights)
    BY <1>2, HeightAssumption, FS_Interval DEF Heights, BaseInv, IndexerTypeOK
  <2>2. IsFiniteSet(D)
    BY <2>1, FS_Subset
  <2> QED
    BY <2>2, FS_CardinalityType
<1>4. SUFFICES ASSUME ~request'.failed PROVE HomeInv'
  BY DEF HomeInv
<1>5. CASE Asks(0, {GetStorageAnalytics[1]})
  <2>1. Len(got') = 1 /\ got'[1] = GetStorageAnalytics[1] /\ UNCHANGED indexerVars
    <3>1. 0 \in Nat /\ 0 + 1 = 1
      OBVIOUS
    <3>2. /\ Len(got') = 0 + 1 /\ got'[0 + 1] \in {GetStorageAnalytics[1]}
          /\ UNCHANGED <<request, indexerVars>>
      BY <1>5, <3>1, Gets
    <3> QED
      BY <3>1, <3>2
  <2>2. GetStorageAnalytics[1] = [blocks |-> Cardinality(D), storage |-> Cardinality(StorageSum)]
    BY <1>2 DEF GetStorageAnalytics
  <2>3. got'[1].blocks = Cardinality(D)
    BY <2>1, <2>2
  <2>4. Cardinality(DOMAIN storageUsed)' = Cardinality(D)
    BY <1>2, <2>1 DEF indexerVars, db
  <2>5. AtLeast(got[1].blocks, Cardinality(DOMAIN storageUsed))'
    BY <1>3, <2>3, <2>4 DEF AtLeast
  <2> QED
    BY <1>3, <2>1, <2>3, <2>5 DEF HomeInv
<1>6. CASE Asks(1, Select(BlockRows, RecentLimit, 0))
  <2>1. /\ Len(got) = 1 /\ Len(got') = 2 /\ got'[2] \in Select(BlockRows, RecentLimit, 0)
        /\ got'[1] = got[1] /\ UNCHANGED indexerVars
    <3>1. 1 \in Nat /\ 1 + 1 = 2 /\ 1 \in 1 .. 1
      OBVIOUS
    <3>2. /\ Len(got) = 1 /\ Len(got') = 1 + 1
          /\ got'[1 + 1] \in Select(BlockRows, RecentLimit, 0)
          /\ \A i \in 1 .. 1 : got'[i] = got[i]
          /\ UNCHANGED <<request, indexerVars>>
      BY <1>6, <3>1, Gets
    <3> QED
      BY <3>1, <3>2
  <2>2. PICK n \in Nat : n = got[1].blocks /\ n <= Cardinality(D)
    BY <1>1, <1>2, <1>4, <2>1 DEF HomeInv, AtLeast
  <2>3. DOMAIN BlockRows = D /\ RecentLimit \in Nat \ {0}
    BY <1>2, PagingAssumption DEF BlockRows
  <2>4. Len(got'[2]) >= Min({n, RecentLimit})
    BY <1>3, <2>1, <2>2, <2>3, SelectLength
  <2>5. Cardinality(DOMAIN storageUsed)' = Cardinality(D)
    BY <1>2, <2>1 DEF indexerVars, db
  <2>6. AtLeast(got[1].blocks, Cardinality(DOMAIN storageUsed))' /\ got'[1].blocks = n
    BY <1>3, <2>1, <2>2, <2>5 DEF AtLeast
  <2> QED
    BY <2>2, <2>4, <2>6 DEF HomeInv
<1>7. \A n, e : ~Tolerates(n, e)
  BY <1>4, ToleratesIs
<1> QED
  BY <1>5, <1>6, <1>7 DEF handleHome

-----------------------------------------------------------------------------
(* What the indexer adds between two queries only adds to what the later ones answer. *)

LEMMA IndexerDetails ==
    ASSUME DetailsInv, TablesExtend, UNCHANGED clientVars
    PROVE  DetailsInv'
<1>1. UNCHANGED <<request, got>>
  BY DEF clientVars
<1>2. SUFFICES ASSUME request.handler = "blockDetails"
               PROVE  DetailsInv'
  BY <1>1 DEF DetailsInv
<1>3. PICK h \in Heights : h = request.arg
  BY <1>2 DEF DetailsInv
<1>4. /\ GetByBlockHeight(chunks, h) \subseteq GetByBlockHeight(chunks, h)'
      /\ GetByBlockHeight(files, h) \subseteq GetByBlockHeight(files, h)'
      /\ GetByBlockHeight(directories, h) \subseteq GetByBlockHeight(directories, h)'
  BY DEF GetByBlockHeight, TablesExtend, Extends
<1>5. ASSUME NEW it, Shows(it) PROVE Shows(it)'
  <2>1. /\ it.kind = "chunk" => it.id \in IF Len(got') >= 4 THEN got'[4] ELSE GetByBlockHeight(chunks, h)'
        /\ it.kind = "file" => it.id \in IF Len(got') >= 2 THEN got'[2] ELSE GetByBlockHeight(files, h)'
        /\ it.kind = "dir" => it.id \in IF Len(got') >= 3 THEN got'[3] ELSE GetByBlockHeight(directories, h)'
    BY <1>1, <1>3, <1>4, <1>5 DEF Shows, Reads
  <2> QED
    BY <1>1, <1>3, <2>1, ShowsAfter
<1>6. CASE Len(got) > 0 /\ ~request.failed
  <2>1. PICK S \in SUBSET DOMAIN Items(h) :
          got[1] \in Nat /\ got[1] <= Cardinality(S) /\ \A i \in S : Shows(Items(h)[i])
    BY <1>2, <1>3, <1>6 DEF DetailsInv
  <2>2. got'[1] \in Nat /\ got'[1] <= Cardinality(S) /\ \A i \in S : Shows(Items(h)[i])'
    BY <1>1, <1>5, <2>1
  <2>3. got'[1] \in Nat /\ \E T \in SUBSET DOMAIN Items(h) :
          got'[1] <= Cardinality(T) /\ \A i \in T : Shows(Items(h)[i])'
    BY <2>2
  <2> QED
    BY <1>1, <1>3, <2>3 DEF DetailsInv
<1>7. CASE ~(Len(got) > 0 /\ ~request.failed)
  BY <1>1, <1>3, <1>7 DEF DetailsInv
<1> QED
  BY <1>6, <1>7

(* A table that extends another has at least as many rows. *)
LEMMA MoreRows ==
    ASSUME NEW D, NEW E, D \subseteq E, IsFiniteSet(E), NEW n, AtLeast(n, Cardinality(D)), n \in Nat
    PROVE  AtLeast(n, Cardinality(E))
<1>1. IsFiniteSet(D) /\ Cardinality(D) <= Cardinality(E)
  BY FS_Subset
<1>2. PICK d \in Nat, e \in Nat : d = Cardinality(D) /\ e = Cardinality(E)
  BY <1>1, FS_CardinalityType
<1> QED
  BY <1>1, <1>2 DEF AtLeast

LEMMA IndexerAnalytics ==
    ASSUME AnalyticsInv, TablesInv', TablesExtend, UNCHANGED clientVars
    PROVE  AnalyticsInv'
<1>1. UNCHANGED <<request, got>> /\ Repeats' = Repeats
  BY DEF clientVars, Repeats, Repeated
<1>2. SUFFICES ASSUME request.handler = "apiGetAnalytics", Len(got) > 0
               PROVE  AnalyticsInv'
  BY <1>1 DEF AnalyticsInv
<1>3. /\ DOMAIN chunks \subseteq DOMAIN chunks' /\ DOMAIN files \subseteq DOMAIN files'
      /\ DOMAIN directories \subseteq DOMAIN directories'
  BY DEF TablesExtend, Extends
<1>4. IsFiniteSet(DOMAIN chunks') /\ IsFiniteSet(DOMAIN files') /\ IsFiniteSet(DOMAIN directories')
  BY DEF TablesInv
<1>5. PICK c \in Nat, f \in Nat, d \in Nat :
        /\ got[1].storage \in Nat /\ got[1].storage <= c + f + d + Repeats
        /\ AtLeast(c, Reads(2, Cardinality(DOMAIN chunks)))
        /\ AtLeast(f, Reads(3, Cardinality(DOMAIN files)))
        /\ AtLeast(d, Reads(4, Cardinality(DOMAIN directories)))
  BY <1>2 DEF AnalyticsInv
<1>6. ASSUME NEW n \in Nat, NEW i \in 2 .. 4, NEW D, NEW E, D \subseteq E, IsFiniteSet(E),
             AtLeast(n, Reads(i, Cardinality(D)))
      PROVE  AtLeast(n, IF Len(got') >= i THEN got'[i] ELSE Cardinality(E))
  <2>1. CASE Len(got) >= i
    BY <1>1, <1>6, <2>1 DEF Reads
  <2>2. CASE ~(Len(got) >= i)
    <3>1. AtLeast(n, Cardinality(D))
      BY <1>6, <2>2 DEF Reads
    <3>2. AtLeast(n, Cardinality(E))
      BY <1>6, <3>1, MoreRows
    <3> QED
      BY <1>1, <2>2, <3>2
  <2> QED
    BY <2>1, <2>2
<1>7. /\ AtLeast(c, IF Len(got') >= 2 THEN got'[2] ELSE Cardinality(DOMAIN chunks'))
      /\ AtLeast(f, IF Len(got') >= 3 THEN got'[3] ELSE Cardinality(DOMAIN files'))
      /\ AtLeast(d, IF Len(got') >= 4 THEN got'[4] ELSE Cardinality(DOMAIN directories'))
  <2>1. 2 \in 2 .. 4 /\ 3 \in 2 .. 4 /\ 4 \in 2 .. 4
    OBVIOUS
  <2> QED
    BY <1>3, <1>4, <1>5, <1>6, <2>1
<1>8. /\ AtLeast(c, Reads(2, Cardinality(DOMAIN chunks)))'
      /\ AtLeast(f, Reads(3, Cardinality(DOMAIN files)))'
      /\ AtLeast(d, Reads(4, Cardinality(DOMAIN directories)))'
  BY <1>7 DEF AtLeast, Reads
<1> QED
  BY <1>1, <1>5, <1>8 DEF AnalyticsInv

LEMMA IndexerHome ==
    ASSUME HomeInv, BaseInv', TablesExtend, UNCHANGED clientVars
    PROVE  HomeInv'
<1>1. UNCHANGED <<request, got>>
  BY DEF clientVars
<1>2. SUFFICES ASSUME request.handler = "home", Len(got) > 0, ~request.failed
               PROVE  HomeInv'
  BY <1>1 DEF HomeInv
<1>3. DOMAIN storageUsed \subseteq DOMAIN storageUsed'
  BY DEF TablesExtend
<1>4. IsFiniteSet(DOMAIN storageUsed')
  <2>1. (DOMAIN storageUsed \subseteq Heights)'
    BY DEF BaseInv, IndexerTypeOK
  <2>2. DOMAIN storageUsed' \in SUBSET Heights
    BY <2>1 DEF Heights
  <2>3. IsFiniteSet(Heights)
    BY HeightAssumption, FS_Interval DEF Heights
  <2> QED
    BY <2>2, <2>3, FS_Subset
<1>5. PICK n \in Nat : n = got[1].blocks /\ AtLeast(n, Cardinality(DOMAIN storageUsed))
  BY <1>2 DEF HomeInv
<1>6. AtLeast(n, Cardinality(DOMAIN storageUsed'))
  BY <1>3, <1>4, <1>5, MoreRows
<1>7. AtLeast(got[1].blocks, Cardinality(DOMAIN storageUsed))' /\ got'[1].blocks \in Nat
  BY <1>1, <1>5, <1>6 DEF AtLeast
<1> QED
  BY <1>1, <1>2, <1>7 DEF HomeInv

LEMMA NextBacked ==
    ASSUME BaseInv, StorageInv, TablesInv, RequestInv, BackedInv, [Next]_vars,
           BaseInv', TablesInv', TablesExtend
    PROVE  BackedInv'
<1>0. DetailsInv /\ AnalyticsInv /\ HomeInv
  BY DEF BackedInv
<1>1. CASE UNCHANGED clientVars
  BY <1>0, <1>1, IndexerDetails, IndexerAnalytics, IndexerHome DEF BackedInv
<1>2. ASSUME Over PROVE BackedInv'
  <2>1. request'.handler = "none"
    BY <1>2 DEF Over, Idle
  <2> QED
    BY <2>1 DEF BackedInv, DetailsInv, AnalyticsInv, HomeInv
<1>3. CASE Handlers
  <2>1. CASE Over
    BY <1>2, <2>1
  <2>2. CASE Answered
    <3>1. request'.handler = request.handler
      BY <1>3, <2>2, HandlerIs, AnsweredRequest
    <3>2. DetailsInv'
      <4>1. CASE request.handler # "blockDetails"
        BY <3>1, <4>1 DEF DetailsInv
      <4> QED
        BY <1>0, <1>3, <2>2, <4>1, HandlerIs, DetailsRead
    <3>3. AnalyticsInv'
      <4>1. CASE request.handler # "apiGetAnalytics"
        BY <3>1, <4>1 DEF AnalyticsInv
      <4> QED
        BY <1>0, <1>3, <2>2, <4>1, HandlerIs, AnalyticsRead
    <3>4. HomeInv'
      <4>1. CASE request.handler # "home"
        BY <3>1, <4>1 DEF HomeInv
      <4> QED
        BY <1>0, <1>3, <2>2, <4>1, HandlerIs, HomeRead
    <3> QED
      BY <3>2, <3>3, <3>4 DEF BackedInv
  <2> QED
    BY <1>3, <2>1, <2>2, HandlerIs
<1>4. CASE Get
  <2>1. PICK handler, arg : /\ Requests(handler, arg)
                            /\ handler = "blockDetails" => arg \in Heights
    BY <1>4 DEF Get
  <2>2. request' = [handler |-> handler, arg |-> arg, failed |-> FALSE] /\ UNCHANGED got
    BY <2>1 DEF Requests
  <2>3. got = <<>>
    BY <2>1 DEF Requests, RequestInv
  <2>4. Len(got') = 0
    BY <2>2, <2>3
  <2>5. request'.handler = handler /\ request'.arg = arg
    BY <2>2
  <2>6. DetailsInv'
    BY <2>1, <2>4, <2>5 DEF DetailsInv, Heights
  <2>7. AnalyticsInv' /\ HomeInv'
    BY <2>4 DEF AnalyticsInv, HomeInv
  <2> QED
    BY <2>6, <2>7 DEF BackedInv
<1>5. CASE NextPage
  <2>1. /\ request.handler \in {"blocks", "files", "directories"}
        /\ request' = [request EXCEPT !.arg = @ + 1]
    BY <1>5 DEF NextPage
  <2>2. request' = [handler |-> request.handler, arg |-> request.arg + 1, failed |-> request.failed]
    BY <2>1 DEF RequestInv
  <2>3. request'.handler \in {"blocks", "files", "directories"}
    BY <2>1, <2>2
  <2> QED
    BY <2>3 DEF BackedInv, DetailsInv, AnalyticsInv, HomeInv
<1>6. CASE Leave
  BY <1>2, <1>6 DEF Leave, Over
<1> QED
  BY <1>1, <1>3, <1>4, <1>5, <1>6 DEF Next, vars

LEMMA BackedInvariance == Spec => []BackedInv
<1>1. Init => BackedInv
  <2> SUFFICES ASSUME Init PROVE BackedInv
    OBVIOUS
  <2>1. request.handler = "none"
    BY DEF Init, Idle
  <2> QED
    BY <2>1 DEF BackedInv, DetailsInv, AnalyticsInv, HomeInv
<1>2. /\ BaseInv /\ StorageInv /\ TablesInv /\ ReaderInv /\ BackedInv /\ [Next]_vars
      => BackedInv'
  BY NextBacked, NextBase, NextTables DEF ReaderInv
<1>3. ReaderInv => RequestInv
  BY DEF ReaderInv
<1> QED
  BY <1>1, <1>2, <1>3, TablesInvariance, ReaderInvariance, PTL DEF Spec

(* StorageBacked for every chain and page size: no page or answer reports storage for an *)
(* item it does not show or count, and the home page lists the blocks it has counted, *)
(* however many blocks and items the indexer adds between the queries of a handler. *)
THEOREM BackedTheorem == Spec => []StorageBacked
<1>1. BaseInv /\ StorageInv /\ TablesInv /\ BackedInv => StorageBacked
  <2> SUFFICES ASSUME BaseInv, StorageInv, TablesInv, BackedInv PROVE StorageBacked
    OBVIOUS
  <2>1. ASSUME Responded("blockDetails"), ~request.failed,
               NEW shown, shown = {i \in DOMAIN Items(request.arg) :
                                     LET it == Items(request.arg)[i] IN
                                     it.id \in CASE it.kind = "chunk" -> got[4]
                                                 [] it.kind = "file"  -> got[2]
                                                 [] it.kind = "dir"   -> got[3]}
        PROVE  got[1] <= Cardinality(shown)
    <3>1. request.handler = "blockDetails" /\ Len(got) = 4
      BY <2>1 DEF Responded, Queries
    <3>2. PICK h \in Heights : h = request.arg
      BY <3>1 DEF BackedInv, DetailsInv
    <3>3. PICK S \in SUBSET DOMAIN Items(h) :
            got[1] \in Nat /\ got[1] <= Cardinality(S) /\ \A i \in S : Shows(Items(h)[i])
      BY <2>1, <3>1, <3>2 DEF BackedInv, DetailsInv
    <3>4. ASSUME NEW i \in S PROVE i \in shown
      <4>1. PICK it : it = Items(h)[i]
        OBVIOUS
      <4>2. it \in ItemSet
        BY <4>1, ItemsType
      <4>3. /\ it.kind = "chunk" => it.id \in got[4]
            /\ it.kind = "file" => it.id \in got[2]
            /\ it.kind = "dir" => it.id \in got[3]
        BY <3>1, <3>3, <4>1 DEF Shows, Reads
      <4>4. it.kind = "chunk" \/ it.kind = "file" \/ it.kind = "dir"
        BY <4>2 DEF ItemSet
      <4>5. it.id \in CASE it.kind = "chunk" -> got[4]
                        [] it.kind = "file"  -> got[2]
                        [] it.kind = "dir"   -> got[3]
        BY <4>3, <4>4
      <4> QED
        BY <2>1, <3>2, <4>1, <4>5
    <3>5. IsFiniteSet(shown)
      <4>1. PICK n \in Nat : DOMAIN Items(h) = 1 .. n
        BY ItemsType
      <4>2. shown \in SUBSET (1 .. n)
        BY <2>1, <3>2, <4>1
      <4> QED
        <5>1. IsFiniteSet(1 .. n)
          BY FS_Interval
        <5> QED
          BY <4>2, <5>1, FS_Subset
    <3>6. IsFiniteSet(S) /\ Cardinality(S) <= Cardinality(shown)
      BY <3>4, <3>5, FS_Subset
    <3> QED
      <4>1. PICK m \in Nat, k \in Nat : m = Cardinality(S) /\ k = Cardinality(shown)
        BY <3>5, <3>6, FS_CardinalityType
      <4> QED
        BY <3>3, <3>6, <4>1
  <2>2. ASSUME Responded("apiGetAnalytics")
        PROVE  got[1].storage <= got[2] + got[3] + got[4] + Repeats
    <3>1. request.handler = "apiGetAnalytics" /\ Len(got) = 4
      BY <2>2 DEF Responded, Queries
    <3>2. PICK c \in Nat, f \in Nat, d \in Nat :
            /\ got[1].storage \in Nat /\ got[1].storage <= c + f + d + Repeats
            /\ AtLeast(c, got[2]) /\ AtLeast(f, got[3]) /\ AtLeast(d, got[4])
      BY <3>1 DEF BackedInv, AnalyticsInv, Reads
    <3>3. Repeats \in Nat
      BY StorageBound
    <3> QED
      BY <3>2, <3>3 DEF AtLeast
  <2>3. ASSUME Responded("home"), ~request.failed
        PROVE  Len(got[2]) >= Min({got[1].blocks, RecentLimit})
    <3>1. request.handler = "home" /\ Len(got) = 2
      BY <2>3 DEF Responded, Queries
    <3> QED
      BY <2>3, <3>1 DEF BackedInv, HomeInv
  <2> QED
    BY <2>1, <2>2, <2>3 DEF StorageBacked
<1> QED
  BY <1>1, TablesInvariance, BackedInvariance, PTL
=============================================================================
