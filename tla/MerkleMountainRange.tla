------------------------- MODULE MerkleMountainRange -------------------------
(***************************************************************************)
(* The Merkle Mountain Range of pkg/crypto/mmr, which a node extends with  *)
(* the roots of each block and stores as a snapshot: AddLeaf, Root,        *)
(* inclusion proofs, snapshots.  It is the algorithm behind what           *)
(* BlobcastChain takes as a term, the range of a sequence of leaves.       *)
(*                                                                         *)
(* A hash is the term of what is hashed, so that different inputs have     *)
(* different hashes.  Operators only: a node keeps the range in            *)
(* BlockCommitments, where its properties are stated.                      *)
(***************************************************************************)
EXTENDS BlockCodec

HashLeaf(leaf) == [leaf |-> leaf]
HashWithPosition(pos, data) == [pos |-> pos, data |-> data]
HashPair(left, right) == [left |-> left, right |-> right]
HashWithSize(size, root) == [size |-> size, root |-> root]

(* The node at position pos is nodes[pos + 1]: all positions below size have one. *)
NewMMR == [peaks |-> <<>>, nodes |-> <<>>, leafIndexes |-> <<>>, numLeaves |-> 0, size |-> 0]

-----------------------------------------------------------------------------
(* The new leaf is merged with the peaks of heights 0, 1, ... up to the first gap, where *)
(* what it has become is put. *)
Carry(m, leaf) ==
    LET gap == CHOOSE h \in 0 .. Len(m.peaks) :
                 /\ h = Len(m.peaks) \/ m.peaks[h + 1] = Zero
                 /\ \A k \in 1 .. h : m.peaks[k] # Zero
        merged[h \in 0 .. gap] ==
            IF h = 0 THEN leaf
            ELSE HashWithPosition(m.size + h - 1, <<m.peaks[h], merged[h - 1]>>)
    IN  [m EXCEPT !.nodes = @ \o [h \in 1 .. gap |-> merged[h]], !.size = @ + gap,
                  !.peaks = [k \in 1 .. (IF gap = Len(@) THEN gap + 1 ELSE Len(@)) |->
                               IF k <= gap THEN Zero ELSE IF k = gap + 1 THEN merged[gap] ELSE @[k]]]

(* A leaf that was added before gets the new index in leafIndexes. *)
AddLeaf(m, leaf) ==
    LET leafHash == HashLeaf(leaf)
        leafPosHash == HashWithPosition(m.size, <<leafHash>>)
        added == [m EXCEPT !.nodes = Append(@, leafPosHash), !.size = @ + 1,
                           !.leafIndexes = [l \in DOMAIN @ \cup {leafHash} |->
                                              IF l = leafHash THEN m.numLeaves ELSE @[l]]]
    IN  [Carry(added, leafPosHash) EXCEPT !.numLeaves = @ + 1]

(* The peaks from left to right: the highest mountain first. *)
PeaksLR(m) == Reverse(SelectSeq(m.peaks, LAMBDA peak : peak # Zero))

(* The peaks are folded from right to left. *)
BagPeaks(peaks) ==
    FoldRight(LAMBDA peak, accum : IF accum = Zero THEN peak ELSE HashPair(peak, accum), peaks, Zero)

Root(m) == IF m.size = 0 THEN Zero ELSE HashWithSize(m.size, BagPeaks(PeaksLR(m)))

-----------------------------------------------------------------------------
(* Positions.  countOnes, and the position of a leaf. *)
CountOnes[n \in Nat] == IF n = 0 THEN 0 ELSE (n % 2) + CountOnes[n \div 2]

LeafIndexToMMRIndex(i) == 2 * i - CountOnes[i]

PeakLoop[size, peakSize, peakMap \in Nat] ==
    IF peakSize = 0 THEN [map |-> peakMap, height |-> size]
    ELSE IF size >= peakSize
         THEN PeakLoop[size - peakSize, peakSize \div 2, 2 * peakMap + 1]
         ELSE PeakLoop[size, peakSize \div 2, 2 * peakMap]

(* The smallest number of the form 2^k - 1 that is at least n. *)
AllOnes[n \in Nat] == IF n = 0 THEN 0 ELSE 2 * AllOnes[n \div 2] + 1

(* The mountains before position pos, as bits, and the height of the node there. *)
PeakMapHeight(pos) == PeakLoop[pos, AllOnes[pos], 0]

IsLeaf(pos) == PeakMapHeight(pos).height = 0

IsLeftSibling(pos) ==
    LET at == PeakMapHeight(pos) IN (at.map \div 2^at.height) % 2 = 0

(* Mutant of Family: the left sibling's parent is taken to be next to it. *)
FamilyAdjacent(pos) ==
    LET peak == 2^PeakMapHeight(pos).height IN
    IF IsLeftSibling(pos)
    THEN [parent |-> pos + 2, sibling |-> pos + 1]
    ELSE [parent |-> pos + 1, sibling |-> pos + 1 - 2 * peak]

Family(pos) ==
    LET peak == 2^PeakMapHeight(pos).height IN
    IF IsLeftSibling(pos)
    THEN [parent |-> pos + 2 * peak, sibling |-> pos + 2 * peak - 1]
    ELSE [parent |-> pos + 1, sibling |-> pos + 1 - 2 * peak]

(* The greatest tree of 2^(h+1) - 1 nodes that fits into this many. *)
TreeSize[remaining, t \in Nat] ==
    IF 2 * t + 1 <= remaining THEN TreeSize[remaining, 2 * t + 1] ELSE t

PeaksFrom[pos, remaining \in Nat] ==
    IF remaining = 0 THEN <<>>
    ELSE LET t == TreeSize[remaining, 1] IN <<pos + t - 1>> \o PeaksFrom[pos + t, remaining - t]

PeakPositionsAtSize(size) == PeaksFrom[0, size]

-----------------------------------------------------------------------------
(* Inclusion proofs: the siblings on the way up to a peak. *)
SiblingsFrom(m, leafPos) ==
    LET siblings[pos \in Nat] ==
            IF Family(pos).parent >= m.size THEN <<>>
            ELSE <<m.nodes[Family(pos).sibling + 1]>> \o siblings[Family(pos).parent]
    IN  siblings[leafPos]

(* Only asked of indexes below numLeaves; the others are an error. *)
GenerateInclusionProof(m, i) ==
    LET pos == LeafIndexToMMRIndex(i) IN
    [leafIndex |-> i, leafHash |-> m.nodes[pos + 1], siblings |-> SiblingsFrom(m, pos),
     peaks |-> PeaksLR(m), size |-> m.size]

ClimbFrom(leafPos, leafHash, siblings) ==
    LET climb(at, sibling) ==
            LET up == Family(at.pos)
                children == IF IsLeftSibling(up.sibling) THEN <<sibling, at.hash>>
                                                         ELSE <<at.hash, sibling>>
            IN  [pos |-> up.parent, hash |-> HashWithPosition(up.parent, children)]
    IN  FoldLeft(climb, [pos |-> leafPos, hash |-> leafHash], siblings).hash

(* The proof's leaf leads to one of its peaks, and these are the verifier's peaks at *)
(* the size the proof is for. *)
VerifyInclusionProof(m, proof) ==
    LET climbed == ClimbFrom(LeafIndexToMMRIndex(proof.leafIndex), proof.leafHash, proof.siblings)
        positions == PeakPositionsAtSize(proof.size)
    IN  /\ \E i \in DOMAIN proof.peaks : proof.peaks[i] = climbed
        /\ \A i \in DOMAIN positions : positions[i] < m.size
        /\ proof.peaks = [i \in DOMAIN positions |-> m.nodes[positions[i] + 1]]

-----------------------------------------------------------------------------
(* Leaf hashes are written in the order of their indexes and padded to numLeaves. *)
Snapshot(m) ==
    LET hashes == DOMAIN m.leafIndexes
        before(l) == {k \in hashes : m.leafIndexes[k] < m.leafIndexes[l]}
        known == [i \in 1 .. Cardinality(hashes) |->
                    CHOOSE l \in hashes : Cardinality(before(l)) = i - 1]
        padding == [i \in 1 .. m.numLeaves - Len(known) |-> Zero]
    IN  [peaks |-> m.peaks, nodes |-> m.nodes, leafHashes |-> known \o padding]

(* Mutant of Restore: the gaps between peaks are not restored. *)
RestorePeaks(s) ==
    [peaks |-> SelectSeq(s.peaks, LAMBDA peak : peak # Zero), nodes |-> s.nodes,
     leafIndexes |-> [l \in {s.leafHashes[i] : i \in DOMAIN s.leafHashes} |->
                        (CHOOSE i \in DOMAIN s.leafHashes : s.leafHashes[i] = l) - 1],
     numLeaves |-> Len(s.leafHashes), size |-> Len(s.nodes)]

(* The index of a leaf is where its hash is read. *)
Restore(s) ==
    [peaks |-> s.peaks, nodes |-> s.nodes,
     leafIndexes |-> [l \in {s.leafHashes[i] : i \in DOMAIN s.leafHashes} |->
                        (CHOOSE i \in DOMAIN s.leafHashes :
                           /\ s.leafHashes[i] = l
                           /\ \A j \in i + 1 .. Len(s.leafHashes) : s.leafHashes[j] # l) - 1],
     numLeaves |-> Len(s.leafHashes), size |-> Len(s.nodes)]

-----------------------------------------------------------------------------
(***************************************************************************)
(* The reference: a range of n leaves is one perfect tree per bit of n,    *)
(* the highest first, its nodes numbered in post-order.                    *)
(***************************************************************************)
Mountains(ls) ==
    LET (* The tree over n leaves from leaf i on, whose first node is at position pos. *)
        tree[pos, i, n \in Nat] ==
            IF n = 1 THEN HashWithPosition(pos, <<HashLeaf(ls[i])>>)
            ELSE LET half == n \div 2 IN
                 HashWithPosition(pos + 2 * n - 2,
                     <<tree[pos, i, half], tree[pos + 2 * half - 1, i + half, half]>>)
        trees[pos, i \in Nat] ==
            IF i > Len(ls) THEN <<>>
            ELSE LET left == Len(ls) - i + 1
                     n == CHOOSE k \in 1 .. left : (\E e \in 0 .. k : k = 2^e) /\ left < 2 * k
                 IN  <<tree[pos, i, n]>> \o trees[pos + 2 * n - 1, i + n]
    IN  trees[0, 1]

(* The range after these leaves. *)
AddLeaves(m, ls) == FoldLeft(AddLeaf, m, ls)
=============================================================================
