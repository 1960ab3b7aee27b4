---------------------------- MODULE RollupLedger ----------------------------
(***************************************************************************)
(* What a full node promises: a ledger that only grows, each block of      *)
(* which is a function of the blocks before it and of the blobs at one     *)
(* Celestia height.  There are no transactions, no caches, no crashes and  *)
(* no state MMR snapshots here; BlobcastChain is shown to implement it.    *)
(***************************************************************************)
EXTENDS Envelopes, FiniteSets

CONSTANT Contents

VARIABLES
  da,       \* Celestia
  ledger    \* ledger[h + 1] is the block at height h

-----------------------------------------------------------------------------
RecordedChunks(l) == UNION {Commitments(l[i].chunks) : i \in DOMAIN l}

RecordedFiles(l) == UNION {SeqRange(l[i].files) : i \in DOMAIN l}

\* The blob at index i is recorded in the next block of ledger l.
Recorded(l, blobs, i) ==
  LET e == Envelope[blobs[i]] IN
  CASE e.kind = "chunk" -> TRUE
    [] e.kind = "file"  ->
         /\ Commitments(e.chunks) \subseteq
              RecordedChunks(l) \cup
              {blobs[j] : j \in {k \in 1..(i - 1) : Envelope[blobs[k]].kind = "chunk"}}
         /\ FileMatches(blobs[i])
    [] e.kind = "dir"   ->
         /\ FileIds(e.files) \subseteq RecordedFiles(l)
         /\ DirMatches(blobs[i])
    [] OTHER -> FALSE

\* The place of i among the members of P, counted from 1.
Rank(P, i) == Cardinality({j \in P : j <= i})

\* The identifiers of the recorded blobs of one kind, in blob order.
Body(l, blobs, kind) ==
  LET picked == {i \in DOMAIN blobs : Envelope[blobs[i]].kind = kind /\ Recorded(l, blobs, i)}
  IN  [n \in 1..Cardinality(picked) |->
         [height     |-> Len(l) + Offset,
          commitment |-> blobs[CHOOSE i \in picked : Rank(picked, i) = n]]]

\* The block that extends ledger l with the blobs of its Celestia height: its
\* state root commits to what the one below commits to, and to its own roots.
Derive(l, blobs) ==
  LET new  == NewBlock(Body(l, blobs, "dir"), Body(l, blobs, "file"), Body(l, blobs, "chunk"))
      last == l[Len(l)]
  IN  [new EXCEPT !.height = Len(l),
                  !.celestiaHeight = Len(l) + Offset,
                  !.parentHash = HeaderHash(last),
                  !.stateRoot = MMRRoot(RootLeaves(last.stateRoot) \o NewLeaves(new))]

-----------------------------------------------------------------------------
Init ==
  /\ da \in [1..Offset -> Contents]
  /\ ledger = <<>>

CelestiaBlock ==
  /\ \E bs \in Contents : da' = Append(da, bs)
  /\ UNCHANGED ledger

CreateGenesis ==
  /\ ledger = <<>>
  /\ ledger' = <<GenesisBlock>>
  /\ UNCHANGED da

Extend ==
  /\ ledger # <<>>
  /\ Len(ledger) + Offset <= Len(da)
  /\ LET blobs == da[Len(ledger) + Offset] IN
       /\ \A i \in DOMAIN blobs : Envelope[blobs[i]].kind # "invalid"
       /\ ledger' = Append(ledger, Derive(ledger, blobs))
  /\ UNCHANGED da

Next == CelestiaBlock \/ CreateGenesis \/ Extend

Spec == Init /\ [][Next]_<<da, ledger>>
=============================================================================
