--------------------------- MODULE MCBlobcastChain ---------------------------
(* A small namespace for BlobcastChain: two chunks, a file made of both, a   *)
(* file manifest with a wrong size, a directory of the first file (as        *)
(* recorded in block 1), and a blob that does not decode.                    *)
EXTENDS BlobcastChain

MCBlob == {"c1", "c2", "f1", "f2", "d1", "bad"}

MCEnvelope ==
  [ c1  |-> [kind |-> "chunk", data |-> <<1>>],
    c2  |-> [kind |-> "chunk", data |-> <<2, 3>>],
    f1  |-> [kind |-> "file", size |-> 3, hash |-> HashBytes(<<1, 2, 3>>),
             chunks |-> << [commitment |-> "c1", hash |-> HashBytes(<<1>>)],
                           [commitment |-> "c2", hash |-> HashBytes(<<2, 3>>)] >>],
    f2  |-> [kind |-> "file", size |-> 2, hash |-> HashBytes(<<1>>),
             chunks |-> << [commitment |-> "c1", hash |-> HashBytes(<<1>>)] >>],
    d1  |-> [kind |-> "dir",
             files |-> << [id |-> [height |-> 2, commitment |-> "f1"], path |-> "a"] >>,
             hash |-> CalculateMerkleRoot(
                        << HashBytes(<<"a", HashBytes(<<1, 2, 3>>)>>) >>)],
    bad |-> [kind |-> "invalid"] ]

\* A file after, before and apart from its chunks; a directory with, before and
\* apart from its file; a mismatching manifest; an undecodable blob.
MCContents ==
  { <<>>, <<"f1", "c1", "f2">>, <<"c1", "c2", "f1", "d1">>, <<"d1", "c2", "f1">>,
    <<"c1", "bad">> }

\* Any one choice for the offset height will do: the genesis block is built
\* without its blobs, and no later step reads them.
MCInit == Init /\ da = << <<"c1", "c2", "f1", "d1">> >>

MCFairSpec == MCInit /\ [][Next]_vars /\ WF_vars(SyncChain)
=============================================================================
