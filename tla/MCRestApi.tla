------------------------------ MODULE MCRestApi ------------------------------
(***************************************************************************)
(* An instance of RestApi for TLC: blocks with lists of up to four         *)
(* identifiers, among them lists that differ in their order or in one      *)
(* repeated at the end, with up to nine leaves in all; a short chain id    *)
(* and one too long for its length byte.                                   *)
(***************************************************************************)
EXTENDS RestApi

CONSTANTS d, f, g, x, y

MCChainIDs == {[text |-> "blobcast", length |-> 8], [text |-> "long", length |-> 300]}
MCBody(ds, fs, cs) == [dirs |-> ds, files |-> fs, chunks |-> cs]
MCFull == MCBody(<<d>>, <<f, g>>, <<x>>)
MCBodies == <<{MCFull},
              {NoBody, MCBody(<<d>>, <<f, g>>, <<x, y, x>>), MCBody(<<>>, <<g, f>>, <<x, y, x, x>>)},
              {MCFull}>>
MCManifestIds == {[height |-> 6, commitment |-> f], [height |-> 7, commitment |-> d]}
MCOtherTexts ==
    {[zeroX |-> FALSE, digits |-> "decimal", length |-> 64, value |-> Raw(32, Garbage)],
     [zeroX |-> TRUE, digits |-> "hex", length |-> 10, value |-> Raw(4, Garbage)],
     [zeroX |-> FALSE, digits |-> "other", length |-> 4, value |-> Garbage]}
=============================================================================
