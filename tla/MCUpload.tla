------------------------------ MODULE MCUpload ------------------------------
(***************************************************************************)
(* A directory for TLC: two files of the same contents, one of which then  *)
(* gets a second chunk.  Two blobs fit into a transaction; chunk c2        *)
(* exceeds the limit by itself.                                            *)
(***************************************************************************)
EXTENDS Upload

CONSTANTS p1, p2

MCPaths == {p1, p2}
MCVersions ==
    <<[p \in MCPaths |-> <<"c1">>],
      [p \in MCPaths |-> IF p = p1 THEN <<"c1", "c2">> ELSE <<"c1">>]>>
MCSize(blob) == IF blob.kind = "chunk" /\ blob.data = "c2" THEN 3 ELSE 1
=============================================================================
