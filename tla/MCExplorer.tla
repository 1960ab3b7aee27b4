----------------------------- MODULE MCExplorer ------------------------------
(***************************************************************************)
(* An instance of Explorer for TLC: a block with a chunk; one with a chunk *)
(* and two files, one with a chunk twice and an empty one; one with a      *)
(* directory with one of them.  With the flag 2 the first two blocks may   *)
(* not be indexed, and then the directory's foreign key is missing.        *)
(***************************************************************************)
EXTENDS Explorer

CONSTANTS c1, c2, f1, f2, d1

MCBody == <<[chunks |-> <<c1>>, files |-> <<>>, dirs |-> <<>>],
            [chunks |-> <<c2>>, files |-> <<f1, f2>>, dirs |-> <<>>],
            [chunks |-> <<>>, files |-> <<>>, dirs |-> <<d1>>]>>
MCChunksOf == [f \in {f1, f2} |-> IF f = f1 THEN <<c1, c2, c1>> ELSE <<>>]
MCFilesOf == [d \in {d1} |-> <<[path |-> "a", id |-> f1]>>]
MCApiLimits == {0, 1}
MCSearches == {{f1, f2}}
=============================================================================
