---------------------------- MODULE MCNodeClients ----------------------------
(***************************************************************************)
(* An instance of NodeClients for TLC: an encrypted file, a plain file of  *)
(* two chunks, an empty file, and a manifest with a wrong hash, which is   *)
(* never accepted; a directory with a subdirectory, whose files need two   *)
(* pages each, one with the encrypted file and one with the empty file.    *)
(***************************************************************************)
EXTENDS NodeClients

CONSTANTS a, b, c1, c2, c3, sealed, plain, empty, wrong, tree, vault, hollow, k1, k2

MCSealed == Encrypt(<<a, b>>, k1)
MCChunkData == [c \in {c1, c2, c3} |->
                  CASE c = c1 -> <<a, b>> [] c = c2 -> <<b>> [] c = c3 -> MCSealed]
MCManifest(cs, text) == [chunks |-> cs, size |-> Len(text), hash |-> HashBytes(text)]
MCFileManifest == [f \in {sealed, plain, empty, wrong} |->
                     CASE f = sealed -> MCManifest(<<c3>>, MCSealed)
                       [] f = plain  -> MCManifest(<<c2, c1>>, <<b, a, b>>)
                       [] f = empty  -> MCManifest(<<>>, <<>>)
                       [] f = wrong  -> MCManifest(<<c1>>, <<b, b>>)]
MCDirManifest == [d \in {tree, vault, hollow} |->
                    CASE d = tree   -> <<[path |-> <<1>>, id |-> plain],
                                         [path |-> <<2, 1>>, id |-> sealed],
                                         [path |-> <<2, 3>>, id |-> plain],
                                         [path |-> <<3>>, id |-> sealed]>>
                      [] d = vault  -> <<[path |-> <<1>>, id |-> sealed]>>
                      [] d = hollow -> <<[path |-> <<1>>, id |-> empty]>>]
MCJobs == {[kind |-> "dir", id |-> tree, key |-> NoKey], [kind |-> "dir", id |-> vault, key |-> NoKey],
           [kind |-> "dir", id |-> vault, key |-> k1], [kind |-> "dir", id |-> vault, key |-> k2],
           [kind |-> "dir", id |-> hollow, key |-> NoKey],
           [kind |-> "file", id |-> plain, path |-> <<1>>, key |-> NoKey],
           [kind |-> "file", id |-> plain, path |-> <<2>>, key |-> NoKey]}
MCFileAt(path, text) == [files |-> [p \in {path} |-> text], dirs |-> Parents(path)]
MCDisks == {[files |-> <<>>, dirs |-> {}], [files |-> <<>>, dirs |-> {<<>>, <<1>>}],
            MCFileAt(<<1>>, <<a, a, a>>), MCFileAt(<<1>>, <<a, a>>), MCFileAt(<<>>, <<a>>)}
MCSubPaths == {<<>>, <<1>>, <<2>>, <<2, 3>>}
MCRanges == {NoRange, BadRange, [first |-> 1, last |-> Blank], [first |-> 1, last |-> 1],
             [first |-> 0, last |-> 7], [first |-> 3, last |-> Blank], [first |-> 2, last |-> 1],
             [first |-> Blank, last |-> 1]}
=============================================================================
