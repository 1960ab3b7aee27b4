---------------------------- MODULE MCHeaderFeed ----------------------------
(***************************************************************************)
(* Instances of HeaderFeed for TLC.                                        *)
(***************************************************************************)
EXTENDS HeaderFeed, TLC

CONSTANTS c1, s1, s2

MCClients == {c1}
MCStreams == {s1, s2}
StreamSymmetry == Permutations(MCStreams)
=============================================================================
