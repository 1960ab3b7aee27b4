----------------------------- MODULE MCRapidSync -----------------------------
(***************************************************************************)
(* Instances of RapidSync for TLC: every block but genesis records         *)
(* something, so a hole always loses a snapshot.                           *)
(***************************************************************************)
EXTENDS RapidSync, TLC

CONSTANTS w1, w2

MCWorkers == {w1, w2}
MCNonEmpty == 1 .. MaxHeight
WorkerSymmetry == Permutations(MCWorkers)
=============================================================================
