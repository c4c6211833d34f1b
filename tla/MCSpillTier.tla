---------------------------- MODULE MCSpillTier ----------------------------
(***************************************************************************)
(* TLC instances of SpillTier: room for two blocks in memory and two on    *)
(* disk.                                                                   *)
(***************************************************************************)
EXTENDS SpillTier, TLC

Symmetry == Permutations(Hashes)
=============================================================================
