--------------------------- MODULE MCPoolClients ---------------------------
(***************************************************************************)
(* TLC instance of PoolClients: three blocks, one of them reserved, three  *)
(* hashes and more handles than blocks so that sharing and exhaustion both *)
(* happen.                                                                 *)
(***************************************************************************)
EXTENDS PoolClients, TLC

\* Handles are interchangeable, and so are hashes.
Symmetry == Permutations(Handles) \cup Permutations(Hashes)
=============================================================================
