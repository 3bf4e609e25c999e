---------------------------- MODULE MCStateFile ----------------------------
(* Small instances of StateFile: a short and a long document.               *)
EXTENDS StateFile, TLC

CONSTANTS short, long

MCSize == (short :> 1) @@ (long :> 2)

Symmetry == Permutations(Procs) \cup Permutations(Inodes)
=============================================================================
