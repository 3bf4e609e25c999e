--------------------------- MODULE MCComposeProbe ---------------------------
(* Small instances of ComposeProbe.                                         *)
EXTENDS ComposeProbe, TLC

CONSTANTS p1, p2

Symmetry == Permutations({p1, p2})
=============================================================================
