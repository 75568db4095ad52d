----------------------------- MODULE MCOfsPoscq -----------------------------
(* Small instances of the queue of unfinished files for TLC.               *)
EXTENDS OfsPoscq, TLC

CONSTANTS p1, p2

PathSym == Permutations({p1, p2})
=============================================================================
