------------------------------ MODULE MCCache -------------------------------
(* Small instances of the location cache for TLC.                          *)
EXTENDS CmsCache, TLC

CONSTANTS f1, f2

MCFiles == {f1, f2}
FileSym == Permutations(MCFiles)

\* Which servers are still to be asked and the deadline influence nothing
\* else, and a file that is not loaded has no entry: AddNew sets all of it.
KnownView ==
  <<clockVars, [f \in loaded |-> <<hf[f], todB[f], tod[f], list[f], fresh[f], skipped[f]>>]>>
=============================================================================
