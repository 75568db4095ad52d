----------------------------- MODULE MCLocate -------------------------------
(* Small instances of file location for TLC.                               *)
EXTENDS CmsLocate, TLC

CONSTANTS f1, rd1, wr1, loc1

\* A file that is not loaded has no entry: AddNew sets all of it.
Entry(f) == <<hf[f], qf[f], deadline[f], todB[f], tod[f], list[f]>>

\* The locals of a request that it will still read.  With neither writes nor
\* staging nothing is read after the client was parked.
Live(r) ==
  CASE pc[r] = "get" -> <<pinfo[r]>>
    [] pc[r] = "park" -> <<vec[r], rc[r], sel[r] = {}>>
    [] OTHER -> << >>

\* Without bounces the bounce clock and what depends on it do not matter, and
\* the freshness of locations influences nothing.
AskedView ==
  <<[f \in loaded |-> <<Entry(f), told[f]>>], okVec, nodeVars,
    [r \in Reqs |-> <<pc[r], file[r], ask[r], unq[r], seen[r], Live(r)>>]>>

\* What was asked of whom influences nothing.
CurrentView ==
  <<[f \in loaded |-> <<Entry(f), said[f], skipped[f]>>], clockVars, nodeVars, reqVars>>
=============================================================================
