----------------------------- MODULE MCPending ------------------------------
(* Small instances of the cache's use of the response queue for TLC.       *)
EXTENDS CmsPending, TLC

CONSTANTS s1, s2, i1, rd1, rd2, wr1

MCSlots == {s1, s2}
SlotSym == Permutations(MCSlots)
=============================================================================
