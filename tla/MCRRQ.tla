------------------------------- MODULE MCRRQ --------------------------------
(* Small instances of the fast response queue for TLC.                     *)
EXTENDS CmsRRQ, TLC

CONSTANTS s1, s2, i1, sel1, sel2, loc1

MCSlots == {s1, s2}
MCReqs == {sel1, sel2, loc1}
MCLocates == {loc1}

SlotSym == Permutations(MCSlots)
=============================================================================
