---------------------------- MODULE MCScheduler -----------------------------
(* Small instances of the thread scheduler for TLC.                        *)
EXTENDS Scheduler, TLC

CONSTANTS j1, j2, mon, w1, w2, w3

MCLists == {<<j2>>, <<j1, j2>>}
WorkerSym == Permutations({w1, w2, w3})
=============================================================================
