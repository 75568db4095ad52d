---------------------------- MODULE MCOfsHandle -----------------------------
(* Small instances of the file handles for TLC.                            *)
EXTENDS OfsHandle, TLC

CONSTANTS f1, f2, f3, u1, u2, h1, h2, x1, x2

\* Two objects of one client, which loses its connection and comes back, and
\* one of another client.
MCUser == [f \in Files |-> IF f = f3 THEN u2 ELSE u1]
HandleSym == Permutations({h1, h2})
=============================================================================
