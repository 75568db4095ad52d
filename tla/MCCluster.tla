----------------------------- MODULE MCCluster -----------------------------
(* Small instances of the node table for TLC.                              *)
EXTENDS CmsCluster
=============================================================================
