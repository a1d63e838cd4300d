----------------------------- MODULE MCLineage -----------------------------
(* Process lineage for TLC: more processes than the tree may hold and more   *)
(* anchors than a causal set may.                                            *)
EXTENDS Lineage
=============================================================================
