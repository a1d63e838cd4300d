------------------------------ MODULE MCChain ------------------------------
(* The forensic chain for TLC: two encoded sizes, one of which fills a batch *)
(* by bytes alone.                                                            *)
EXTENDS Chain

SmallAndLarge == {0, 2}
Small == {0}
=============================================================================
