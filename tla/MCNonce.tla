------------------------------ MODULE MCNonce ------------------------------
(* Two concurrent requests over three nonces, a store of two entries.       *)
EXTENDS Nonce, TLC

CONSTANTS c1, c2, s1, s2

MCClients == {c1, c2}
MCScopes == {s1, s2}
MCTtls == {-5, 1, 9}
Symm == Permutations(MCClients) \cup Permutations(MCScopes)
=============================================================================
