---------------------------- MODULE MCNonceStore ----------------------------
(* Instances of NonceStore: four deciders, three of them for one nonce. *)
EXTENDS NonceStore, TLC

CONSTANTS d1, d2, d3, d4, n1, n2

MCTokenOf == [d \in Deciders |-> IF d = d4 THEN n2 ELSE n1]

SameNonce == Permutations({d1, d2, d3})
=============================================================================
