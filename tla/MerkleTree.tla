----------------------------- MODULE MerkleTree -----------------------------
(***************************************************************************)
(* The Merkle tree of RFC 6962 that nonce_ledger.py names, its inclusion   *)
(* and consistency proofs: what the verifiers are checked against.         *)
(*                                                                         *)
(* A hash is the term that was hashed, so equal hashes have equal origins. *)
(* The domain separation of the code keeps leaves and nodes apart: one is  *)
(* a sequence of one element, the other of two.                            *)
(***************************************************************************)
EXTENDS Integers, Sequences

CONSTANT MaxSize  \* the largest tree considered
ASSUME MaxSizeAssumption == MaxSize \in Nat \ {0}

LeafHash(x) == <<x>>
NodeHash(left, right) == <<left, right>>

(* The largest power of two smaller than n: twice that of n's half.         *)
Halves[n \in 2..MaxSize] == IF n = 2 THEN 1 ELSE 2 * Halves[(n + 1) \div 2]

Split(n) == Halves[n]

(* Every range of leaves: the first one and how many. *)
Ranges == {r \in (0..(MaxSize - 1)) \X (1..MaxSize) : r[1] + r[2] <= MaxSize}

(* The two subtrees of a range. *)
Low(r) == <<r[1], Split(r[2])>>
High(r) == <<r[1] + Split(r[2]), r[2] - Split(r[2])>>

(* The root over each range of the leaves leaf[0], leaf[1], ... *)
Roots(leaf) ==
  LET root[r \in Ranges] ==
        IF r[2] = 1 THEN LeafHash(leaf[r[1]]) ELSE NodeHash(root[Low(r)], root[High(r)])
  IN root

(* The ledger's tree has the leaves 0, 1, 2, ... *)
Leaf == [i \in 0..(MaxSize - 1) |-> i]
Root == Roots(Leaf)

(* The audit path of leaf i in each range, from the leaf upward. *)
AuditPaths(root, i) ==
  LET path[r \in Ranges] ==
        IF r[2] = 1 THEN <<>>
        ELSE IF i < High(r)[1] THEN path[Low(r)] \o <<root[High(r)]>>
        ELSE path[High(r)] \o <<root[Low(r)]>>
  IN path

AuditPath(root, i, size) == AuditPaths(root, i)[<<0, size>>]

(* The proof, for each range, that the tree extends its first old leaves.   *)
(* The root of old leaves from the first one on is known to the verifier.   *)
ConsistencyPaths(root, old) ==
  LET path[r \in Ranges] ==
        IF r[2] = 1 \/ old >= r[1] + r[2] THEN IF r[1] = 0 THEN <<>> ELSE <<root[r]>>
        ELSE IF old <= High(r)[1] THEN path[Low(r)] \o <<root[High(r)]>>
        ELSE path[High(r)] \o <<root[Low(r)]>>
  IN path

ConsistencyPath(root, old, size) == ConsistencyPaths(root, old)[<<0, size>>]

(* The hashes a tree of that size is made of. *)
Subtrees(root, size) ==
  LET part[r \in Ranges] ==
        IF r[2] = 1 THEN {r} ELSE {r} \cup part[Low(r)] \cup part[High(r)]
  IN {root[r] : r \in part[<<0, size>>]}
=============================================================================
