--------------------------- MODULE InclusionProof ---------------------------
(***************************************************************************)
(* nonce_ledger.verify_inclusion_proof, one step per level of the tree.    *)
(* The tree has the leaves 0, 1, ..., size - 1; a record is presented with *)
(* an index and a path, and the root is the one that the ledger signed.    *)
(***************************************************************************)
EXTENDS MerkleTree, SequencesExt

CONSTANTS
  MaxTree,  \* the largest tree a record is presented to
  MaxPath   \* the longest audit path presented
ASSUME MaxTreeAssumption == MaxTree \in 1..MaxSize
ASSUME MaxPathAssumption == MaxPath \in Nat

VARIABLES
  proof,     \* the arguments: record, index, size, path
  index,     \* position of the present node at its level
  last,      \* position of the last node at that level
  consumed,  \* path elements used
  node,      \* the hash computed so far
  verdict    \* "checking", "accepted" or "rejected"

vars == <<proof, index, last, consumed, node, verdict>>

RootOf == [n \in 1..MaxTree |-> Root[<<0, n>>]]
Siblings == [n \in 1..MaxTree |-> Subtrees(Root, n)]

(* Any record, in the tree or not, any index, and any path of hashes of the *)
(* tree: among them the right one, shortened, extended and permuted.        *)
Proofs == UNION {[record : 0..n, index : 0..n, size : {n},
                  path : SeqOf(Siblings[n], MaxPath)] : n \in 1..MaxTree}

(* Broken variant: an index behind the last leaf is taken. *)
AnyIndex(p) == p.size >= 1

WellFormed(p) == p.size >= 1 /\ p.index >= 0 /\ p.index < p.size

Init ==
  /\ proof \in Proofs
  /\ index = proof.index
  /\ last = proof.size - 1
  /\ consumed = 0
  /\ node = LeafHash(proof.record)
  /\ verdict = IF WellFormed(proof) THEN "checking" ELSE "rejected"

Sibling == proof.path[consumed + 1]

(* Broken variant: the parity of the index does not decide the side. *)
AlwaysLeft(i) == NodeHash(node, Sibling)

(* Broken variant: the last node of a level takes a sibling as well. *)
Pairwise(i) == IF i % 2 = 1 THEN NodeHash(Sibling, node) ELSE NodeHash(node, Sibling)

(* The parent of a node; the last one of an odd level moves up unchanged. *)
Parent(i) ==
  IF i % 2 = 1 THEN NodeHash(Sibling, node)
  ELSE IF i < last THEN NodeHash(node, Sibling)
  ELSE node

(* One round of the loop. *)
Climb ==
  /\ verdict = "checking"
  /\ last > 0
  /\ consumed < Len(proof.path)
  /\ node' = Parent(index)
  /\ consumed' = IF index % 2 = 0 /\ index >= last THEN consumed ELSE consumed + 1
  /\ index' = index \div 2
  /\ last' = last \div 2
  /\ UNCHANGED <<proof, verdict>>

(* The path is shorter than the tree is high. *)
Incomplete ==
  /\ verdict = "checking"
  /\ last > 0
  /\ consumed >= Len(proof.path)
  /\ verdict' = "rejected"
  /\ UNCHANGED <<proof, index, last, consumed, node>>

(* The loop is over: every element was used, and the root is the signed one. *)
Finish ==
  /\ verdict = "checking"
  /\ last = 0
  /\ verdict' = IF consumed = Len(proof.path) /\ node = RootOf[proof.size]
                THEN "accepted" ELSE "rejected"
  /\ UNCHANGED <<proof, index, last, consumed, node>>

Next == Climb \/ Incomplete \/ Finish

Spec == Init /\ [][Next]_vars /\ WF_vars(Next)

-----------------------------------------------------------------------------
TypeOK ==
  /\ proof \in Proofs
  /\ index \in 0..MaxTree
  /\ last \in 0..(MaxTree - 1)
  /\ consumed \in 0..MaxPath
  /\ verdict \in {"checking", "accepted", "rejected"}
  /\ verdict # "rejected" => index <= last

(* "the consumed record must be an actual leaf in the signed tree": a proof *)
(* is accepted only for the record at that index and with its one path, so  *)
(* that a receipt cannot be altered and still be accepted.                  *)
OnlyTheLeaf ==
  verdict = "accepted" =>
    /\ proof.index < proof.size
    /\ proof.record = proof.index
    /\ proof.path = AuditPath(Root, proof.index, proof.size)

(* An honest proof: that of a leaf of the tree. *)
HonestProof ==
  /\ proof.index < proof.size
  /\ proof.record = proof.index
  /\ proof.path = AuditPath(Root, proof.index, proof.size)

(* The proof that RFC 6962 defines for a leaf is accepted, at the right     *)
(* edge of a tree of any shape too, where a level takes no path element.    *)
ProofsOfLeavesAccepted == HonestProof ~> verdict = "accepted"
=============================================================================
