-------------------------- MODULE ConsistencyProof --------------------------
(***************************************************************************)
(* nonce_ledger.verify_consistency_proof, one step per round of its loops. *)
(* The new tree has the leaves 0, 1, ..., new - 1, by their positions.  Of *)
(* the old tree the verifier holds a size and a root, and the path that is *)
(* presented to it may be anything.                                        *)
(***************************************************************************)
EXTENDS MerkleTree

CONSTANT Growths  \* the arguments: old and new size, old root, path

GrowthsAssumption ==
  \A p \in Growths :
    /\ p.old \in 1..MaxSize
    /\ p.new \in 1..MaxSize
    /\ p.path \in Seq({p.path[k] : k \in DOMAIN p.path})
ASSUME GrowthsAssumption

VARIABLES
  growth,   \* the arguments of this call
  fn, sn,   \* positions in the old and in the new tree
  fr, sr,   \* the roots computed so far
  used,     \* path elements used
  outcome   \* the loop it is in, "accepted" or "rejected"

growthVars == <<growth, fn, sn, fr, sr, used, outcome>>

NewRoot(p) == Root[<<0, p.new>>]

(* The old tree is the beginning of the new one. *)
Extends(p) == p.root = Root[<<0, p.old>>]

(* Broken variant: the old tree may be the larger one. *)
AnyOrder(p) == p.old >= 1

Ordered(p) == p.old >= 1 /\ p.new >= p.old

Odd(x) == x % 2 = 1

(* Broken variant: heads of one size are not compared. *)
SameSizeUnchecked(p) == p.path = <<>>

(* Equal sizes need equal roots and no path. *)
SameSize(p) == p.path = <<>> /\ p.root = NewRoot(p)

GrowthInit ==
  /\ growth \in Growths
  /\ fn = growth.old - 1
  /\ sn = growth.new - 1
  /\ fr = growth.root /\ sr = growth.root
  /\ used = 0
  /\ outcome =
       IF ~Ordered(growth) THEN "rejected"
       ELSE IF growth.old = growth.new
         THEN IF SameSize(growth) THEN "accepted" ELSE "rejected"
       ELSE "starting"

Halve == fn' = fn \div 2 /\ sn' = sn \div 2

(* while fn & 1: up to the last whole subtree of the old tree. *)
Descend ==
  /\ outcome = "starting"
  /\ Odd(fn)
  /\ Halve
  /\ UNCHANGED <<growth, fr, sr, used, outcome>>

(* Where the old tree is that subtree its root is known, else the path      *)
(* begins with it.                                                          *)
Seed ==
  /\ outcome = "starting"
  /\ ~Odd(fn)
  /\ IF fn = 0 THEN outcome' = "checking" /\ UNCHANGED <<fr, sr, used>>
     ELSE IF growth.path = <<>> THEN outcome' = "rejected" /\ UNCHANGED <<fr, sr, used>>
     ELSE /\ fr' = growth.path[1] /\ sr' = growth.path[1]
          /\ used' = 1
          /\ outcome' = "checking"
  /\ UNCHANGED <<growth, fn, sn>>

NextNode == growth.path[used + 1]

(* Broken variant: the right edge of both trees is overlooked. *)
InBothByParity == Odd(fn)

(* Some of the old tree is to the left: the sibling is in both trees. *)
InBoth == Odd(fn) \/ fn = sn

(* One round of the loop over the path. *)
Ascend ==
  /\ outcome = "checking"
  /\ used < Len(growth.path)
  /\ sn > 0
  /\ IF InBoth
     THEN /\ fr' = NodeHash(NextNode, fr)
          /\ sr' = NodeHash(NextNode, sr)
          /\ outcome' = "skipping"
          /\ UNCHANGED <<fn, sn>>
     ELSE /\ sr' = NodeHash(sr, NextNode)
          /\ Halve
          /\ UNCHANGED <<fr, outcome>>
  /\ used' = used + 1
  /\ UNCHANGED growth

(* while fn and not (fn & 1): levels at which the node has no sibling. *)
Skip ==
  /\ outcome = "skipping"
  /\ fn # 0 /\ ~Odd(fn)
  /\ Halve
  /\ UNCHANGED <<growth, fr, sr, used, outcome>>

(* The level of the sibling is done. *)
NextLevel ==
  /\ outcome = "skipping"
  /\ fn = 0 \/ Odd(fn)
  /\ Halve
  /\ outcome' = "checking"
  /\ UNCHANGED <<growth, fr, sr, used>>

(* The path is longer than the new tree is high. *)
Excess ==
  /\ outcome = "checking"
  /\ used < Len(growth.path)
  /\ sn = 0
  /\ outcome' = "rejected"
  /\ UNCHANGED <<growth, fn, sn, fr, sr, used>>

(* The path is used up: it reached the root, and both roots are the heads'. *)
CompareRoots ==
  /\ outcome = "checking"
  /\ used = Len(growth.path)
  /\ outcome' = IF sn = 0 /\ fr = growth.root /\ sr = NewRoot(growth)
                THEN "accepted" ELSE "rejected"
  /\ UNCHANGED <<growth, fn, sn, fr, sr, used>>

GrowthNext == Descend \/ Seed \/ Ascend \/ Skip \/ NextLevel \/ Excess \/ CompareRoots

GrowthSpec == GrowthInit /\ [][GrowthNext]_growthVars /\ WF_growthVars(GrowthNext)

-----------------------------------------------------------------------------
(* An honest proof presented for a tree that was extended. *)
Honest ==
  /\ growth.old < growth.new
  /\ Extends(growth)
  /\ growth.path = ConsistencyPath(Root, growth.old, growth.new)

GrowthTypeOK ==
  /\ growth \in Growths
  /\ fn \in 0..MaxSize
  /\ sn \in 0..MaxSize
  /\ used \in 0..(Len(growth.path) + 1)
  /\ outcome \in {"starting", "checking", "skipping", "accepted", "rejected"}
  /\ outcome \in {"starting", "checking", "skipping"} => fn <= sn

(* "Growth requires a standard history consistency proof and therefore      *)
(* cannot rewrite any prior leaf": two heads are accepted only if the old   *)
(* root is that of the new tree's first leaves, and only with the one proof *)
(* of it.                                                                   *)
NoRewrittenLeaf ==
  outcome = "accepted" =>
    /\ growth.old <= growth.new
    /\ Extends(growth)
    /\ growth.old < growth.new =>
         growth.path = ConsistencyPath(Root, growth.old, growth.new)

(* The consistency proof that RFC 6962 defines is accepted for every pair   *)
(* of sizes: whether the old tree is a whole subtree of the new one, ends   *)
(* at its right edge or in the middle.                                      *)
HonestGrowthAccepted == Honest ~> outcome = "accepted"
=============================================================================
