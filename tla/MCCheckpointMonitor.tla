------------------------ MODULE MCCheckpointMonitor ------------------------
(* Instances of CheckpointMonitor: two chains that fork at the first head. *)
EXTENDS CheckpointMonitor, TLC

CONSTANTS p1, p2, p3

Head(n, b) == [size |-> n, branch |-> b]
MCGenesis == Head(1, "main")
MCHeads == {MCGenesis, Head(2, "main"), Head(2, "fork"), Head(3, "main"), Head(3, "fork")}

(* Every way from one head to another, backwards and across branches too. *)
MCReceipts == [prior : MCHeads, head : MCHeads]

(* What a ledger that forked signs: successors along either branch. *)
MCForkedLedger == {r \in MCReceipts :
  /\ r.prior.size < r.head.size
  /\ r.prior = MCGenesis \/ r.prior.branch = r.head.branch}

Symmetry == Permutations(Procs)
=============================================================================
