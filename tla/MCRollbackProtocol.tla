------------------------- MODULE MCRollbackProtocol -------------------------
(* Small instances of RollbackProtocol for TLC. *)
EXTENDS RollbackProtocol

Head(n, r) == [size |-> n, root |-> r]

MCGenesis == Head(1, "a")
MCFork == Head(2, "b")

(* Two siblings of size 2 and one head of size 3. *)
MCHeads == {MCGenesis, Head(2, "a"), MCFork, Head(3, "a")}

(* Just the two siblings. *)
MCSiblings == {MCGenesis, Head(2, "a"), MCFork}

(* A store tampered with shows the sibling of the head that was anchored. *)
MCForkedHead == {MCFork}

MCNone == {}
=============================================================================
