----------------------------- MODULE MCDecision -----------------------------
(* A small instance of Decision: two threads of one process. *)
EXTENDS Decision

CONSTANTS d1, d2

Threads == {d1, d2}
=============================================================================
