----------------------------- MODULE LinearHead -----------------------------
(***************************************************************************)
(* What both checkpoint protocols of the repository promise, free of       *)
(* replicas, messages and crashes: there is one head, it is only ever      *)
(* replaced by one of its strict successors, and whatever a gate reports   *)
(* to its caller as the current head is the head at that very instant.     *)
(* rollback_protocol.py implements it with an anchor and checkpoint        *)
(* stores, run_external.py / checkpoint_quorum.py with an ordered quorum.  *)
(***************************************************************************)
CONSTANTS
  Genesis,   \* the head the deployment provisions
  Precedes   \* the pairs <<h, k>> where k is a strict successor of h

VARIABLES
  head,      \* the one current head
  reported   \* the head a gate last returned to a caller

vars == <<head, reported>>

Init ==
  /\ head = Genesis
  /\ reported = Genesis

(* A compare-and-swap that succeeded. *)
Advance ==
  /\ <<head, head'>> \in Precedes
  /\ UNCHANGED reported

(* A unanimous read that returned. *)
Report ==
  /\ reported' = head
  /\ UNCHANGED head

Next == Report \/ Advance

Spec == Init /\ [][Next]_vars
=============================================================================
