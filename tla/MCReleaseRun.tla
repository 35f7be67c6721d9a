---------------------------- MODULE MCReleaseRun ----------------------------
(* Small instances of ReleaseRun for TLC. *)
EXTENDS ReleaseRun, TLC

CONSTANTS r1, r2, r3

(* r1 and r2 are given the same authorization, r3 another one. *)
MCRetry == (r1 :> "n1") @@ (r2 :> "n1") @@ (r3 :> "n2")
=============================================================================
