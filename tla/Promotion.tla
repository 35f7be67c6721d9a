------------------------------ MODULE Promotion ------------------------------
(* The promotion gate (promotion_gate.py with tuf_roster.py and              *)
(* result_attestation.py) over what this run and a former one have left.     *)
(*                                                                           *)
(* The gate reads its arguments by path, one after the other, and the record *)
(* twice; between two reads a file may be replaced by the other run's.       *)
EXTENDS Execution

CONSTANTS
  Formers,      \* what a former run may have left: its record, attested or not
  TufRoster,    \* the roster that the pinned TUF metadata name
  MaxSwaps      \* bounds the replacements

PromotionAssumption ==
  /\ \A x \in Formers : x.record.digests \in Maps
  /\ MaxSwaps \in Nat
  /\ None \notin {"this", "former"}
ASSUME PromotionAssumption

Runs == {"this", "former"}
Parts == {"manifest", "record", "evidence", "bundle"}

VARIABLES
  former,
  shelf,        \* whose file each path names
  gate,         \* where the gate is
  files,        \* the execution manifest it has read
  validated,    \* the run whose record it has validated
  signed,       \* the run whose record cosign has verified
  expired,      \* the TUF metadata have
  swaps

outside == <<former, expired, swaps>>
gateVars == <<outside, shelf, gate, files, validated, signed>>
vars == <<executionVars, gateVars>>

RecordOf(r) == IF r = "this" THEN record ELSE former.record
Attested(r) == IF r = "this" THEN pc = "attested" ELSE former.attested
ManifestOf(r) == IF r = "this" THEN Pinned ELSE former.record.digests

Init ==
  /\ ExecutionInit
  /\ former \in Formers
  /\ shelf = [p \in Parts |-> "former"]
  /\ gate = "idle"
  /\ files = None
  /\ validated = None
  /\ signed = None
  /\ expired = FALSE
  /\ swaps = 0

(* The job is over and the operator has laid out its files, or others.  The  *)
(* roster is read once, and has the digest and length that the metadata name.*)
VerifyRoster ==
  /\ gate = "idle"
  /\ ~expired
  /\ pc \in {"attested", "failed"}
  /\ shelf' \in [Parts -> Runs]
  /\ gate' = "manifest"
  /\ UNCHANGED <<executionVars, outside, files, validated, signed>>

LoadManifest ==
  /\ gate = "manifest"
  /\ files' = ManifestOf(shelf["manifest"])
  /\ gate' = "record"
  /\ UNCHANGED <<executionVars, outside, shelf, validated, signed>>

ReadRecord ==
  /\ gate = "record"
  /\ RecordOf(shelf["record"]) # None
  /\ validated' = shelf["record"]
  /\ gate' = "evidence"
  /\ UNCHANGED <<executionVars, outside, shelf, files, signed>>

(* Broken variant: the files of the run are compared, not its outcome. *)
LoadRecordOfAnyRun == ReadRecord /\ RecordOf(shelf["record"]).digests = files

LoadRecord == ReadRecord /\ Valid(RecordOf(shelf["record"]), files)

(* The digests of the evidence files are those in the record. *)
CheckEvidence ==
  /\ gate = "evidence"
  /\ shelf["evidence"] = validated
  /\ gate' = "bundle"
  /\ UNCHANGED <<executionVars, outside, shelf, files, validated, signed>>

(* Broken variant: a bundle is verified, the record is not given to cosign. *)
VerifyBundleAlone ==
  /\ gate = "bundle"
  /\ Attested(shelf["bundle"])
  /\ signed' = shelf["bundle"]
  /\ gate' = "rosters"
  /\ UNCHANGED <<executionVars, outside, shelf, files, validated>>

(* Cosign opens the record again, by its path. *)
VerifyBundle ==
  /\ gate = "bundle"
  /\ shelf["bundle"] = shelf["record"]
  /\ Attested(shelf["bundle"])
  /\ signed' = shelf["record"]
  /\ gate' = "rosters"
  /\ UNCHANGED <<executionVars, outside, shelf, files, validated>>

CompareRosters ==
  /\ gate = "rosters"
  /\ RecordOf(validated).roster = TufRoster
  /\ gate' = "granted"
  /\ UNCHANGED <<executionVars, outside, shelf, files, validated, signed>>

(* A check raised, a file was not there, cosign met its deadline. *)
Refuse ==
  /\ gate \notin {"idle", "granted", "refused"}
  /\ gate' = "refused"
  /\ files' = None
  /\ validated' = None
  /\ signed' = None
  /\ UNCHANGED <<executionVars, outside, shelf>>

(* The environment. *)
Expire ==
  /\ pc \in {"attested", "failed"} /\ ~expired
  /\ expired' = TRUE
  /\ UNCHANGED <<executionVars, former, swaps, shelf, gate, files, validated, signed>>

Swap(p) ==
  /\ gate \notin {"idle", "granted", "refused"}
  /\ swaps < MaxSwaps
  /\ swaps' = swaps + 1
  /\ shelf' = [shelf EXCEPT ![p] = IF shelf[p] = "this" THEN "former" ELSE "this"]
  /\ UNCHANGED <<executionVars, former, expired, gate, files, validated, signed>>

GateNext ==
  \/ VerifyRoster \/ LoadManifest \/ LoadRecord \/ CheckEvidence
  \/ VerifyBundle \/ CompareRosters
  \/ Refuse
  \/ Expire
  \/ \E p \in Parts : Swap(p)

Next == (ExecutionNext /\ UNCHANGED gateVars) \/ GateNext

Spec == Init /\ [][Next]_vars

-----------------------------------------------------------------------------
TypeOK ==
  /\ ExecutionTypeOK
  /\ former \in Formers
  /\ shelf \in [Parts -> Runs]
  /\ gate \in {"idle", "manifest", "record", "evidence", "bundle", "rosters",
               "granted", "refused"}
  /\ files \in Maps \cup {None}
  /\ validated \in Runs \cup {None}
  /\ signed \in Runs \cup {None}
  /\ expired \in BOOLEAN
  /\ swaps \in 0..MaxSwaps

(* A promotion is granted for passed runs over pinned bytes only: the run    *)
(* whose record was validated, and the one whose record cosign has verified, *)
(* which may be another if the file was replaced between the two reads.      *)
GrantedRanPinned ==
  gate = "granted" /\ "this" \in {validated, signed} =>
    ran = Pinned /\ exit.code = 0 /\ exit.intact

(* Without a replacement during the call the two are one, attested run.      *)
GrantedIsAttested ==
  gate = "granted" /\ swaps = 0 => validated = signed /\ Attested(validated)
=============================================================================
