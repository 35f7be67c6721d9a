----------------------------- MODULE MCPromotion -----------------------------
(* Small instances of Promotion: files of the candidate whose names sort     *)
(* one way as names and the other way as paths on Windows, which are         *)
(* compared without case, and a file that the candidate does not have.       *)
EXTENDS Promotion

MCPinned == [f \in Files |-> IF f = "notes.txt" THEN "absent" ELSE "pinned"]

MCForeign ==
  [f \in Files |-> IF f = "notes.txt" THEN {"edited"} ELSE {"edited", "absent"}]

Among(order) == SelectSeq(order, LAMBDA f : f \in Files)

ByName == Among(<<"AUTHORITY.md", "attestation_record.py", "notes.txt">>)

(* The committed SHA256SUMS.txt lists the first two in this order. *)
ByPath == Among(<<"attestation_record.py", "AUTHORITY.md", "notes.txt">>)

(* A run that passed, over this candidate, for the present roster or a       *)
(* former one, and whose attestation succeeded or not.                       *)
MCFormers ==
  {[record |-> [manifest |-> Pin, executionManifest |-> MCPinned,
                digests |-> MCPinned, exit |-> 0, artifact |-> TRUE,
                candidateUnchanged |-> TRUE, snapshotUnchanged |-> TRUE,
                roster |-> r],
    attested |-> a] : r \in {"current", "replaced"}, a \in BOOLEAN}
=============================================================================
