------------------------------ MODULE Execution ------------------------------
(* The observed execution of a candidate (run_external.py from the first     *)
(* manifest check on) and the workflow around it, up to the attestation.     *)
(*                                                                           *)
(* A file is known by its version; a digest stands for what it was taken of. *)
(* A file that is not there, or not listed, has the version Absent.          *)
(* An editor may change and restore the input directory at any time.         *)
EXTENDS Integers, Sequences

CONSTANTS
  Files,        \* of the candidate, SHA256SUMS.txt apart
  Versions,     \* that a file may have
  Absent,       \* the one of no file
  Pinned,       \* the version that the pinned SHA256SUMS.txt lists, per file
  SealOrder,    \* the order of the lines of SHA256SUMS.txt
  NameOrder,    \* the order of sorted() over the names
  Roster,       \* the authority roster this verifier was provisioned with
  Foreign,      \* the versions that an edit may give to a file, beside the pinned one
  MaxEdits,     \* bounds the editor
  None          \* nothing yet

Maps == [Files -> Versions]

Named(files) == {f \in Files : files[f] # Absent}

InOrder(order, files) == SelectSeq(order, LAMBDA f : f \in Named(files))

(* A checksum file, and with it its digest: the files it lists, in the order *)
(* of its lines, and the version it lists of each.                           *)
Listed(order, files) == <<InOrder(order, files), files>>

Pin == Listed(SealOrder, Pinned)

Records ==
  [manifest : {Pin}, executionManifest : Maps, digests : Maps, exit : {0, 1},
   artifact : BOOLEAN, candidateUnchanged : BOOLEAN, snapshotUnchanged : BOOLEAN,
   roster : {Roster}]

ExecutionAssumption ==
  /\ Absent \in Versions
  /\ Pinned \in Maps
  /\ Foreign \in [Files -> SUBSET Versions]
  /\ SealOrder \in Seq(Files)
  /\ NameOrder \in Seq(Files)
  /\ \A f \in Files : (\E i \in DOMAIN SealOrder : SealOrder[i] = f)
                   /\ (\E i \in DOMAIN NameOrder : NameOrder[i] = f)
  /\ MaxEdits \in Nat
  /\ None \notin Maps \cup Records
ASSUME ExecutionAssumption

VARIABLES
  tree, sums, executionManifest,   \* the input directory
  pc, look, todo,                  \* the run: where it is, in which look at the tree
  manifest,                        \* what load_manifest returned, before and after
  transport,                       \* the execution manifest as it was read
  snapshot, digests,               \* the private copy, and what was hashed of it
  record,                          \* external-run.json
  edits,
  ran,                             \* history: the bytes the suite was started from
  exit,                            \* history: how it ended
  stale                            \* history: files edited since the suite ended

input == <<tree, sums, executionManifest, edits>>
observed == <<manifest, transport, snapshot, digests>>
history == <<ran, exit, stale>>
executionVars == <<input, pc, look, todo, observed, record, history>>

ExecutionInit ==
  /\ tree = Pinned
  /\ sums = Pinned
  /\ executionManifest = Pinned
  /\ pc = "sums"
  /\ look = "before"
  /\ todo = {}
  /\ manifest = [l \in {"before", "after"} |-> None]
  /\ transport = None
  /\ snapshot = [f \in Files |-> Absent]
  /\ digests = None
  /\ record = None
  /\ edits = 0
  /\ ran = None
  /\ exit = None
  /\ stale = {}

-----------------------------------------------------------------------------
(* load_manifest, called before and after the suite.  The checksum file is   *)
(* read twice: once for its digest and once for its lines.                   *)

CheckSums ==
  /\ pc = "sums"
  /\ Listed(SealOrder, sums) = Pin
  /\ pc' = "parse"
  /\ UNCHANGED <<input, look, todo, observed, record, history>>

ParseSums ==
  /\ pc = "parse"
  /\ manifest' = [manifest EXCEPT ![look] = sums]
  /\ todo' = Files
  /\ pc' = "hash"
  /\ UNCHANGED <<input, look, transport, snapshot, digests, record, history>>

HashFile(f) ==
  /\ pc = "hash"
  /\ f \in todo
  /\ tree[f] = manifest[look][f]
  /\ todo' = todo \ {f}
  /\ UNCHANGED <<input, pc, look, observed, record, history>>

Hashed ==
  /\ pc = "hash"
  /\ todo = {}
  /\ pc' = IF look = "before" THEN "bind" ELSE "write"
  /\ UNCHANGED <<input, look, todo, observed, record, history>>

-----------------------------------------------------------------------------
(* The snapshot and the suite. *)

ReadTransport ==
  /\ pc = "bind"
  /\ transport' = executionManifest
  /\ todo' = Named(manifest["before"])
  /\ pc' = "copy"
  /\ UNCHANGED <<input, look, manifest, snapshot, digests, record, history>>

(* The execution manifest must list what the checksum file listed. *)
BindTransport == ReadTransport /\ executionManifest = manifest["before"]

(* One listed file through one open handle.  Bytes that were mixed while     *)
(* they were read have no version, so their digest is refused as any other.  *)
CopyFile(f) ==
  /\ pc = "copy"
  /\ f \in todo
  /\ tree[f] = manifest["before"][f]
  /\ snapshot' = [snapshot EXCEPT ![f] = tree[f]]
  /\ todo' = todo \ {f}
  /\ UNCHANGED <<input, pc, look, manifest, transport, digests, record, history>>

(* What was copied is hashed once more: a private directory that holds the   *)
(* listed files and no other.                                                *)
StartSuite ==
  /\ pc = "copy"
  /\ todo = {}
  /\ snapshot = manifest["before"]
  /\ digests' = snapshot
  /\ ran' = snapshot
  /\ pc' = "suite"
  /\ UNCHANGED <<input, look, todo, manifest, transport, snapshot, record, exit, stale>>

(* The listed files of the copy are what they were. *)
LeftAlone(left) == \A f \in Named(manifest["before"]) : left[f] = snapshot[f]

(* The suite ends; it may have written to its own copy, and have left its    *)
(* result file or not.  The listed files are hashed again; if one is gone    *)
(* that call raises (Fail).                                                  *)
EndSuite ==
  /\ pc = "suite"
  /\ \E code \in {0, 1}, artifact \in BOOLEAN, left \in Maps :
       /\ Named(manifest["before"]) \subseteq Named(left)
       /\ snapshot' = left
       /\ exit' = [code |-> code, artifact |-> artifact, intact |-> LeftAlone(left)]
  /\ stale' = {f \in Files : tree[f] # Pinned[f]}
  /\ pc' = "sums"
  /\ look' = "after"
  /\ UNCHANGED <<input, todo, manifest, transport, digests, record, ran>>

(* What the record says of the candidate and of the snapshot. *)
CandidateUnchanged == manifest["before"] = manifest["after"]
SnapshotUnchanged ==
  \A f \in Named(manifest["before"]) :
    digests[f] = snapshot[f] /\ snapshot[f] = manifest["before"][f]

(* run_external.py ends, by its last line or by an exception: it deletes the *)
(* snapshot, and what it has observed is gone with it.                       *)
Leave ==
  /\ snapshot' = [f \in Files |-> Absent]
  /\ manifest' = [l \in {"before", "after"} |-> None]
  /\ transport' = None
  /\ digests' = None

WriteRecord ==
  /\ pc = "write"
  /\ record' = [manifest |-> Pin,
                executionManifest |-> transport,
                digests |-> digests,
                exit |-> exit.code,
                artifact |-> exit.artifact,
                candidateUnchanged |-> CandidateUnchanged,
                snapshotUnchanged |-> SnapshotUnchanged,
                roster |-> Roster]
  /\ pc' = "construct"
  /\ Leave
  /\ UNCHANGED <<input, look, todo, history>>

-----------------------------------------------------------------------------
(* The workflow around the run. *)

(* Broken variant: the second look at the tree does not count. *)
PassedInSnapshot(r) == r.exit = 0 /\ r.snapshotUnchanged

RunPassed(r) == r.exit = 0 /\ r.candidateUnchanged /\ r.snapshotUnchanged

(* construct_record wants the exit status 0. *)
Construct ==
  /\ pc = "construct"
  /\ RunPassed(record)
  /\ pc' = "validate"
  /\ UNCHANGED <<input, look, todo, observed, record, history>>

(* Broken variant: the record's own digest of the checksum file is believed. *)
ValidInItself(r, files) ==
  /\ RunPassed(r)
  /\ r.artifact
  /\ r.digests = files
  /\ r.executionManifest = files

(* Broken variant: it is compared with the other manifest's digest. *)
ValidByTransport(r, files) ==
  /\ RunPassed(r)
  /\ r.artifact
  /\ r.digests = files
  /\ r.manifest = <<files>>
  /\ r.executionManifest = files

(* validate_record_and_files: the record speaks of a run that passed over    *)
(* exactly these files, and the checksum file, written anew in the order of  *)
(* the names, has the pinned digest.                                         *)
Valid(r, files) ==
  /\ RunPassed(r)
  /\ r.artifact
  /\ r.digests = files
  /\ r.manifest = Listed(NameOrder, files)
  /\ r.executionManifest = files

Validate ==
  /\ pc = "validate"
  /\ Valid(record, executionManifest)
  /\ pc' = "attest"
  /\ UNCHANGED <<input, look, todo, observed, record, history>>

(* The job is over.  Nobody looks at the input directory any more, and so    *)
(* the model forgets how it was edited and read.                             *)
Forget ==
  /\ tree' = Pinned
  /\ sums' = Pinned
  /\ executionManifest' = Pinned
  /\ edits' = 0
  /\ look' = "before"
  /\ todo' = {}
  /\ UNCHANGED <<record, history>>

Attest ==
  /\ pc = "attest"
  /\ pc' = "attested"
  /\ Forget
  /\ UNCHANGED observed

(* A comparison failed, a call raised or met its deadline: no step follows,  *)
(* and if run_external.py still ran it leaves.                               *)
Fail ==
  /\ pc \notin {"attested", "failed"}
  /\ pc' = "failed"
  /\ Leave
  /\ Forget

-----------------------------------------------------------------------------
(* The editor of the input directory: a file, or a line of either list. *)

Edit ==
  /\ pc \notin {"attested", "failed"}
  /\ edits < MaxEdits
  /\ edits' = edits + 1
  /\ \E f \in Files : \E v \in Foreign[f] \cup {Pinned[f]} :
       \/ /\ tree' = [tree EXCEPT ![f] = v]
          /\ stale' = IF v = Pinned[f] THEN stale \ {f} ELSE stale
          /\ UNCHANGED <<sums, executionManifest>>
       \/ /\ sums' = [sums EXCEPT ![f] = v]
          /\ UNCHANGED <<tree, executionManifest, stale>>
       \/ /\ executionManifest' = [executionManifest EXCEPT ![f] = v]
          /\ UNCHANGED <<tree, sums, stale>>
  /\ UNCHANGED <<pc, look, todo, observed, record, ran, exit>>

ExecutionNext ==
  \/ CheckSums \/ ParseSums \/ (\E f \in Files : HashFile(f)) \/ Hashed
  \/ BindTransport \/ (\E f \in Files : CopyFile(f)) \/ StartSuite \/ EndSuite
  \/ WriteRecord \/ Construct \/ Validate \/ Attest
  \/ Fail
  \/ Edit

ExecutionSpec == ExecutionInit /\ [][ExecutionNext]_executionVars

-----------------------------------------------------------------------------
ExecutionTypeOK ==
  /\ tree \in Maps /\ sums \in Maps /\ executionManifest \in Maps
  /\ pc \in {"sums", "parse", "hash", "bind", "copy", "suite", "write",
             "construct", "validate", "attest", "attested", "failed"}
  /\ look \in {"before", "after"}
  /\ todo \subseteq Files
  /\ manifest \in [{"before", "after"} -> Maps \cup {None}]
  /\ transport \in Maps \cup {None}
  /\ snapshot \in Maps
  /\ digests \in Maps \cup {None}
  /\ record \in Records \cup {None}
  /\ edits \in 0..MaxEdits
  /\ ran \in Maps \cup {None}
  /\ exit \in [code : {0, 1}, artifact : BOOLEAN, intact : BOOLEAN] \cup {None}
  /\ stale \subseteq Files

(* "A concurrent source-tree replacement can [not] choose the executed       *)
(* bytes" (run_external.py 6-9): whatever happens to the tree and to its     *)
(* checksum file, between their two reads too, the suite starts from pinned  *)
(* bytes if the execution manifest lists them.                               *)
TreeChoosesNoBytes == ran # None /\ transport = Pinned => ran = Pinned

(* An attestation stands for a passed run over pinned bytes whose listed     *)
(* files were left as they were in its copy, with any edit of any of the     *)
(* three inputs.                                                             *)
AttestedRanPinned ==
  pc = "attested" => ran = Pinned /\ exit.code = 0 /\ exit.intact

(* A file that was edited when the suite ended and never restored is seen.   *)
LastingEditSeen == pc = "attested" => stale = {}

(* A passed run over pinned bytes, that left its result file and whose       *)
(* manifest nobody edited, is not refused by the record's validation.        *)
GenuineRunValid ==
  pc = "validate" /\ executionManifest = Pinned /\ ran = Pinned /\ exit.artifact
    => Valid(record, executionManifest)
=============================================================================
