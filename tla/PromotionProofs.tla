--------------------------- MODULE PromotionProofs ---------------------------
(***************************************************************************)
(* Proofs about Execution and Promotion for any files, versions, number of *)
(* edits and replacements: types, and that bytes which were not pinned are *)
(* neither attested nor promoted.                                          *)
(***************************************************************************)
EXTENDS Promotion, TLAPS

Exits == [code : {0, 1}, artifact : BOOLEAN, intact : BOOLEAN]

(* A checksum file that has the pinned digest when it is written anew from  *)
(* a map lists that map.                                                    *)
LEMMA PinnedListing ==
  ASSUME NEW m \in Maps, Listed(NameOrder, m) = Pin
  PROVE  m = Pinned
  BY DEF Listed, Pin

-----------------------------------------------------------------------------
(* Types. *)

LEMMA ExecutionInitTyped == ExecutionInit => ExecutionTypeOK
  BY ExecutionAssumption DEF ExecutionAssumption, ExecutionInit, ExecutionTypeOK, Maps

(* What a job leaves when it ends. *)
LEMMA EndTyped ==
  ASSUME ExecutionTypeOK, Forget, UNCHANGED observed \/ Leave, pc' \in {"attested", "failed"}
  PROVE  ExecutionTypeOK'
<1> USE ExecutionAssumption DEF ExecutionAssumption
<1>1. /\ snapshot' \in Maps
      /\ manifest' \in [{"before", "after"} -> Maps \cup {None}]
      /\ transport' \in Maps \cup {None}
      /\ digests' \in Maps \cup {None}
  BY DEF ExecutionTypeOK, Leave, Maps, observed
<1>2. QED
  BY <1>1 DEF ExecutionTypeOK, Forget, history

(* The second look at the tree. *)
After == look = "after" /\ pc \in {"sums", "parse", "hash", "write"}

(* The values a record is made of, where it is written. *)
Observing ==
  /\ pc \in {"bind", "copy", "suite"} => look = "before"
  /\ pc \in {"write", "construct", "validate", "attest"} => look = "after"
  /\ pc = "hash" => manifest[look] \in Maps
  /\ pc \in {"bind", "copy", "suite"} => manifest["before"] \in Maps
  /\ pc \in {"copy", "suite"} => transport \in Maps
  /\ pc = "suite" => digests \in Maps
  /\ After => transport \in Maps /\ digests \in Maps
  /\ look = "after" => exit \in Exits
  /\ pc \in {"construct", "validate", "attest", "attested"} => record \in Records

LEMMA ExecutionInitObserving == ExecutionInit => Observing
  BY DEF ExecutionInit, Observing, After

ExecutionStep == ExecutionNext \/ UNCHANGED executionVars

LEMMA ExecutionTyped ==
  ASSUME ExecutionTypeOK, Observing, ExecutionStep
  PROVE  ExecutionTypeOK' /\ Observing'
<1> USE ExecutionAssumption DEF ExecutionAssumption, After
<1> DEFINE Goal == ExecutionTypeOK' /\ Observing'
<1>1. CASE CheckSums
  BY <1>1 DEF CheckSums, ExecutionTypeOK, Observing, input, observed, history
<1>2. CASE ParseSums
  BY <1>2 DEF ParseSums, ExecutionTypeOK, Observing, input, history
<1>3. ASSUME NEW f \in Files, HashFile(f) PROVE Goal
  BY <1>3 DEF HashFile, ExecutionTypeOK, Observing, input, observed, history
<1>4. CASE Hashed
  BY <1>4 DEF Hashed, ExecutionTypeOK, Observing, input, observed, history
<1>5. CASE BindTransport
  BY <1>5 DEF BindTransport, ReadTransport, ExecutionTypeOK, Observing, input, history, Named
<1>6. ASSUME NEW f \in Files, CopyFile(f) PROVE Goal
  BY <1>6 DEF CopyFile, ExecutionTypeOK, Observing, input, history, Maps
<1>7. CASE StartSuite
  BY <1>7 DEF StartSuite, ExecutionTypeOK, Observing, input
<1>8. CASE EndSuite
  <2>1. exit' \in Exits
    <3>1. \A left : LeftAlone(left) \in BOOLEAN
      BY DEF LeftAlone
    <3>2. QED
      BY <1>8, <3>1 DEF EndSuite, Exits
  <2>2. snapshot' \in Maps
    BY <1>8 DEF EndSuite
  <2>3. transport \in Maps /\ digests \in Maps
    BY <1>8 DEF EndSuite, Observing
  <2>4. stale' \subseteq Files
    BY <1>8 DEF EndSuite
  <2>5. ExecutionTypeOK'
    BY <1>8, <2>1, <2>2, <2>4 DEF EndSuite, ExecutionTypeOK, input, Exits, Maps
  <2>6. Observing'
    BY <1>8, <2>1, <2>3 DEF EndSuite, Observing, input
  <2>7. QED
    BY <2>5, <2>6
<1>9. CASE WriteRecord
  <2>1. /\ snapshot' \in Maps
        /\ manifest' \in [{"before", "after"} -> Maps \cup {None}]
        /\ transport' = None /\ digests' = None
    BY <1>9 DEF WriteRecord, Leave, Maps
  <2>2. record' \in Records
    BY <1>9 DEF WriteRecord, ExecutionTypeOK, Observing, Records, Exits,
                CandidateUnchanged, SnapshotUnchanged
  <2>3. /\ pc = "write" /\ pc' = "construct"
        /\ UNCHANGED <<input, look, todo, history>>
    BY <1>9 DEF WriteRecord
  <2>4. QED
    BY <2>1, <2>2, <2>3 DEF ExecutionTypeOK, Observing, input, history
<1>10. CASE Construct
  BY <1>10 DEF Construct, ExecutionTypeOK, Observing, input, observed, history
<1>11. CASE Validate
  BY <1>11 DEF Validate, ExecutionTypeOK, Observing, input, observed, history
<1>12. CASE Attest
  BY <1>12, EndTyped DEF Attest, Forget, Observing, history
<1>13. CASE Fail
  BY <1>13, EndTyped DEF Fail, Forget, Observing, history
<1>14. CASE Edit
  <2>1. tree' \in Maps /\ sums' \in Maps /\ executionManifest' \in Maps
    <3>1. \A m \in Maps, f \in Files, v \in Versions : [m EXCEPT ![f] = v] \in Maps
      BY DEF Maps
    <3>2. tree \in Maps /\ sums \in Maps /\ executionManifest \in Maps
      BY DEF ExecutionTypeOK
    <3>3. \A f \in Files : Foreign[f] \cup {Pinned[f]} \subseteq Versions
      <4>1. \A f \in Files : Pinned[f] \in Versions
        BY DEF Maps
      <4>2. \A f \in Files : Foreign[f] \in SUBSET Versions
        OBVIOUS
      <4>3. QED
        BY <4>1, <4>2
    <3>4. QED
      BY <1>14, <3>1, <3>2, <3>3 DEF Edit
  <2>2. stale' \subseteq Files
    BY <1>14 DEF Edit, ExecutionTypeOK
  <2>3. edits' \in 0..MaxEdits
    BY <1>14 DEF Edit, ExecutionTypeOK
  <2>4. UNCHANGED <<pc, look, todo, observed, record, ran, exit>>
    BY <1>14 DEF Edit
  <2>5. QED
    BY <2>1, <2>2, <2>3, <2>4 DEF ExecutionTypeOK, Observing, observed
<1>15. CASE UNCHANGED executionVars
  BY <1>15 DEF executionVars, ExecutionTypeOK, Observing, input, observed, history
<1>16. QED
  BY <1>1, <1>2, <1>3, <1>4, <1>5, <1>6, <1>7, <1>8, <1>9, <1>10, <1>11,
     <1>12, <1>13, <1>14, <1>15 DEF ExecutionStep, ExecutionNext

-----------------------------------------------------------------------------
(* The argument.  transport and digests are copies of the first manifest,   *)
(* and ran is too: what the execution manifest lists is what is executed.   *)

BytesFollowManifest ==
  /\ look = "before" /\ pc \in {"sums", "parse", "hash", "bind"} =>
       transport = None /\ ran = None
  /\ pc = "copy" => ran = None
  /\ pc \in {"copy", "suite"} \/ After => transport = manifest["before"]
  /\ pc = "suite" \/ After => ran = transport /\ digests = ran
  /\ pc = "suite" => snapshot = ran
  /\ After => (exit.intact <=> \A f \in Named(ran) : snapshot[f] = ran[f])
  /\ pc \in {"construct", "validate", "attest", "attested", "failed"} => transport = None

(* A file that is still stale is still edited, so the second look has not   *)
(* found its pinned version.                                                *)
StaleUnseen ==
  /\ pc \notin {"attested", "failed"} => \A f \in stale : tree[f] # Pinned[f]
  /\ look = "after" /\ pc = "hash" =>
       \A f \in stale : f \in todo \/ manifest["after"][f] # Pinned[f]
  /\ pc = "write" => \A f \in stale : manifest["after"][f] # Pinned[f]

(* What a record says is so, and stays so. *)
RecordHonest ==
  record # None =>
    /\ pc \in {"construct", "validate", "attest", "attested", "failed"}
    /\ ran \in Maps
    /\ record.digests = ran
    /\ record.executionManifest = ran
    /\ record.exit = exit.code
    /\ record.artifact = exit.artifact
    /\ record.snapshotUnchanged => exit.intact
    /\ record.candidateUnchanged /\ ran = Pinned => stale = {}

PassedOnly ==
  /\ pc \in {"validate", "attest", "attested"} => RunPassed(record)
  /\ pc \in {"attest", "attested"} => ran = Pinned

ExecutionInv ==
  /\ ExecutionTypeOK
  /\ Observing
  /\ BytesFollowManifest
  /\ StaleUnseen
  /\ RecordHonest
  /\ PassedOnly

LEMMA ExecutionInitInv == ExecutionInit => ExecutionInv
  BY ExecutionInitTyped, ExecutionInitObserving
     DEF ExecutionInit, ExecutionInv, BytesFollowManifest, StaleUnseen,
         RecordHonest, PassedOnly, After

(* A record that is valid for some files is that of a passed run over       *)
(* pinned bytes.                                                            *)
LEMMA ValidMeansPinned ==
  ASSUME ExecutionInv, record # None, NEW m \in Maps, Valid(record, m)
  PROVE  RunPassed(record) /\ ran = Pinned
<1>1. record.manifest = Pin
  BY DEF ExecutionInv, ExecutionTypeOK, Records
<1>2. m = Pinned
  BY <1>1, PinnedListing DEF Valid
<1>3. QED
  BY <1>2 DEF Valid, ExecutionInv, RecordHonest

LEMMA NextBytes ==
  ASSUME ExecutionInv, ExecutionStep
  PROVE  BytesFollowManifest'
<1> USE ExecutionAssumption DEF ExecutionAssumption, ExecutionInv,
      ExecutionTypeOK, Observing, BytesFollowManifest, After
<1>1. CASE CheckSums
  BY <1>1 DEF CheckSums, input, observed, history
<1>2. CASE ParseSums
  BY <1>2 DEF ParseSums, input, history
<1>3. ASSUME NEW f \in Files, HashFile(f) PROVE BytesFollowManifest'
  BY <1>3 DEF HashFile, input, observed, history
<1>4. CASE Hashed
  BY <1>4 DEF Hashed, input, observed, history
<1>5. CASE BindTransport
  BY <1>5 DEF BindTransport, ReadTransport, input, history
<1>6. ASSUME NEW f \in Files, CopyFile(f) PROVE BytesFollowManifest'
  BY <1>6 DEF CopyFile, input, history
<1>7. CASE StartSuite
  BY <1>7 DEF StartSuite, input
<1>8. CASE EndSuite
  <2>1. pc = "suite" /\ snapshot = ran
    BY <1>8 DEF EndSuite
  <2>2. exit'.intact <=> \A f \in Named(ran) : snapshot'[f] = ran[f]
    <3>1. PICK code \in {0, 1}, artifact \in BOOLEAN, left \in Maps :
            /\ snapshot' = left
            /\ exit' = [code |-> code, artifact |-> artifact, intact |-> LeftAlone(left)]
      BY <1>8, Zenon DEF EndSuite
    <3>2. exit'.intact = LeftAlone(left)
      BY <3>1, Zenon
    <3>3. manifest["before"] = ran
      BY <2>1
    <3>4. QED
      BY <2>1, <3>1, <3>2, <3>3 DEF LeftAlone
  <2>3. /\ pc' = "sums" /\ look' = "after"
        /\ UNCHANGED <<manifest, transport, digests, ran>>
    BY <1>8 DEF EndSuite
  <2>4. QED
    BY <2>1, <2>2, <2>3
<1>9. CASE WriteRecord
  BY <1>9 DEF WriteRecord, Leave, input, history
<1>10. CASE Construct
  BY <1>10 DEF Construct, input, observed, history
<1>11. CASE Validate
  BY <1>11 DEF Validate, input, observed, history
<1>12. CASE Attest
  BY <1>12 DEF Attest, Forget, observed, history
<1>13. CASE Fail
  BY <1>13 DEF Fail, Leave, Forget, history
<1>14. CASE Edit
  BY <1>14 DEF Edit, observed
<1>15. CASE UNCHANGED executionVars
  BY <1>15 DEF executionVars, input, observed, history
<1>16. QED
  BY <1>1, <1>2, <1>3, <1>4, <1>5, <1>6, <1>7, <1>8, <1>9, <1>10, <1>11,
     <1>12, <1>13, <1>14, <1>15 DEF ExecutionStep, ExecutionNext

LEMMA NextStale ==
  ASSUME ExecutionInv, ExecutionStep
  PROVE  StaleUnseen'
<1> USE ExecutionAssumption DEF ExecutionAssumption, ExecutionInv,
      ExecutionTypeOK, Observing, StaleUnseen
<1>1. CASE CheckSums
  BY <1>1 DEF CheckSums, input, observed, history
<1>2. CASE ParseSums
  BY <1>2 DEF ParseSums, input, history
<1>3. ASSUME NEW f \in Files, HashFile(f) PROVE StaleUnseen'
  BY <1>3 DEF HashFile, input, observed, history
<1>4. CASE Hashed
  BY <1>4 DEF Hashed, input, observed, history
<1>5. CASE BindTransport
  BY <1>5 DEF BindTransport, ReadTransport, input, history
<1>6. ASSUME NEW f \in Files, CopyFile(f) PROVE StaleUnseen'
  BY <1>6 DEF CopyFile, input, history
<1>7. CASE StartSuite
  BY <1>7 DEF StartSuite, input
<1>8. CASE EndSuite
  BY <1>8 DEF EndSuite, input
<1>9. CASE WriteRecord
  BY <1>9 DEF WriteRecord, input, history
<1>10. CASE Construct
  BY <1>10 DEF Construct, input, observed, history
<1>11. CASE Validate
  BY <1>11 DEF Validate, input, observed, history
<1>12. CASE Attest
  BY <1>12 DEF Attest, Forget, history
<1>13. CASE Fail
  BY <1>13 DEF Fail, Forget, history
<1>14. CASE Edit
  <2>1. stale' \subseteq stale /\ UNCHANGED <<pc, look, todo, manifest>>
    BY <1>14 DEF Edit, observed
  <2>2. pc \notin {"attested", "failed"} /\ (\A f \in stale' : tree'[f] # Pinned[f])
    BY <1>14 DEF Edit, Maps
  <2>3. QED
    BY <2>1, <2>2
<1>15. CASE UNCHANGED executionVars
  BY <1>15 DEF executionVars, input, observed, history
<1>16. QED
  BY <1>1, <1>2, <1>3, <1>4, <1>5, <1>6, <1>7, <1>8, <1>9, <1>10, <1>11,
     <1>12, <1>13, <1>14, <1>15 DEF ExecutionStep, ExecutionNext

LEMMA NextHonest ==
  ASSUME ExecutionInv, ExecutionStep
  PROVE  RecordHonest'
<1> USE ExecutionAssumption DEF ExecutionAssumption, ExecutionInv,
      ExecutionTypeOK, Observing, RecordHonest
<1>1. ASSUME UNCHANGED <<record, history>>,
             pc' \in {"construct", "validate", "attest", "attested", "failed"} \/ record = None
      PROVE  RecordHonest'
  BY <1>1 DEF history
<1>2. ASSUME pc \notin {"construct", "validate", "attest", "attested", "failed"}
      PROVE  record = None
  BY <1>2
<1>3. CASE CheckSums \/ ParseSums \/ Hashed \/ BindTransport
  BY <1>1, <1>2, <1>3 DEF CheckSums, ParseSums, Hashed, BindTransport, ReadTransport
<1>4. ASSUME NEW f \in Files, HashFile(f) \/ CopyFile(f) PROVE RecordHonest'
  BY <1>1, <1>2, <1>4 DEF HashFile, CopyFile
<1>5. CASE StartSuite \/ EndSuite
  BY <1>2, <1>5 DEF StartSuite, EndSuite
<1>6. CASE WriteRecord
  <2>1. /\ look = "after" /\ ran = transport /\ digests = ran
        /\ transport = manifest["before"] /\ ran \in Maps
        /\ exit.intact <=> \A f \in Named(ran) : snapshot[f] = ran[f]
    BY <1>6 DEF WriteRecord, BytesFollowManifest, After
  <2>2. /\ record'.digests = ran /\ record'.executionManifest = ran
        /\ record'.exit = exit.code /\ record'.artifact = exit.artifact
        /\ record'.snapshotUnchanged = SnapshotUnchanged
        /\ record'.candidateUnchanged = CandidateUnchanged
        /\ pc' = "construct"
        /\ UNCHANGED <<ran, exit, stale>>
    BY <1>6, <2>1 DEF WriteRecord, history
  <2>3. SnapshotUnchanged => exit.intact
    BY <2>1 DEF SnapshotUnchanged
  <2>4. CandidateUnchanged /\ ran = Pinned => stale = {}
    BY <1>6, <2>1 DEF CandidateUnchanged, StaleUnseen, WriteRecord
  <2>5. QED
    BY <2>1, <2>2, <2>3, <2>4
<1>7. CASE Construct \/ Validate
  BY <1>1, <1>7 DEF Construct, Validate
<1>8. CASE Attest \/ Fail
  BY <1>1, <1>8 DEF Attest, Fail, Forget
<1>9. CASE Edit
  <2>1. stale' \subseteq stale /\ UNCHANGED <<pc, record, ran, exit>>
    BY <1>9 DEF Edit
  <2>2. QED
    BY <2>1
<1>10. CASE UNCHANGED executionVars
  BY <1>10 DEF executionVars, history
<1>11. QED
  BY <1>3, <1>4, <1>5, <1>6, <1>7, <1>8, <1>9, <1>10
     DEF ExecutionStep, ExecutionNext

LEMMA NextPassed ==
  ASSUME ExecutionInv, ExecutionStep
  PROVE  PassedOnly'
<1> USE DEF PassedOnly
<1>1. CASE \/ CheckSums \/ ParseSums \/ Hashed \/ BindTransport
           \/ StartSuite \/ EndSuite \/ WriteRecord \/ Fail
           \/ \E f \in Files : HashFile(f) \/ CopyFile(f)
  <2>1. pc' \notin {"validate", "attest", "attested"}
    BY <1>1 DEF CheckSums, ParseSums, Hashed, BindTransport, ReadTransport,
                StartSuite, EndSuite, WriteRecord, Fail, HashFile, CopyFile
  <2>2. QED
    BY <2>1
<1>2. CASE Construct
  BY <1>2 DEF Construct
<1>3. CASE Validate
  <2>1. record # None /\ executionManifest \in Maps
    BY <1>3, ExecutionAssumption
       DEF ExecutionAssumption, Validate, ExecutionInv, ExecutionTypeOK, Observing
  <2>2. ran = Pinned
    BY <1>3, <2>1, ValidMeansPinned DEF Validate
  <2>3. QED
    BY <1>3, <2>2 DEF Validate, ExecutionInv, history
<1>4. CASE Attest
  BY <1>4 DEF Attest, Forget, history, ExecutionInv
<1>5. CASE Edit \/ UNCHANGED executionVars
  <2>1. UNCHANGED <<pc, record, ran>>
    BY <1>5 DEF Edit, executionVars, history
  <2>2. QED
    BY <2>1 DEF ExecutionInv, RunPassed
<1>6. QED
  BY <1>1, <1>2, <1>3, <1>4, <1>5 DEF ExecutionStep, ExecutionNext

LEMMA NextExecution ==
  ASSUME ExecutionInv, ExecutionStep
  PROVE  ExecutionInv'
<1>1. ExecutionTypeOK' /\ Observing'
  BY ExecutionTyped DEF ExecutionInv
<1>2. QED
  BY <1>1, NextBytes, NextStale, NextHonest, NextPassed DEF ExecutionInv

-----------------------------------------------------------------------------
(* The gate. *)

GateTyped ==
  /\ former \in Formers
  /\ shelf \in [Parts -> Runs]
  /\ gate \in {"idle", "manifest", "record", "evidence", "bundle", "rosters",
               "granted", "refused"}
  /\ files \in Maps \cup {None}
  /\ gate = "record" => files \in Maps
  /\ validated \in Runs \cup {None}
  /\ signed \in Runs \cup {None}
  /\ expired \in BOOLEAN
  /\ swaps \in 0..MaxSwaps
  /\ gate # "idle" => pc \in {"attested", "failed"}

(* Either of the two runs that a grant speaks of has passed over pinned     *)
(* bytes, if it is this run; without a replacement the two are one.         *)
GateSound ==
  /\ gate \in {"evidence", "bundle", "rosters", "granted"} =>
       /\ validated = "this" => record # None /\ RunPassed(record) /\ ran = Pinned
       /\ swaps = 0 => validated = shelf["record"]
  /\ gate \in {"rosters", "granted"} =>
       /\ signed = "this" => pc = "attested"
       /\ swaps = 0 => signed = shelf["record"] /\ Attested(signed)

Inv == ExecutionInv /\ GateTyped /\ GateSound

LEMMA InitInv == Init => Inv
<1> SUFFICES ASSUME Init PROVE Inv
  OBVIOUS
<1>1. ExecutionInv
  BY ExecutionInitInv DEF Init
<1>2. GateTyped
  <2>1. expired \in BOOLEAN
    BY DEF Init
  <2>2. shelf \in [Parts -> Runs] /\ swaps \in 0..MaxSwaps
    BY PromotionAssumption DEF PromotionAssumption, Init, Runs
  <2>3. QED
    BY <2>1, <2>2 DEF Init, GateTyped
<1>3. GateSound
  BY DEF Init, GateSound
<1>4. QED
  BY <1>1, <1>2, <1>3 DEF Inv

LEMMA NextGateTyped ==
  ASSUME Inv, GateNext
  PROVE  GateTyped'
<1> USE PromotionAssumption DEF PromotionAssumption, Inv, GateTyped, outside
<1>1. UNCHANGED pc
  BY DEF GateNext, VerifyRoster, LoadManifest, LoadRecord, ReadRecord,
         CheckEvidence, VerifyBundle, CompareRosters, Refuse, Expire, Swap,
         executionVars
<1>2. CASE VerifyRoster
  BY <1>1, <1>2 DEF VerifyRoster
<1>3. CASE LoadManifest
  <2>1. ManifestOf(shelf["manifest"]) \in Maps
    BY ExecutionAssumption DEF ExecutionAssumption, ManifestOf
  <2>2. QED
    BY <1>1, <1>3, <2>1 DEF LoadManifest
<1>4. CASE LoadRecord
  BY <1>1, <1>4 DEF LoadRecord, ReadRecord, Parts
<1>5. CASE CheckEvidence
  BY <1>1, <1>5 DEF CheckEvidence
<1>6. CASE VerifyBundle
  BY <1>1, <1>6 DEF VerifyBundle, Parts
<1>7. CASE CompareRosters
  BY <1>1, <1>7 DEF CompareRosters
<1>8. CASE Refuse
  BY <1>1, <1>8 DEF Refuse
<1>9. CASE Expire
  BY <1>1, <1>9 DEF Expire
<1>10. ASSUME NEW p \in Parts, Swap(p) PROVE GateTyped'
  BY <1>1, <1>10 DEF Swap, Runs
<1>11. QED
  BY <1>2, <1>3, <1>4, <1>5, <1>6, <1>7, <1>8, <1>9, <1>10 DEF GateNext

LEMMA NextGateSound ==
  ASSUME Inv, GateNext
  PROVE  GateSound'
<1> USE DEF Inv, GateSound
<1>1. UNCHANGED <<pc, record, ran, former>>
  BY DEF GateNext, VerifyRoster, LoadManifest, LoadRecord, ReadRecord,
         CheckEvidence, VerifyBundle, CompareRosters, Refuse, Expire, Swap,
         executionVars, history, outside
<1>2. RunPassed(record)' = RunPassed(record)
  BY <1>1 DEF RunPassed
<1>3. \A r : Attested(r)' = Attested(r)
  BY <1>1 DEF Attested
<1>4. CASE VerifyRoster \/ LoadManifest \/ Refuse
  BY <1>4 DEF VerifyRoster, LoadManifest, Refuse
<1>5. CASE LoadRecord
  <2>1. /\ gate = "record" /\ gate' = "evidence"
        /\ validated' = shelf["record"] /\ shelf' = shelf
    BY <1>5 DEF LoadRecord, ReadRecord
  <2>2. ASSUME shelf["record"] = "this"
        PROVE  record # None /\ RunPassed(record) /\ ran = Pinned
    <3>1. record # None /\ Valid(record, files) /\ files \in Maps
      BY <1>5, <2>1, <2>2 DEF LoadRecord, ReadRecord, RecordOf, GateTyped
    <3>2. QED
      BY <3>1, ValidMeansPinned
  <2>3. QED
    BY <1>1, <1>2, <2>1, <2>2
<1>6. CASE CheckEvidence \/ CompareRosters \/ Expire
  BY <1>1, <1>2, <1>3, <1>6 DEF CheckEvidence, CompareRosters, Expire, outside
<1>7. CASE VerifyBundle
  <2>1. Attested(shelf["record"]) /\ (shelf["record"] = "this" => pc = "attested")
    BY <1>7 DEF VerifyBundle, Attested
  <2>2. QED
    BY <1>1, <1>2, <1>3, <1>7, <2>1 DEF VerifyBundle, outside
<1>8. ASSUME NEW p \in Parts, Swap(p) PROVE GateSound'
  <2>1. swaps' # 0
    BY <1>8, PromotionAssumption DEF Swap, GateTyped, PromotionAssumption
  <2>2. QED
    BY <1>1, <1>2, <1>8, <2>1 DEF Swap
<1>9. QED
  BY <1>4, <1>5, <1>6, <1>7, <1>8 DEF GateNext

(* Once the gate runs, the job is over and takes no step. *)
LEMMA GateAfterJob ==
  ASSUME Inv, ExecutionNext
  PROVE  gate = "idle"
<1>1. pc \notin {"attested", "failed"}
  BY DEF ExecutionNext, CheckSums, ParseSums, HashFile, Hashed, BindTransport,
         ReadTransport, CopyFile, StartSuite, EndSuite, WriteRecord, Construct,
         Validate, Attest, Fail, Edit
<1>2. QED
  BY <1>1 DEF Inv, GateTyped

LEMMA NextInv == Inv /\ [Next]_vars => Inv'
<1> SUFFICES ASSUME Inv, [Next]_vars PROVE Inv'
  OBVIOUS
<1>1. CASE ExecutionNext /\ UNCHANGED gateVars
  <2>1. ExecutionInv'
    BY <1>1, NextExecution DEF ExecutionStep, Inv
  <2>2. gate = "idle" /\ gate' = "idle"
    BY <1>1, GateAfterJob DEF gateVars
  <2>3. GateTyped' /\ GateSound'
    BY <1>1, <2>2 DEF gateVars, outside, Inv, GateTyped, GateSound
  <2>4. QED
    BY <2>1, <2>3 DEF Inv
<1>2. CASE GateNext
  <2>1. UNCHANGED executionVars
    BY <1>2 DEF GateNext, VerifyRoster, LoadManifest, LoadRecord, ReadRecord,
         CheckEvidence, VerifyBundle, CompareRosters, Refuse, Expire, Swap
  <2>2. ExecutionInv'
    BY <2>1, NextExecution DEF ExecutionStep, Inv
  <2>3. QED
    BY <1>2, <2>2, NextGateTyped, NextGateSound DEF Inv
<1>3. CASE UNCHANGED vars
  <2>1. UNCHANGED executionVars /\ UNCHANGED gateVars
    BY <1>3 DEF vars
  <2>2. ExecutionInv'
    BY <2>1, NextExecution DEF ExecutionStep, Inv
  <2>3. UNCHANGED <<pc, record, ran>>
    BY <2>1 DEF executionVars, history
  <2>4. GateTyped' /\ GateSound'
    BY <2>1, <2>3 DEF gateVars, outside, Inv, GateTyped, GateSound, Attested, RunPassed
  <2>5. QED
    BY <2>2, <2>4 DEF Inv
<1>4. QED
  BY <1>1, <1>2, <1>3 DEF Next

LEMMA InvAlways == Spec => []Inv
  BY InitInv, NextInv, PTL DEF Spec

-----------------------------------------------------------------------------
(* TypeOK: every variable of a run, of its workflow and of the gate keeps   *)
(* its type (run_external.py, promotion_gate.py).                           *)
THEOREM TypeCorrect == Spec => []TypeOK
<1>1. Inv => TypeOK
  BY DEF Inv, ExecutionInv, GateTyped, TypeOK
<1>2. QED
  BY <1>1, InvAlways, PTL

(* TreeChoosesNoBytes: no edit of the source tree or of its checksum file,  *)
(* whenever it happens, chooses the bytes copy_verified_snapshot hands to   *)
(* the suite.                                                               *)
THEOREM OnlyManifestChoosesBytes == Spec => []TreeChoosesNoBytes
<1>1. Inv => TreeChoosesNoBytes
  BY ExecutionAssumption
     DEF ExecutionAssumption, Inv, ExecutionInv, ExecutionTypeOK,
         Observing, BytesFollowManifest, After, TreeChoosesNoBytes
<1>2. QED
  BY <1>1, InvAlways, PTL

(* AttestedRanPinned: what the workflow attests is a passed run over pinned *)
(* bytes that left the listed files of its copy as they were, whatever was  *)
(* edited.                                                                  *)
THEOREM AttestationSound == Spec => []AttestedRanPinned
<1>1. Inv => AttestedRanPinned
  BY ExecutionAssumption
     DEF ExecutionAssumption, Inv, ExecutionInv, Observing, RecordHonest,
         PassedOnly, RunPassed, AttestedRanPinned
<1>2. QED
  BY <1>1, InvAlways, PTL

(* LastingEditSeen: no run is attested when a file that was edited by the   *)
(* end of the suite stays so (the second load_manifest).                    *)
THEOREM SecondLookSees == Spec => []LastingEditSeen
<1>1. Inv => LastingEditSeen
  BY ExecutionAssumption
     DEF ExecutionAssumption, Inv, ExecutionInv, Observing, RecordHonest,
         PassedOnly, RunPassed, LastingEditSeen
<1>2. QED
  BY <1>1, InvAlways, PTL

(* GrantedRanPinned: the gate grants only passed runs over pinned bytes,    *)
(* though it reads the record twice and anything may be replaced meanwhile. *)
THEOREM PromotionSound == Spec => []GrantedRanPinned
<1>1. Inv => GrantedRanPinned
  BY ExecutionAssumption
     DEF ExecutionAssumption, Inv, ExecutionInv, Observing, RecordHonest,
         PassedOnly, RunPassed, GateSound, GrantedRanPinned
<1>2. QED
  BY <1>1, InvAlways, PTL

(* GrantedIsAttested: if nothing is replaced during its call, the gate      *)
(* grants the record that it validated and that cosign verified.            *)
THEOREM OneRecordGranted == Spec => []GrantedIsAttested
<1>1. Inv => GrantedIsAttested
  BY DEF Inv, GateSound, GrantedIsAttested
<1>2. QED
  BY <1>1, InvAlways, PTL

(* GenuineRunValid: if SHA256SUMS.txt is in the order of the names, no      *)
(* genuine run is refused by validate_record_and_files.                     *)
THEOREM GenuineAccepted ==
  ASSUME SealOrder = NameOrder PROVE Spec => []GenuineRunValid
<1>1. Inv => GenuineRunValid
  BY ExecutionAssumption
     DEF ExecutionAssumption, Inv, ExecutionInv, Observing, Records,
         RecordHonest, PassedOnly, GenuineRunValid, Valid, Pin
<1>2. QED
  BY <1>1, InvAlways, PTL
=============================================================================
