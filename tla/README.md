# Specifications of the result-attestation authority

TLA+ models, TLC runs and TLAPS proofs for the candidate "PGK-FAILCLOSED-001
v35": the code that consumes a one-time release authorization at an external
nonce ledger, advances monotonic checkpoints, executes a verified snapshot,
records what it observed, and decides on promotion. Paths and line numbers are
those of the repository's `src/`.

## 1. Inventory of the system

| Part | Source | State it keeps | Operations |
|---|---|---|---|
| rollback protocol | `rollback_protocol.py` | an anchor head, one head per checkpoint store | `Gate.current`, `commit`, `recover`; `Store.cas`, `recover_to_anchor`; `Anchor.cas` |
| release run | `run_external.py` | one process: authorization, request, receipt, checkpoint, snapshot directory, evidence directory | `main`: verify, consume, read checkpoint, verify receipt, commit, snapshot, execute, record |
| nonce ledger client | `nonce_ledger.py` | none; the ledger's append-only log is remote | `build_request`, `consume_once_https`, `verify_consumption_receipt`, Merkle proof verification |
| checkpoint quorum client | `checkpoint_quorum.py` | none; each service's head is remote | `read_current`, `commit` |
| checkpoint monitor | `checkpoint_monitor.py` | `current.json`, `advance.lock` | `current`, `advance` |
| replay store | `state_store.py` | `consumed/<token>.json` | `verify`, `consume_atomic` |
| scheduling kernel | `kernel.py` | four child slots; the replay store | `decide`, `consume_once`, blind replay children, clock and validator attestation, statistics |
| trusted clock | `trusted_clock.py` | none | `authoritative_utc_now` |
| threshold authorization | `authority_bundle.py` | none | `verify_threshold_authorization` |
| TUF roster | `tuf_roster.py` | none | `verify_roster` |
| record, attestation, promotion | `attestation_record.py`, `result_attestation.py`, `promotion_gate.py` | none; files read several times | `validate_record`, `verify`, `promotion_decision` |
| immutable inputs | `build_immutable_inputs.py`, `safe_extract_tar.py`, `seal_candidate.py` | archives | build, seal, bounded extraction |
| authority workflow | `github_authority/*.py`, `.github/workflows/attest.yml` | none | construct, run, validate |

How they interact. A release run calls the ledger client and the quorum client;
the two remote parties share nothing but the tree heads the run carries from
one to the other. The monitor and the rollback protocol are two further answers
to the same question, where the last accepted head is kept: in one local file
under a lock, and in several stores under an anchor. The kernel's decisions meet
only in the replay store. The promotion gate reads what a release run recorded.

The behaviours that are hard, part by part, and what makes each correct:

* **rollback protocol**: gates interleave at every access to a store or the
  anchor, die between two of them, and meet stores that were rolled back.
  Correct: accepted heads never fork; stores follow the anchor and never lead
  it; no late write of a gate moves a store backwards; the gates look like one
  linear head; a wedge can be repaired.
* **release run, ledger, quorum**: lost answers, requests handled late,
  receipts replayed, racing runs, a ledger restored from a backup, a commit that
  reached some services only. Correct: a nonce releases one run; a release
  stays on record; a partial commit closes the gate and nothing reopens it by
  accident; every run ends.
* **monitor**: racing verifiers, processes that die with the lock, power loss
  between write, rename and sync. Correct: sibling receipts are not both
  accepted; the file can be read; an accepted head is not forgotten.
* **replay store**: racing kernels, power loss around the creation of a record.
  Correct: one ALLOW for a nonce, and its record is durable.
* **kernel decide and blind replay**: two attestations, two clock observations,
  two snapshots, child slots and deadlines, drift of code and files meanwhile.
  Correct: nothing that changed between two looks is allowed; no blind case is
  skipped; slots are given back; every decision ends.
* **promotion**: one record read by two checkers, files that may be a former
  run's, expiry checked before a two-minute subprocess. Correct: what was granted
  is a passed run over pinned bytes, and what was validated is what was signed.
* **Merkle proofs**: index arithmetic at the right edge of trees of every shape.
  Correct: exactly the proofs of RFC 6962 are accepted.
* **execution of the candidate**: a tree, a checksum file and an execution
  manifest that change while they are read, hashed, copied and read again by
  another process. Correct: only pinned bytes are attested; an edit that lasts is
  seen; a genuine run is not refused.
* **statistics**: percentiles at the ends of a sample, ranks that are whole
  numbers, negative improvements rounded down. Correct: a percentile is the
  nearest rank; the bootstrap interval lies within what the pairs have shown.
* **trusted clock**: certificates that come with a token, matched by name and
  checked by key. Correct: the pinned root vouches for the signer; the climb ends
  also where certificates issue each other.
* **threshold authorization**: a roster that may name one key or one person
  twice, files supplied by anybody. Correct: two custodians or more, independent
  of one another, have all signed this release.
* **dates of the evidence**: a window, results and gate evidence, each compared
  with a part of the others only. Correct: nothing stale is allowed.
* **archives**: a candidate that is edited while it is hashed and packed, an
  extraction that dies and is called again. Correct: what is unpacked is the
  archive, and an undisturbed build is the reviewed candidate.

`PROJECT.json` lists every part, every hazard with its line, and the properties
that cover it.

## 2. Modules

| Module | Models | Proofs |
|---|---|---|
| `LinearHead` | abstract: one head that only moves to a successor, and reports that return it | |
| `RollbackProtocol` | `rollback_protocol.py` | `RollbackProtocolProofs` |
| `ReleaseRun` | `run_external.main` with `nonce_ledger.py` and `checkpoint_quorum.py` | `ReleaseRunProofs` |
| `CheckpointMonitor` | `checkpoint_monitor.py` | `CheckpointMonitorProofs` |
| `NonceStore` | `kernel.consume_once` with `state_store.py` | `NonceStoreProofs` |
| `Execution` | `run_external.py` from the manifest on, `seal_candidate.py`, the steps of `attest.yml` and `github_authority/` | `PromotionProofs` |
| `Promotion` | extends `Execution`: `promotion_gate.py` with `result_attestation.py`, `attestation_record.py`, `tuf_roster.py` | `PromotionProofs` |
| `Decision` | `kernel.decide`, `execute_blind_replay` and the child they start | `DecisionProofs` |
| `MerkleTree` | reference: the tree of RFC 6962, its audit paths and consistency proofs | |
| `InclusionProof` | `nonce_ledger.verify_inclusion_proof` | `MerkleProofs` |
| `ConsistencyProof` | `nonce_ledger.verify_consistency_proof` | `MerkleProofs` |
| `Benchmark` | the benchmark of `kernel.validate_evidence` | `ChecksProofs` |
| `CertificateChain` | `trusted_clock._validate_chain` | `ChecksProofs` |
| `Authorization` | `authority_bundle.verify_threshold_authorization` | `ChecksProofs` |
| `EvidenceWindow` | every comparison of dates in `kernel.decide` and `validate_evidence` | `ChecksProofs` |
| `InputArchive` | `build_immutable_inputs.build_candidate`, `safe_extract_tar.safe_extract` | `ChecksProofs` |

Each `MC...` module instantiates one of them for TLC; each `.cfg` is one run.
`MCSequentialChecks` instantiates seven, the two proof verifiers and the last
five of the table, which share no state: in each of its behaviours one of them
runs and the others have returned, so its state space is the sum of theirs.
The operators marked "Broken variant" are slips that a programmer could make in
that place (a dropped guard, a missing sync, a loop one too short); no behaviour
uses them. Each shows, put in the place of the operator below it, that a
property can fail.

### RollbackProtocol

`anchor` is `Anchor._head`, `store[s]` the head of the s-th `Store`. `pc`,
`before`, `after`, `next` and `view` are a gate's call and its locals:

| `pc` | code |
|---|---|
| `current` | the loop of `current()` (80-85) |
| `check` | `current()` inside `commit`, line 89 |
| `advance` | `anchor.cas`, line 91 |
| `fanout` | `store.cas`, lines 94-97 |
| `confirm` | the final `current()`, line 98 |
| `repair` | `recover_to_anchor`, lines 103-104, the anchor read at 102 in `after` |

The classes are written for separate services, so one access to one of them is
one step. `Leave` is every way a call ends; it forgets the locals. `Crash`
stands for the simulated crashes of lines 92-97 and for a death at any other
step. `Replace` is the "rollbackable" store: it shows an earlier anchored head,
or a head of `Forgeries`. `anchored` and `reported` are history.

`MaxFaults` bounds crashes plus replacements.

### ReleaseRun

A tree head is the sequence of the leaves it commits to, and a leaf is the run
whose request it binds: the consumed record hashes the request with its fresh
challenge (`nonce_ledger.py` 53-55). Two heads are equal exactly when size and
root are, a consistency proof says `IsPrefix`, an inclusion proof says the leaf
is in the head. The bootstrap leaf is left out, so the empty sequence is the head
of size one that a deployment starts from.

| Action | Code |
|---|---|
| `Start` | `run_external.py` 213-245: authorization verified, request built and sent |
| `ReceiveReceipt` | 241-245, the ledger's answer or any receipt it ever signed |
| `ReadService`, `BeginCommit`, `RejectReceipt`, `RejectSplitView` | 264-280: `read_current`, `verify_consumption_receipt`, the guard of `commit`, first request |
| `ReceiveCommitted`, `ReceiveStale` | `checkpoint_quorum.py` 196-202, one answer of one service |
| `WriteRecord` | `run_external.py` 282-415 |
| `GiveUp` | a deadline, a lost answer, an exception or a death: the process exits (`Stop`, which also puts the variables of a run's locals back, so that runs that ended alike are one state) |
| `LedgerConsume`, `RestoreLedger`, `ServiceCommit` | external |

A request stays in `pending` until it is handled, which may be after its sender
has given up, or never. The read of the last service and the judgement over all
of them are one step, since nothing observable lies between. The receipt is
verified after the quorum was read, as in the code, although it was received
before.

The external parties do what the exchanges require: the ledger appends a leaf
for a nonce its log has not got and names some earlier head of its log as the
prior one; a service compares and swaps. `RestoreLedger` cuts the log back to
an earlier state, after which it may fork. `MaxRestores` bounds it.

### CheckpointMonitor

One step per file operation of `advance` (98-136), in its order: lock, read,
verify and create, write and sync, rename, sync the directory, return. `entry`
is the file that `current.json` names now, `disk` the one it names after a power
loss. A file carries whether its bytes were synced. `WriteBack` lets the rename
reach the disk by itself; `PowerLoss` replaces `entry` by `disk`, or by
something unreadable if the bytes did not survive. `Abort` is a lock timeout, a
refused receipt, a failed file operation or a death: the lock is released in
each, by the `finally` clause or by the operating system. The branch for Windows,
which does not sync the directory ("deployment-tested externally", line 128), is
not modelled.

### NonceStore

One step per file operation of `consume_once` (`kernel.py` 845-862) and the POSIX
branch of `consume_atomic` (`state_store.py` 78-90). `record[t]` is the file of a
token: absent, empty, or with the digest of one decider's decision. `kept` and
`synced` say whose directory entry and whose bytes survive a power loss;
`consumed` says so for the directory. Any failure is `Deny`; a decider that did
not reach the store before a power loss stands for one started after it.
`Provisioned` says that the directory was installed with the store.

### Decision

`pc[d]` is where a call of `decide` is; each label names the check it does next,
and a check that is done twice has a second label with "Again". A call locally
keeps its first time stamp (`now`), whether the kernel's file had been replaced
when it was attested (`source`) or when the present replay began (`before`), the
blind case and the child. `slots` is the semaphore `_BLIND_CHILD_SLOTS`, which
the threads of one process share; the program's own `main` makes one call per
process, so several callers are threads of a program that imports the kernel.

Data is reduced to one question for each thing that the code looks at twice:
has it drifted since the start? There are four kinds: the validators' code in
memory, the clock's code in memory, the kernel's file, the candidate's pinned
files. The environment may drift any of them at any time. `disturbed` records
which calls were between their first and last look at it. A validator's or the
clock's code must be the sealed code at each look; a pinned file must have its
pinned bytes; the kernel's file must be the same at two looks, and equal to the
hash in the recipe, which is that of the file as deployed.

| Action | Code (`kernel.py`) |
|---|---|
| `Attest`, `AttestAgain` | `attest_runtime_validators` 498-519, at 1201 and 1362-1365 |
| `AskTime`, `ReceiveTime`, `AskTimeAgain`, `ReceiveTimeAgain` | `acquire_trusted_time` 571-591, one step up to the request, one after the answer, at 1202 and 1366-1369 |
| `Snapshot`, `SnapshotAgain` | `snapshot_pinned_bytes` 328-359, at 1209-1213 and 1370-1377 |
| `CheckDispatch` | 1214-1262: dispatch and its window, roster, verdict |
| `CheckRecipe`, `ReadKernel`, `StartChild`, `Saturated` | 865-935: the case's artifacts, the file read before, the slot |
| `ChildAnswers`, `Collect`, `CutOff`, `Release`, `Compare` | 929-943: answer or deadline, `finally`, the file read after, the comparison |
| `CheckEvidence`, `Consume`, `Deny` | 1344-1357; 1386-1388; any `Reject` or exception |

The signed documents are right or they are not: `Deny` is possible at each check.
`Consume` is one step here; `NonceStore` has its steps. Not covered: a drift that
is undone before it is looked for, and a process that dies and leaves a child.

### Execution

`tree`, `sums` and `executionManifest` are the input directory: the version of
each file of the candidate, the versions that `SHA256SUMS.txt` lists, and those
that `execution-manifest.json` lists. A digest stands for what it was taken of.
A file that is not there, or that a list does not name, has the version `Absent`;
`Named` are the others, and only at those does the code look when it copies and
when it hashes the copy again. `Listed(order, files)` is a checksum file with its
lines in some order, so two such files with the same lines in another order
differ, as their digests do.
`manifest["before"]` and `manifest["after"]` are what the two calls of
`load_manifest` returned.

| Action | Code |
|---|---|
| `CheckSums`, `ParseSums`, `HashFile`, `Hashed` | `load_manifest` (`run_external.py` 116-141): the checksum file is read for its digest, read again for its lines, and each file is hashed |
| `BindTransport` | 291-304: the execution manifest is read and compared |
| `CopyFile`, `StartSuite` | `copy_verified_snapshot` 142-194, one file through one handle at a time, and the digests of the finished copy |
| `EndSuite`, `WriteRecord` | 324-415; the suite may write to its copy |
| `Construct` | `construct_v35_record.py` 41-80, which wants exit status 0 |
| `Validate` | `validate_v35_record.py` with `validate_record_and_files`, a second process that reads the execution manifest anew |
| `Attest`, `Fail` | the workflow's next step, or its end |
| `Edit` | external: one file or one line of either list, at any time, back to what was pinned or to any version in `Foreign` |

When `run_external.py` ends, its snapshot is deleted and what it observed is gone
(`Leave`, in `WriteRecord` and `Fail`). `Attest` and `Fail` also let go of what
nobody reads after the job (`Forget`); that is the model's own and has no line.
What else the suite writes to its copy is in `snapshot` and in nobody's way: the
record speaks of the listed files, and so does `exit.intact`.
`stale` is history: the files that had been edited when the suite ended and were
not restored since. Mixed bytes, from a file edited while it is read, have no
version of their own, since the digest refuses them as it refuses any other.
An edit that is undone between two looks is not seen by the code, and no property
says it is.

### Promotion

The gate's arguments are paths. `shelf[p]` says whose file the path of part `p`
names: this run's or one a former run has left, attested or not, under the
present roster or a former one. The gate reads the execution manifest
(`LoadManifest`), the record (`LoadRecord`, all of `validate_record` and the
comparison with the checksum file), the evidence files, and then has cosign read
the record again by its path (`VerifyBundle`, `result_attestation.py` 187).
`Swap` replaces a file in between. `validated` and `signed` keep the two reads
apart. The roster is read once, with the buffer that was authenticated
(`tuf_roster.py` 182-187), so `VerifyRoster` is one step; `Expire` may come
before or after it.

If the record's file is replaced between the two reads, a promotion may be
granted whose validated record is not the signed one. Here both are records of
passed runs over pinned bytes (`GrantedRanPinned`, for this run's), and without a
replacement they are one (`GrantedIsAttested`).

### MerkleTree, InclusionProof, ConsistencyProof

A hash is the term that was hashed. `MerkleTree` defines roots, audit paths and
consistency proofs by recursion over ranges of leaves, as the RFC does. A range
is split after the largest power of two below its size; `Split` doubles that of
half the size, which the runs compare with the powers of two for every size
(`SplitAssumption` in `MCSequentialChecks`). The verifiers are the loops of the
code over positions that are halved (`nonce_ledger.py` 77-95 and 127-154):

| Action | Code |
|---|---|
| `Climb`, `Incomplete`, `Finish` | one round of the loop over the levels, its exit for want of a path element, the comparison at its end |
| `Descend`, `Seed` | 129-138: up to the last whole subtree of the old tree, and what the roots start from |
| `Ascend`, `Skip`, `NextLevel`, `Excess` | 139-151: one element of the path, the inner loop over levels without a sibling, the level's end, an element too many |
| `CompareRoots` | 152-154: the path is used up |

`Proofs` are the arguments that are tried of the first. `Growths`, a constant,
are those of the second: two sizes, an old root and a path. The theorems take any
root and any path; the instance takes the right ones and those of an old tree with
another leaf, each path also with one element dropped, added or replaced by any
hash of either tree, and the roots of all other subtrees with the proof of any size. In `ReleaseRun` a proof
is what these two modules show it to be.

### Benchmark

`Summarise` computes the percentile of each side and the improvement, `Resample`
draws one resample, `Conclude` takes the ends of the interval, `Judge` is what
the gate asks of the interval, `RefuseBenchmark` the `Reject`s on the way (`kernel.py`
594-645, 794-819, 826-833). The method and the seed, compared before the interval
(820-825), and the summary's digest and the counts of safety failures, compared
after it (834-840), are left out: the numbers do not depend on them. A number that the evidence claims must equal the recomputed
one, so the claims are not kept. The indices of a resample come from a hash of
the evidence; here any come, one for both sides at a time as in the code. The
order of the resamples does not matter to the code, which sorts them, and they
are kept sorted. `InOrder` is the code's `sorted`: the values, rearranged in
their order of size.

### CertificateChain

`current` and `visited` are the locals of the climb. A certificate has a subject
and a key, the name of its issuer and the key that signed it, whether it is a CA
and whether the time is within its validity. Equality is that of the
fingerprints; names and keys are independent of one another, so a certificate may
bear the root's name with another key. The limit on the number of certificates
is left out (the climb ends without it), and the signature of the time stamp by
the first certificate over the challenge is taken as verified.

### Authorization

`member` is where the two loops are, that over the roster and that over the
signatures. `signed` is the set of the signatures that exist: any set, fixed, as
nobody signs for a file that is already there. The key and the signature a
directory holds for a custodian are any key and any of these; the key must have
the digest the roster lists. The key identifiers are naturals, compared as the
strings are.

### EvidenceWindow

`start` and `end` are the two trusted times, `dispatch` the dates of the signed
dispatch, `results` and `evidence` the dates accepted so far of blind cases and
of gates. `CheckWindow`, `CheckResult`, `CheckGate` and `CheckEnd` are the
comparisons, each where `decide` makes it. `Decision` has the same first
comparison, as a part of a call that lasts; here all dates are compared and time
is what the two observations say.

### InputArchive

`tree` and `sums` are the candidate's directory, `reviewed`, `listing` and
`hashed` what the build has read, `archive` the members written so far.

| Action | Code |
|---|---|
| `ReadDigest`, `ParseSums`, `HashFile` | `build_immutable_inputs.py`: the checksum file read for its digest and again for its lines, each file hashed |
| `StartPacking`, `PackDirectory`, `StartFiles`, `PackFile`, `PackManifest` | the tar writer: directories first, then the files and last the manifest, each read anew |
| `CallExtract`, `ExtractMember`, `ExtractReturns`, `RefuseArchive`, `ExtractDies` | `safe_extract_tar.py`: a destination of its own, one member at a time, removed on an exception, left by a death |
| `EditTree` | external |

A path is the sequence of its names. "link" is the kind of every member that is
refused for what it is; size limits are left out. An edit may come between any
two reads: then the archive may hold what nobody reviewed, which the build does
not see. The checks of `Execution` do, since a digest is compared again by the
runner; here the property speaks of builds during which nobody edits (`steady`).
`build_deployment` packs by the same loop. Two assumptions say what paths are:
`OrderAssumption`, that a directory's string comes before those of what is in it,
as a prefix does; and `LayoutAssumption`, that files are not directories, that
the checksum file is not listed in itself, and that in the archive the candidate is
below `candidate/` with the manifest beside it (`build_immutable_inputs.py`
92-134).

### LinearHead

`RollbackProtocol` implements it with the anchor as the head, `ReleaseRun` with
the head of the last service of the order, `CheckpointMonitor` with the head on
disk; `Precedes` is "smaller" where heads are compared by size and "strict
prefix" where they are logs. It promises what the three are for: one line of
heads, and a report only ever of the head of that instant.

## 3. Runs

| Run | Instance | Question |
|---|---|---|
| `rollback_genuine` | 2 gates, 2 stores, heads 1, 2a, 2b; 2 faults; stores show genuine snapshots; fairness | do siblings, crashes and rollbacks ever fork the anchor, let a store lead it, let a gate move a store back, or make the gates differ from one linear head, and is every wedge repaired? |
| `rollback_sibling` | 1 gate, 1 fault, the store shows 2b | violation: `recover` overwrites another branch |
| `release_retry` | runs r1, r2 for one nonce, r3 for another; 2 services, 1 restoration; fairness | is a nonce released twice, does a release leave the record, what do partial commits leave behind, does every run end? |
| `monitor_power_loss` | 3 processes, two branches of heads, every successor receipt, 2 power losses | siblings, readability, linear head on disk |
| `monitor_reads` | 2 processes, 1 power loss | violation: a reader sees the monitor go back |
| `nonce_durable` | 4 deciders, 3 for one nonce, 2 power losses, directory provisioned | one ALLOW, durable record |
| `nonce_new_store` | the same, 1 power loss, directory not provisioned | violation: a second ALLOW |
| `sequential_checks` | inclusion: trees of up to 6 leaves, every record, index and path of up to 3 hashes of the tree; consistency: trees of up to 8 leaves, old roots of the beginning of the new tree, of a tree with one other leaf, and of every other subtree of the new tree; paths that are right or differ in one place, and those of other sizes; benchmark: 1 to 3 trials a side (2 wanted) of latencies 1, 2, 4, every draw of 3 resamples; chain: up to 3 certificates with the names and keys of two CAs, the root and others; authorization: rosters of 1 to 3 with shared ids, keys and custodians, every set of signatures; dates 0 to 6, age 2, skew 1; archive: 2 files with 2 versions, 1 edit, 2 calls of the extraction, 5 foreign archives; fairness | are exactly the proofs of the RFC accepted, is a rank the nearest and an interval within the pairs, what do a chain, a threshold and a window let through, is what is unpacked the archive? |
| `decision_drift` | 2 callers, 1 slot, 2 blind cases, window of one instant, no lag, time up to 2; fairness | does a drift, a skipped case, a lost slot or a late start survive to ALLOW, and does every decision end though children may hang? |
| `promotion_edits` | one file of the candidate, which an edit may change or remove, and one it does not have, which an edit may add; seal in the order of the names, 5 edits, 2 replacements, 4 former runs | do edits choose the bytes of an attested run, are lasting edits seen, are genuine runs accepted, and what is granted? |
| `promotion_seal_order` | two files of the candidate, sealed in the order the committed list has them, no edits | violation: a genuine run is refused |
| `future_evidence` | dates 0 to 6, age 2, skew 1 | violation: evidence dated after the call is accepted |

Why the bounds are enough. Every safety property relates at most two actors to
one another and two points in time; the instances have a third where a third can
stand between (a third run appends a leaf of another nonce, a third process
takes the lock, a third decider retries). Two stores or services show every
split, and two services are what a record may name (`attestation_record.py` 179);
the theorems hold for more. Heads of one size on two branches are the least that
forks (one of them extended or overtaken by a larger head is left to the
theorems). Two faults give a
crash followed by a rollback, one restoration a forked log, two power losses
one before and one after a recovery. Two callers contend for one slot, and the
second blind case shows what the first leaves behind; the time stamp's lag is
left to the theorem `WindowChecked`. Five edits are the fewest that carry
unpinned bytes through both looks at the tree and both reads of the execution
manifest, so that only the checksum file written anew is left to refuse them:
with a weaker last comparison the run finds them attested. Two replacements
change a file between its two reads and change another, or put it back. The
file the candidate does not have is one that no look at listed files finds, be it
in a list, in the tree or in the suite's copy. Trees of up to eight leaves have
every shape of the right edge over three levels. Three trials at two thirds
have a rank that is a whole number, two have one that is not, and
one trial is too few; the ends of the interval, a quarter and three quarters of
the way along three resamples, fall between neighbours. Three certificates are
a signer, a CA it names and another one that may be on the way, or close a loop.
Seven dates leave room before, within and after a window of length two with a
skew of one. Two calls of the extraction are the one that dies and the one
after. The theorems drop the
bounds, and `Forgeries`, the heads a tampered store may show, is any set in them.

Runs, deciders, verifiers and the other sequential checks end: those runs do not
check deadlock. The rollback
protocol and the monitor can always be called again, and there deadlock is
checked.

Fairness. `rollback_genuine`: `WF(Step(g))`, a call that was started runs on,
since nothing in it blocks; and strong fairness of running `recover` while the
gate is wedged, the operator's part in "recoverable from the anchor" (module
docstring): strong, because other calls come between. Nobody is obliged to commit
or read, and crashes and replacements may happen as often as the bound allows.
`release_retry`: `WF(RunStep(r))` for each run, since every network call
has a timeout (`nonce_ledger.py` 266, 277) and the suite a deadline
(`run_external.py` 327); the ledger and the services owe nothing, and `GiveUp` is
one of the steps. `decision_drift`: `WF(Step(d))` for each call, since each of its
waits has a deadline: the slot (`kernel.py` 119), the child (117), the time
stamp's request (`trusted_clock.py`); a child owes nothing. `sequential_checks`:
`WF` of the loop of either verifier and of the climb along the certificates,
which is sequential code that calls nobody.

### What the violations show

1. `rollback_sibling`. `Store.recover_to_anchor` says "it may never overwrite a
   conflicting head" (`rollback_protocol.py` 51) and compares sizes (52): a store
   that shows a smaller head of another branch is overwritten. Since the anchor
   decides, the gates still implement one linear head (theorem `Refinement`); what
   is lost is the evidence of the fork.
2. `monitor_reads`. `checkpoint_monitor.current` reads without the lock, so
   between rename (127) and directory sync (131) it returns a head that a power
   loss takes back. What `advance` returned is never taken back
   (`monitor_power_loss`).
3. `nonce_new_store`. `consume_once` creates the directory (`kernel.py` 855), and
   only the record and that directory are synced (`state_store.py` 86-89), not
   the state root that names it. `install_state_store.ps1` does not create it
   either.
4. `promotion_seal_order`. `seal_candidate.py` sorts paths (11), which Windows
   compares without case; `validate_record_and_files` writes the checksum file
   anew in the order of the names (`result_attestation.py` 138-141) and refuses
   the record if the digest differs (142). The committed `SHA256SUMS.txt` lists
   `attestation_record.py` before `AUTHORITY.md`, which the order of the names
   does not (further down it is the order of Windows paths only roughly; one such
   pair is enough for another digest). A run over it passes and is refused, and its nonce is spent. Where
   the two orders agree, none is (`GenuineAccepted`).
5. `future_evidence`. `kernel.py` names "future-gate-evidence" with the outcome
   "future-gate-evidence-rejected" (69) and refuses a blind result dated after the
   call (1066), but the date of a gate's evidence is compared with the collection
   window only (775-780), which may end up to the maximum age after the call
   (1230). The test of it (`test_kernel.py` 426) uses a date of the year 9999,
   which is outside every window.

## 4. Proofs

All theorems hold for every value of the constants that satisfies the
assumptions named in the modules: at least two stores and services, sizes are
naturals, every run has a nonce, bounds are naturals, a free lock is no process
and an empty record no decider.

**RollbackProtocolProofs.** `TypeCorrect`; `NoSiblingHeads` (`AnchoredLinear`);
`AnchorFirst` (`StoresNeverAhead`, if `Forgeries = {}`);
`OnlyReplacementRollsBack` (`GatesNeverRollBack`); `Refinement`
(`ImplementsLinearHead`). `AnchoredLinear` and the type invariant are inductive
together, since `Anchor.cas` compares and takes larger heads only. `AnchorFirst`
needs in addition that a gate in `fanout` carries an anchored head and one in
`repair` an anchored head. `GatesNeverRollBack` follows from what one
compare-and-swap or repair checks. For the refinement: the anchor is the last to
be read, so a unanimous view is the anchor's head at that step.

**ReleaseRunProofs.** `TypeCorrect`; `ReleasesStayOnRecord`
(`ReleasedOnRecord`); `OneTimeRelease` (`OneReleasePerNonce`). The argument:
a ledger's log, and so every head it signs, has each nonce once, restored or
not; a run that commits holds an accepted receipt, so the head it commits
extends the head it read; a service moves only by such a commit, so heads of
services have each nonce once and only grow; a run is released when all services
have answered, so its leaf is in every service's head from then on. Two released
runs for one nonce would be two leaves of one head with one nonce. The inductive
invariant states that chain: `LedgerUnique`, `RequestsSound`, `CommitsSound`,
`ServicesUnique`, `AnsweredServices`, `RepliesToCommits`, `ReleasedOnRecord`.

The same module proves `EarlierAhead` (`EarlierServicesAhead`); `WedgeClosed`
(`WedgeStaysClosed`); `Refinement` (`ImplementsLinearHead`). The invariant,
`OrderInv`, rests on two facts. The last leaf of a head that is committed names
its run (`OwnLeafLast`), so one run only sends a given head to the services, and
it asks them in their order; hence a request to a service says that all before it
have reached its head (`RequestsOrdered`, `CommitsOrdered`). And the prior head of
every request was read at all services, so the first service leaves a head only
when all have reached it (`Extended`, `Shared`); where it holds the head of a run,
that run is past its reads (`FirstIsStarted`). From the order of the requests
follows `EarlierServicesAhead`. When the services are split and nobody commits the
first one's head any more, nothing moves: a request that could move the first
service has a prior head all services extend, and they would all be at it; one
that could move a later service is of a head the first service has reached and
has not left, which is the head that nobody commits. The last service
is read last, so a unanimous read is its head at that step; and it moves only by a
request whose head extends its prior.

**CheckpointMonitorProofs.** `TypeCorrect`; `SiblingsExcluded`; `ReplacementIsAtomic`;
`Refinement`. The invariant: the lock excludes; what a writer has read is the
present head until it renames; the head on disk is the present one or smaller;
and every accepted receipt ends at or before the head the present writer starts
from, so a second receipt from the same start cannot be a successor.

**NonceStoreProofs.** `TypeCorrect` for every store; `RecordsAreDurable`
and `OneShot` for a provisioned one, the hypothesis that run `nonce_new_store`
shows to be necessary. The invariant: from its creation on a record belongs to
one decider, and the durability steps that decider has passed are done.

**DecisionProofs.** `TypeCorrect`; `FanoutBounded` (`SlotsAccounted`);
`DriftIsFatal` (`NoDriftSurvives`); `NoCaseSkipped` (`EveryCaseAnswered`);
`WindowChecked` (`AllowedBeganInWindow`). The invariant says of each call what
its label implies: a call inside a replay holds its slot and nobody else does; it
has collected an answer for each case before the present one; what disturbed it
has drifted, so that the second look, which such a call still has before it,
must fail, where for the kernel's file `source` tells whether the drift came
before the first look; its time stamp is no older than its beginning less the
lag, and past `CheckDispatch` within the window.

**PromotionProofs.** `TypeCorrect`; `OnlyManifestChoosesBytes`
(`TreeChoosesNoBytes`); `AttestationSound` (`AttestedRanPinned`);
`SecondLookSees` (`LastingEditSeen`); `PromotionSound` (`GrantedRanPinned`);
`OneRecordGranted` (`GrantedIsAttested`); `GenuineAccepted` (`GenuineRunValid`, if
`SealOrder = NameOrder`). The argument: what the suite was started from, what the
first look returned, and what was read of the execution manifest are one map of
files, whatever is edited between the reads; the record carries that map. A
record whose digest is that of the checksum file written anew from some map was
written of the pinned map (`PinnedListing`: equal listings list equal files). For lasting edits: at
the second look the checksum file lists such a file as pinned, and hashing it
fails, or as edited, and then the two looks differ, since the first one returned
the pinned map. For the gate: what it has validated is a record that passes
`Valid`, and `Valid` implies that the run passed over pinned bytes. Nothing but its
type is assumed of an edit, a replacement or a former run.

**ChecksProofs.** `ChainOfTrust` (`ChainSound`): what the root vouches for is
the least set closed under a rule, so any closed set that holds the certificate
the climb is at holds those below it, and at the end the climb is at the root.
`Threshold` (`ThresholdMet`): the members before the present one differ from one
another in the first loop, and have signed in the second. `EvidenceIsFresh`
(`FreshEvidence`): past `CheckWindow` the window began no more than the maximum age
and the skew before the call, and every later date is within it.
`ExtractionExact` (`ExtractedIsArchive`): what is below the destination is made of
the members before the present one, each with a name of its own; a destination
that was not there is empty; and after a call that returned the destination is
there, so no later one starts.

`UndisturbedBuild` (`UndisturbedBuildAccepted`): at each step of the build what is
packed so far is a sound archive, all regular members, of distinct names, a
directory before what is in it; extraction refuses no member of such an archive,
since the parent is there and the name is not. While nobody edits, what was
reviewed, listed, hashed and packed is the tree. `NearestRanks` (`RankIsNearest`)
and `IntervalOfPairs` (`IntervalWithinPairs`): a sorted order exists, for a
sequence of one more value puts it behind the last smaller one; the number of
values up to a rank is the cardinality of a set of places, which a bijection
keeps; the improvement does not fall when a pair's does not, and so the
percentile of the resampled ones lies between the least and the greatest pair.

**MerkleProofs.** `InclusionTypes`, `ConsistencyTypes`;
`AcceptedRecordIsTheLeaf` (`OnlyTheLeaf`); `AcceptedGrowthRewritesNoLeaf`
(`NoRewrittenLeaf`); and the safety halves of the two liveness properties,
`AuditPathNeverRefused` and `HonestGrowthNeverRefused`: the proofs the RFC defines
are not rejected in any state. All of it for trees of any size. Inductions are
by a least counterexample (`Least`), first to obtain the equations of the
functions of `MerkleTree` from their definitions. A level has a width w, a power
of two, and `Block(j, w, n)` is the range below its node j; a range of more than
w leaves and at most 2w is split after w of them (`WidthTwice`), so the parent of
a node is the one of half its number (`RightChild`, `OnlyChild`), and a node that
has no sibling is its own parent. The invariant of the climb: if the hash computed so
far is that of the node, then the record is its leaf and the elements used are
the node's path. It is an implication, for at the end the hash is compared with the
signed root, and a hash determines what was hashed (`HashesDiffer`). Of growth:
if the second of the two roots computed so far is that of the new tree's node, then
the first is that of the old tree's, a beginning of it, and the elements used are
those of the RFC; for every element is hashed into the second, and what went into
the first is among them. So nothing need be assumed of the old root or the path.
If that root is the root of a tree of some leaves, each of them is at its place in
the new tree (`AcceptedGrowthKeepsLeaves`), since equal roots have equal leaves
(`EqualRoots`). For the
other direction the premise is part of the invariant, and the path of a node
is the beginning of the path of the whole tree (`PathContinues`), so the next
element is the sibling's root and there is one until the top is reached.

Each proof module proves its types first, most as the theorem `TypeCorrect`; the
runs check `TypeOK` where a power loss could break it (`monitor_power_loss`) and
leave the other types to the proofs.

Only model-checked: the liveness properties (`AlwaysRecoverable`, `RunsEnd`,
`DecisionsEnd`, `ChainDecides`, `ProofsOfLeavesAccepted`, `HonestGrowthAccepted`),
which the prover does not reach. Of the last two, the theorems leave open only
that the loops end. Every invariant, action property and refinement of the
passing runs is a theorem.

## 5. What is not modelled

Cryptography, canonical encodings and schemas are taken for what they establish:
a signed answer is one the party gave, a pinned file is the pinned bytes. The
identity checks of code objects in `kernel.py` are one guard of `Decision`, that
of the loaded code being the sealed code; the field checks of its signed
documents, the policy of the attestation and the checks of the replay store's
marker and access list have no state machine of their own and are the
possibility of a refusal. Of the TUF metadata only the roster they name and
their expiry are kept. The bits of the tar format, the sizes of members and the
layout of the deployment archive are left out. The provisioning scripts and
templates are data for a deployment, and `v31_provenance_reference.py` reads the
records of an earlier version and is not part of the present one.

The Windows branches of the monitor (no directory sync, "deployment-tested
externally", `checkpoint_monitor.py` 128) and of the replay store (one
write-through handle, `state_store.py` 93-112) rest on what that file system
promises of a name's durability, which nothing in the repository says; a model
would prove back the promise it assumes.

The expiry of the roster is checked before a subprocess of up to two minutes
(`promotion_gate.py` 16). `Promotion` has that step, but no text of the repository
says how fresh the metadata must be when the promotion is granted, so no property
does.

## 6. Plan

1. The roster of `tuf_roster.py`, document by document: root, targets and
   snapshot with their own expiries and thresholds.
2. What is granted after the record's file was replaced, for a former run as
   well as for this one, as a theorem of its own.
3. `build_deployment`, if its layout ever differs from that of `build_candidate`.
