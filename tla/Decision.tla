------------------------------ MODULE Decision ------------------------------
(***************************************************************************)
(* kernel.decide and the blind replays it runs (kernel.py).  Several       *)
(* threads of one process decide about one dispatch: they share the child  *)
(* slots, the code they run and the files they read, and consume one       *)
(* nonce.                                                                  *)
(*                                                                         *)
(* While they run, a validator or the clock may be swapped in memory, and  *)
(* the kernel's file or the candidate's artifacts be replaced on disk: the *)
(* kinds of drift that decide looks for at its end.  A drift is lasting; a *)
(* change that is undone before it is looked for is not seen by the code.  *)
(***************************************************************************)
EXTENDS Integers, FiniteSets

CONSTANTS
  Deciders,  \* calls of decide
  MaxSlots,  \* BLIND_CHILD_MAX_CONCURRENT
  Cases,     \* the number of blind cases, len(BLIND_CORPUS)
  Opens,     \* issued_at less the clock skew
  Closes,    \* collection_not_after and the clock skew
  Lag,       \* how far a time stamp may lie behind the time of its arrival
  MaxTime    \* bound on the clock

ASSUME DecidersAssumption == IsFiniteSet(Deciders)
ASSUME BoundsAssumption ==
  /\ MaxSlots \in Nat \ {0}
  /\ Cases \in Nat \ {0}
  /\ Opens \in Nat /\ Closes \in Nat /\ Lag \in Nat /\ MaxTime \in Nat

VARIABLES
  clock,     \* the time
  drifted,   \* the kinds of drift that happened
  slots,     \* _BLIND_CHILD_SLOTS: the deciders that hold one
  consumed,  \* the nonce of the dispatch is consumed
  pc,        \* where each call of decide is
  now,       \* its first time stamp
  source,    \* runtime_source_raw: was the kernel's file replaced already?
  before,    \* kernel_before: the same, when the replay started
  case,      \* the blind case it is at
  child,     \* its child process: "none", "running", "answered" or "cutOff"
  answers,   \* history: answers of children it went on with
  began,     \* history: when it started
  disturbed, \* history: calls and the drift that happened between their checks
  allowed    \* history: calls that returned ALLOW

locals == <<now, source, before, case, child>>
history == <<answers, began, disturbed, allowed>>
vars == <<clock, drifted, slots, consumed, pc, locals, history>>

Kinds == {"validator", "clock", "source", "candidate"}

Replaying == {"recipe", "readKernel", "slot", "running", "release", "compare"}
Checking == {"dispatch", "evidence", "attestAgain"} \cup Replaying

(* From the first check of each kind of drift to the last. *)
Span(k) ==
  CASE k \in {"validator", "source"} -> {"clock", "reply", "snapshot"} \cup Checking
    [] k = "clock" -> {"reply", "snapshot", "clockAgain", "replyAgain"} \cup Checking
    [] k = "candidate" -> {"clockAgain", "replyAgain", "snapshotAgain"} \cup Checking

Init ==
  /\ clock = 0
  /\ drifted = {}
  /\ slots = {}
  /\ consumed = FALSE
  /\ pc = [d \in Deciders |-> "attest"]
  /\ now = [d \in Deciders |-> 0]
  /\ source = [d \in Deciders |-> FALSE]
  /\ before = [d \in Deciders |-> FALSE]
  /\ case = [d \in Deciders |-> 1]
  /\ child = [d \in Deciders |-> "none"]
  /\ answers = [d \in Deciders |-> 0]
  /\ began = [d \in Deciders |-> 0]
  /\ disturbed = {}
  /\ allowed = {}

-----------------------------------------------------------------------------
(* The checks before the replays. *)

Goto(d, label) == pc' = [pc EXCEPT ![d] = label]
Drifted(k) == k \in drifted

(* attest_runtime_validators.  A new kernel file whose validators compile   *)
(* to the same code is taken for the present one.                           *)
Attest(d) ==
  /\ pc[d] = "attest"
  /\ ~Drifted("validator")
  /\ source' = [source EXCEPT ![d] = Drifted("source")]
  /\ began' = [began EXCEPT ![d] = clock]
  /\ Goto(d, "clock")
  /\ UNCHANGED <<clock, drifted, slots, consumed, now, before, case, child,
                 answers, disturbed, allowed>>

(* acquire_trusted_time, up to the request. *)
AskTime(d) ==
  /\ pc[d] = "clock"
  /\ ~Drifted("clock")
  /\ Goto(d, "reply")
  /\ UNCHANGED <<clock, drifted, slots, consumed, locals, history>>

(* The time stamp came and the clock's code is still the same. *)
ReceiveTime(d) ==
  /\ pc[d] = "reply"
  /\ ~Drifted("clock")
  /\ \E t \in 0..clock :
       /\ t >= clock - Lag
       /\ now' = [now EXCEPT ![d] = t]
  /\ Goto(d, "snapshot")
  /\ UNCHANGED <<clock, drifted, slots, consumed, source, before, case, child, history>>

(* The pinned files are loaded, both artifacts are the pinned ones. *)
Snapshot(d) ==
  /\ pc[d] = "snapshot"
  /\ ~Drifted("candidate")
  /\ Goto(d, "dispatch")
  /\ UNCHANGED <<clock, drifted, slots, consumed, locals, history>>

(* Broken variant: only the beginning of the window is checked. *)
NotEarly(d) == Opens <= now[d]

InWindow(d) == Opens <= now[d] /\ now[d] <= Closes

(* Dispatch, roster and verdict. *)
CheckDispatch(d) ==
  /\ pc[d] = "dispatch"
  /\ InWindow(d)
  /\ Goto(d, "recipe")
  /\ UNCHANGED <<clock, drifted, slots, consumed, locals, history>>

-----------------------------------------------------------------------------
(* One blind replay. *)

(* The artifacts of the case; the recipe pins the kernel's file. *)
CheckRecipe(d) ==
  /\ pc[d] = "recipe"
  /\ ~Drifted("source")
  /\ Goto(d, "readKernel")
  /\ UNCHANGED <<clock, drifted, slots, consumed, locals, history>>

ReadKernel(d) ==
  /\ pc[d] = "readKernel"
  /\ before' = [before EXCEPT ![d] = Drifted("source")]
  /\ Goto(d, "slot")
  /\ UNCHANGED <<clock, drifted, slots, consumed, now, source, case, child, history>>

(* A slot was free within BLIND_CHILD_SLOT_WAIT_SECONDS: the child starts.  *)
StartChild(d) ==
  /\ pc[d] = "slot"
  /\ Cardinality(slots) < MaxSlots
  /\ slots' = slots \cup {d}
  /\ child' = [child EXCEPT ![d] = "running"]
  /\ Goto(d, "running")
  /\ UNCHANGED <<clock, drifted, consumed, now, source, before, case, history>>

(* "A saturated reviewer/runtime denies." *)
Saturated(d) ==
  /\ pc[d] = "slot"
  /\ Cardinality(slots) >= MaxSlots
  /\ Goto(d, "deny")
  /\ UNCHANGED <<clock, drifted, slots, consumed, locals, history>>

(* The child's own step: it answers and exits. *)
ChildAnswers(d) ==
  /\ child[d] = "running"
  /\ child' = [child EXCEPT ![d] = "answered"]
  /\ UNCHANGED <<clock, drifted, slots, consumed, pc, now, source, before, case, history>>

Collect(d) ==
  /\ pc[d] = "running"
  /\ child[d] = "answered"
  /\ answers' = [answers EXCEPT ![d] = @ + 1]
  /\ Goto(d, "release")
  /\ UNCHANGED <<clock, drifted, slots, consumed, locals, began, disturbed, allowed>>

(* Broken variant: the child is waited for without a deadline. *)
Never(d) == FALSE

(* A deadline may pass at any time, also as the answer arrives. *)
Expired(d) == pc[d] = "running"

(* BLIND_EXECUTION_TIMEOUT_SECONDS: subprocess.run kills the child, waits   *)
(* for its end and raises; the child could not be started, likewise.        *)
CutOff(d) ==
  /\ pc[d] = "running"
  /\ Expired(d)
  /\ child' = [child EXCEPT ![d] = "cutOff"]
  /\ Goto(d, "release")
  /\ UNCHANGED <<clock, drifted, slots, consumed, now, source, before, case, history>>

(* Broken variant: no "finally"; a failed replay keeps its slot. *)
ReleaseAnswered(d) ==
  /\ pc[d] = "release"
  /\ slots' = IF child[d] = "answered" THEN slots \ {d} ELSE slots
  /\ Goto(d, IF child[d] = "answered" THEN "compare" ELSE "deny")
  /\ child' = [child EXCEPT ![d] = "none"]
  /\ UNCHANGED <<clock, drifted, consumed, now, source, before, case, history>>

(* Broken variant: what a child wrote before it was cut off is compared. *)
ReleaseAny(d) ==
  /\ pc[d] = "release"
  /\ slots' = slots \ {d}
  /\ Goto(d, "compare")
  /\ child' = [child EXCEPT ![d] = "none"]
  /\ UNCHANGED <<clock, drifted, consumed, now, source, before, case, history>>

Release(d) ==
  /\ pc[d] = "release"
  /\ slots' = slots \ {d}
  /\ Goto(d, IF child[d] = "answered" THEN "compare" ELSE "deny")
  /\ child' = [child EXCEPT ![d] = "none"]
  /\ UNCHANGED <<clock, drifted, consumed, now, source, before, case, history>>

(* Broken variant: the loop runs once too often. *)
AfterLast(d) == case[d] > Cases

LastCase(d) == case[d] = Cases

(* The kernel's file is the same, and exit code and output the expected ones. *)
Compare(d) ==
  /\ pc[d] = "compare"
  /\ before[d] = Drifted("source")
  /\ IF LastCase(d)
     THEN Goto(d, "evidence") /\ UNCHANGED case
     ELSE Goto(d, "recipe") /\ case' = [case EXCEPT ![d] = @ + 1]
  /\ UNCHANGED <<clock, drifted, slots, consumed, now, source, before, child, history>>

-----------------------------------------------------------------------------
(* The checks after the replays. *)

CheckEvidence(d) ==
  /\ pc[d] = "evidence"
  /\ Goto(d, "attestAgain")
  /\ UNCHANGED <<clock, drifted, slots, consumed, locals, history>>

(* Broken variant: the attested source is not compared with the first one. *)
AttestOnlyValidators(d) ==
  /\ pc[d] = "attestAgain"
  /\ ~Drifted("validator")
  /\ Goto(d, "clockAgain")
  /\ UNCHANGED <<clock, drifted, slots, consumed, locals, history>>

AttestAgain(d) ==
  /\ pc[d] = "attestAgain"
  /\ ~Drifted("validator")
  /\ source[d] = Drifted("source")
  /\ Goto(d, "clockAgain")
  /\ UNCHANGED <<clock, drifted, slots, consumed, locals, history>>

AskTimeAgain(d) ==
  /\ pc[d] = "clockAgain"
  /\ ~Drifted("clock")
  /\ Goto(d, "replyAgain")
  /\ UNCHANGED <<clock, drifted, slots, consumed, locals, history>>

(* A time stamp, not before the first one. *)
ReceiveTimeAgain(d) ==
  /\ pc[d] = "replyAgain"
  /\ ~Drifted("clock")
  /\ \E t \in 0..clock : t >= clock - Lag /\ t >= now[d]
  /\ Goto(d, "snapshotAgain")
  /\ UNCHANGED <<clock, drifted, slots, consumed, locals, history>>

SnapshotAgain(d) ==
  /\ pc[d] = "snapshotAgain"
  /\ ~Drifted("candidate")
  /\ Goto(d, "consume")
  /\ UNCHANGED <<clock, drifted, slots, consumed, locals, history>>

(* consume_once, whose steps are those of NonceStore, and ALLOW. *)
Consume(d) ==
  /\ pc[d] = "consume"
  /\ ~consumed
  /\ consumed' = TRUE
  /\ allowed' = allowed \cup {d}
  /\ Goto(d, "allow")
  /\ UNCHANGED <<clock, drifted, slots, locals, answers, began, disturbed>>

(* A check fails, here or where its guard above is false, or something      *)
(* raises: decide raises and main prints DENY.                              *)
Deny(d) ==
  /\ pc[d] \notin {"running", "release", "allow", "deny"}
  /\ Goto(d, "deny")
  /\ UNCHANGED <<clock, drifted, slots, consumed, locals, history>>

-----------------------------------------------------------------------------
(* The environment. *)

Tick ==
  /\ clock < MaxTime
  /\ clock' = clock + 1
  /\ UNCHANGED <<drifted, slots, consumed, pc, locals, history>>

Drift(k) ==
  /\ ~Drifted(k)
  /\ drifted' = drifted \cup {k}
  /\ disturbed' = disturbed \cup {<<d, k>> : d \in {c \in Deciders : pc[c] \in Span(k)}}
  /\ UNCHANGED <<clock, slots, consumed, pc, locals, answers, began, allowed>>

Replay(d) ==
  \/ CheckRecipe(d) \/ ReadKernel(d)
  \/ StartChild(d) \/ Saturated(d)
  \/ Collect(d) \/ CutOff(d) \/ Release(d)
  \/ Compare(d)

Step(d) ==
  \/ Attest(d) \/ AskTime(d) \/ ReceiveTime(d) \/ Snapshot(d) \/ CheckDispatch(d)
  \/ Replay(d)
  \/ CheckEvidence(d)
  \/ AttestAgain(d) \/ AskTimeAgain(d) \/ ReceiveTimeAgain(d) \/ SnapshotAgain(d)
  \/ Consume(d)
  \/ Deny(d)

Next ==
  \/ \E d \in Deciders : Step(d) \/ ChildAnswers(d)
  \/ Tick
  \/ \E k \in Kinds : Drift(k)

Spec == Init /\ [][Next]_vars

(* Each wait of a decider has a deadline; a child owes nothing. *)
FairSpec == Spec /\ \A d \in Deciders : WF_vars(Step(d))

-----------------------------------------------------------------------------
Labels == {"attest", "clock", "reply", "snapshot", "clockAgain", "replyAgain",
           "snapshotAgain", "consume", "allow", "deny"} \cup Checking

ChildStates == {"none", "running", "answered", "cutOff"}

TypeOK ==
  /\ clock \in 0..MaxTime
  /\ drifted \subseteq Kinds
  /\ slots \subseteq Deciders
  /\ consumed \in BOOLEAN
  /\ pc \in [Deciders -> Labels]
  /\ now \in [Deciders -> 0..MaxTime]
  /\ source \in [Deciders -> BOOLEAN]
  /\ before \in [Deciders -> BOOLEAN]
  /\ case \in [Deciders -> 1..Cases]
  /\ child \in [Deciders -> ChildStates]
  /\ answers \in [Deciders -> 0..Cases]
  /\ began \in [Deciders -> 0..MaxTime]
  /\ disturbed \subseteq Deciders \X Kinds
  /\ allowed \subseteq Deciders

(* Each slot in use belongs to a decider that is in its replay, so no       *)
(* failed replay keeps one, and every living child has a slot: there are    *)
(* never more of them than slots ("bound aggregate child fanout").          *)
SlotsAccounted ==
  /\ slots = {d \in Deciders : pc[d] \in {"running", "release"}}
  /\ \A d \in Deciders : child[d] = "running" => d \in slots
  /\ Cardinality(slots) <= MaxSlots

(* "neither a live callable swap nor candidate-artifact TOCTOU can survive  *)
(* to nonce commit" (kernel.py, decide): no call is allowed if anything     *)
(* that it checks twice changed between its two checks, whichever replay,   *)
(* wait or other decider came between.                                      *)
NoDriftSurvives == \A d \in allowed, k \in Kinds : <<d, k>> \notin disturbed

(* A decision is allowed only with an answer, given in time, for every      *)
(* blind case: a child that was cut off never counts, however late it wrote. *)
EveryCaseAnswered == \A d \in allowed : answers[d] = Cases

(* A call that starts when the collection window has closed, by more than   *)
(* the lag of a time stamp, is not allowed; nor is one before it opens.     *)
(* (The second time stamp is not compared with the window.)                 *)
AllowedBeganInWindow ==
  \A d \in allowed : began[d] <= Closes + Lag /\ Opens <= clock

(* Every call ends, whatever its children do: a saturated or hanging replay *)
(* denies.                                                                  *)
DecisionsEnd == <>(\A d \in Deciders : pc[d] \in {"allow", "deny"})
=============================================================================
