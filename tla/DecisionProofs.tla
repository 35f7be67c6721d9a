--------------------------- MODULE DecisionProofs ---------------------------
(* Proofs about Decision, for any deciders, slots, cases and times. *)
EXTENDS Decision, FiniteSetTheorems, TLAPS

Early == {"attest", "clock", "reply", "snapshot", "dispatch"}
Late == {"evidence", "attestAgain", "clockAgain", "replyAgain", "snapshotAgain",
         "consume", "allow"}

(* A drift between two checks of a call leaves it where the second check is *)
(* still to come, and will fail, or denied.                                 *)
DisturbedFail ==
  /\ \A d \in Deciders : source[d] => "source" \in drifted
  /\ \A d \in Deciders, k \in Kinds : <<d, k>> \in disturbed =>
       /\ k \in drifted
       /\ pc[d] \in Span(k) \cup {"deny"}
       /\ k = "source" => ~source[d]

AllowedIsFinal == \A d \in allowed : pc[d] = "allow"

(* The holders of slots, without their number. *)
HoldersReplay ==
  /\ slots = {d \in Deciders : pc[d] \in {"running", "release"}}
  /\ \A d \in Deciders : child[d] = "running" => pc[d] = "running"

(* One answer for every case passed. *)
AnswersCounted ==
  \A d \in Deciders :
    /\ pc[d] \in Early => case[d] = 1 /\ answers[d] = 0
    /\ pc[d] \in {"recipe", "readKernel", "slot", "running"} => answers[d] = case[d] - 1
    /\ pc[d] = "release" =>
         answers[d] = IF child[d] = "answered" THEN case[d] ELSE case[d] - 1
    /\ pc[d] = "compare" => answers[d] = case[d]
    /\ pc[d] \in Late => answers[d] = Cases

(* What the first time stamp says of the start of the call. *)
Timed ==
  \A d \in Deciders :
    /\ began[d] <= clock
    /\ now[d] <= clock
    /\ pc[d] \in {"snapshot", "dispatch"} \cup Replaying \cup Late => began[d] <= now[d] + Lag
    /\ pc[d] \in Replaying \cup Late => Opens <= now[d] /\ now[d] <= Closes

IInv ==
  /\ TypeOK
  /\ HoldersReplay
  /\ DisturbedFail
  /\ AllowedIsFinal
  /\ AnswersCounted
  /\ Timed

LEMMA Initially == Init => IInv
<1> SUFFICES ASSUME Init PROVE IInv
  OBVIOUS
<1> USE BoundsAssumption DEF Init
<1>1. TypeOK
  <2>1. clock \in 0..MaxTime /\ now \in [Deciders -> 0..MaxTime] /\ began \in [Deciders -> 0..MaxTime]
    OBVIOUS
  <2>2. case \in [Deciders -> 1..Cases] /\ answers \in [Deciders -> 0..Cases]
    OBVIOUS
  <2> QED
    BY <2>1, <2>2 DEF TypeOK, Labels, ChildStates
<1>2. HoldersReplay /\ DisturbedFail /\ AllowedIsFinal
  BY DEF HoldersReplay, DisturbedFail, AllowedIsFinal
<1>3. AnswersCounted
  BY DEF AnswersCounted, Early, Late
<1>4. Timed
  BY DEF Timed, Late, Replaying
<1> QED
  BY <1>1, <1>2, <1>3, <1>4 DEF IInv

(* Types; the counts stay in range because one answer is counted for each case. *)
LEMMA TypeSteps ==
  ASSUME TypeOK, AnswersCounted, NEW d \in Deciders, Step(d) \/ ChildAnswers(d)
  PROVE  TypeOK'
<1> USE BoundsAssumption DEF TypeOK, AnswersCounted, Labels, ChildStates, Goto, Drifted, locals, history, Checking, Replaying
<1>1. CASE Attest(d)
  BY <1>1 DEF Attest
<1>2. CASE AskTime(d)
  BY <1>2 DEF AskTime
<1>3. CASE ReceiveTime(d)
  BY <1>3 DEF ReceiveTime
<1>4. CASE Snapshot(d)
  BY <1>4 DEF Snapshot
<1>5. CASE CheckDispatch(d)
  BY <1>5 DEF CheckDispatch, InWindow
<1>6. CASE CheckRecipe(d)
  BY <1>6 DEF CheckRecipe
<1>7. CASE ReadKernel(d)
  BY <1>7 DEF ReadKernel
<1>8. CASE StartChild(d)
  BY <1>8 DEF StartChild
<1>9. CASE Saturated(d)
  BY <1>9 DEF Saturated
<1>10. CASE Collect(d)
  BY <1>10 DEF Collect
<1>11. CASE CutOff(d)
  BY <1>11 DEF CutOff, Expired
<1>12. CASE Release(d)
  BY <1>12 DEF Release
<1>13. CASE Compare(d)
  BY <1>13 DEF Compare, LastCase
<1>14. CASE CheckEvidence(d)
  BY <1>14 DEF CheckEvidence
<1>15. CASE AttestAgain(d)
  BY <1>15 DEF AttestAgain
<1>16. CASE AskTimeAgain(d)
  BY <1>16 DEF AskTimeAgain
<1>17. CASE ReceiveTimeAgain(d)
  BY <1>17 DEF ReceiveTimeAgain
<1>18. CASE SnapshotAgain(d)
  BY <1>18 DEF SnapshotAgain
<1>19. CASE Consume(d)
  BY <1>19 DEF Consume
<1>20. CASE Deny(d)
  BY <1>20 DEF Deny
<1>21. CASE ChildAnswers(d)
  BY <1>21 DEF ChildAnswers
<1> QED
  BY <1>1, <1>2, <1>3, <1>4, <1>5, <1>6, <1>7, <1>8, <1>9, <1>10, <1>11, <1>12, <1>13, <1>14, <1>15, <1>16, <1>17, <1>18, <1>19, <1>20, <1>21 DEF Step, Replay

(* A slot is held from the start of the child to its release, by its decider. *)
LEMMA HolderSteps ==
  ASSUME TypeOK, HoldersReplay, NEW d \in Deciders, Step(d) \/ ChildAnswers(d)
  PROVE  HoldersReplay'
<1> USE BoundsAssumption DEF TypeOK, HoldersReplay, Goto, Drifted, locals, history, Checking, Replaying
<1>1. CASE Attest(d)
  BY <1>1 DEF Attest
<1>2. CASE AskTime(d)
  BY <1>2 DEF AskTime
<1>3. CASE ReceiveTime(d)
  BY <1>3 DEF ReceiveTime
<1>4. CASE Snapshot(d)
  BY <1>4 DEF Snapshot
<1>5. CASE CheckDispatch(d)
  BY <1>5 DEF CheckDispatch, InWindow
<1>6. CASE CheckRecipe(d)
  BY <1>6 DEF CheckRecipe
<1>7. CASE ReadKernel(d)
  BY <1>7 DEF ReadKernel
<1>8. CASE StartChild(d)
  BY <1>8 DEF StartChild
<1>9. CASE Saturated(d)
  BY <1>9 DEF Saturated
<1>10. CASE Collect(d)
  BY <1>10 DEF Collect
<1>11. CASE CutOff(d)
  BY <1>11 DEF CutOff, Expired
<1>12. CASE Release(d)
  BY <1>12 DEF Release
<1>13. CASE Compare(d)
  BY <1>13 DEF Compare, LastCase
<1>14. CASE CheckEvidence(d)
  BY <1>14 DEF CheckEvidence
<1>15. CASE AttestAgain(d)
  BY <1>15 DEF AttestAgain
<1>16. CASE AskTimeAgain(d)
  BY <1>16 DEF AskTimeAgain
<1>17. CASE ReceiveTimeAgain(d)
  BY <1>17 DEF ReceiveTimeAgain
<1>18. CASE SnapshotAgain(d)
  BY <1>18 DEF SnapshotAgain
<1>19. CASE Consume(d)
  BY <1>19 DEF Consume
<1>20. CASE Deny(d)
  BY <1>20 DEF Deny
<1>21. CASE ChildAnswers(d)
  BY <1>21 DEF ChildAnswers
<1> QED
  BY <1>1, <1>2, <1>3, <1>4, <1>5, <1>6, <1>7, <1>8, <1>9, <1>10, <1>11, <1>12, <1>13, <1>14, <1>15, <1>16, <1>17, <1>18, <1>19, <1>20, <1>21 DEF Step, Replay

(* After a drift the second check of the call fails. *)
LEMMA DriftSteps ==
  ASSUME TypeOK, DisturbedFail, NEW d \in Deciders, Step(d) \/ ChildAnswers(d)
  PROVE  DisturbedFail'
<1> USE BoundsAssumption DEF TypeOK, DisturbedFail, Span, Kinds, Goto, Drifted, locals, history, Checking, Replaying
<1>1. CASE Attest(d)
  BY <1>1 DEF Attest
<1>2. CASE AskTime(d)
  BY <1>2 DEF AskTime
<1>3. CASE ReceiveTime(d)
  BY <1>3 DEF ReceiveTime
<1>4. CASE Snapshot(d)
  BY <1>4 DEF Snapshot
<1>5. CASE CheckDispatch(d)
  BY <1>5 DEF CheckDispatch, InWindow
<1>6. CASE CheckRecipe(d)
  BY <1>6 DEF CheckRecipe
<1>7. CASE ReadKernel(d)
  BY <1>7 DEF ReadKernel
<1>8. CASE StartChild(d)
  BY <1>8 DEF StartChild
<1>9. CASE Saturated(d)
  BY <1>9 DEF Saturated
<1>10. CASE Collect(d)
  BY <1>10 DEF Collect
<1>11. CASE CutOff(d)
  BY <1>11 DEF CutOff, Expired
<1>12. CASE Release(d)
  BY <1>12 DEF Release
<1>13. CASE Compare(d)
  BY <1>13 DEF Compare, LastCase
<1>14. CASE CheckEvidence(d)
  BY <1>14 DEF CheckEvidence
<1>15. CASE AttestAgain(d)
  BY <1>15 DEF AttestAgain
<1>16. CASE AskTimeAgain(d)
  BY <1>16 DEF AskTimeAgain
<1>17. CASE ReceiveTimeAgain(d)
  BY <1>17 DEF ReceiveTimeAgain
<1>18. CASE SnapshotAgain(d)
  BY <1>18 DEF SnapshotAgain
<1>19. CASE Consume(d)
  BY <1>19 DEF Consume
<1>20. CASE Deny(d)
  BY <1>20 DEF Deny
<1>21. CASE ChildAnswers(d)
  BY <1>21 DEF ChildAnswers
<1> QED
  BY <1>1, <1>2, <1>3, <1>4, <1>5, <1>6, <1>7, <1>8, <1>9, <1>10, <1>11, <1>12, <1>13, <1>14, <1>15, <1>16, <1>17, <1>18, <1>19, <1>20, <1>21 DEF Step, Replay

(* A call that returned stays where it is. *)
LEMMA AllowSteps ==
  ASSUME TypeOK, AllowedIsFinal, HoldersReplay, NEW d \in Deciders, Step(d) \/ ChildAnswers(d)
  PROVE  AllowedIsFinal'
<1> USE BoundsAssumption DEF TypeOK, AllowedIsFinal, HoldersReplay, Goto, Drifted, locals, history, Checking, Replaying
<1>1. CASE Attest(d)
  BY <1>1 DEF Attest
<1>2. CASE AskTime(d)
  BY <1>2 DEF AskTime
<1>3. CASE ReceiveTime(d)
  BY <1>3 DEF ReceiveTime
<1>4. CASE Snapshot(d)
  BY <1>4 DEF Snapshot
<1>5. CASE CheckDispatch(d)
  BY <1>5 DEF CheckDispatch, InWindow
<1>6. CASE CheckRecipe(d)
  BY <1>6 DEF CheckRecipe
<1>7. CASE ReadKernel(d)
  BY <1>7 DEF ReadKernel
<1>8. CASE StartChild(d)
  BY <1>8 DEF StartChild
<1>9. CASE Saturated(d)
  BY <1>9 DEF Saturated
<1>10. CASE Collect(d)
  BY <1>10 DEF Collect
<1>11. CASE CutOff(d)
  BY <1>11 DEF CutOff, Expired
<1>12. CASE Release(d)
  BY <1>12 DEF Release
<1>13. CASE Compare(d)
  BY <1>13 DEF Compare, LastCase
<1>14. CASE CheckEvidence(d)
  BY <1>14 DEF CheckEvidence
<1>15. CASE AttestAgain(d)
  BY <1>15 DEF AttestAgain
<1>16. CASE AskTimeAgain(d)
  BY <1>16 DEF AskTimeAgain
<1>17. CASE ReceiveTimeAgain(d)
  BY <1>17 DEF ReceiveTimeAgain
<1>18. CASE SnapshotAgain(d)
  BY <1>18 DEF SnapshotAgain
<1>19. CASE Consume(d)
  BY <1>19 DEF Consume
<1>20. CASE Deny(d)
  BY <1>20 DEF Deny
<1>21. CASE ChildAnswers(d)
  BY <1>21 DEF ChildAnswers
<1> QED
  BY <1>1, <1>2, <1>3, <1>4, <1>5, <1>6, <1>7, <1>8, <1>9, <1>10, <1>11, <1>12, <1>13, <1>14, <1>15, <1>16, <1>17, <1>18, <1>19, <1>20, <1>21 DEF Step, Replay

(* A case is left behind only with its answer. *)
LEMMA AnswerSteps ==
  ASSUME TypeOK, AnswersCounted, HoldersReplay, NEW d \in Deciders, Step(d) \/ ChildAnswers(d)
  PROVE  AnswersCounted'
<1> USE BoundsAssumption DEF TypeOK, AnswersCounted, HoldersReplay, Early, Late, Goto, Drifted, locals, history, Checking, Replaying
<1>1. CASE Attest(d)
  BY <1>1 DEF Attest
<1>2. CASE AskTime(d)
  BY <1>2 DEF AskTime
<1>3. CASE ReceiveTime(d)
  BY <1>3 DEF ReceiveTime
<1>4. CASE Snapshot(d)
  BY <1>4 DEF Snapshot
<1>5. CASE CheckDispatch(d)
  BY <1>5 DEF CheckDispatch, InWindow
<1>6. CASE CheckRecipe(d)
  BY <1>6 DEF CheckRecipe
<1>7. CASE ReadKernel(d)
  BY <1>7 DEF ReadKernel
<1>8. CASE StartChild(d)
  BY <1>8 DEF StartChild
<1>9. CASE Saturated(d)
  BY <1>9 DEF Saturated
<1>10. CASE Collect(d)
  BY <1>10 DEF Collect
<1>11. CASE CutOff(d)
  BY <1>11 DEF CutOff, Expired
<1>12. CASE Release(d)
  BY <1>12 DEF Release
<1>13. CASE Compare(d)
  BY <1>13 DEF Compare, LastCase
<1>14. CASE CheckEvidence(d)
  BY <1>14 DEF CheckEvidence
<1>15. CASE AttestAgain(d)
  BY <1>15 DEF AttestAgain
<1>16. CASE AskTimeAgain(d)
  BY <1>16 DEF AskTimeAgain
<1>17. CASE ReceiveTimeAgain(d)
  BY <1>17 DEF ReceiveTimeAgain
<1>18. CASE SnapshotAgain(d)
  BY <1>18 DEF SnapshotAgain
<1>19. CASE Consume(d)
  BY <1>19 DEF Consume
<1>20. CASE Deny(d)
  BY <1>20 DEF Deny
<1>21. CASE ChildAnswers(d)
  BY <1>21 DEF ChildAnswers
<1> QED
  BY <1>1, <1>2, <1>3, <1>4, <1>5, <1>6, <1>7, <1>8, <1>9, <1>10, <1>11, <1>12, <1>13, <1>14, <1>15, <1>16, <1>17, <1>18, <1>19, <1>20, <1>21 DEF Step, Replay

(* Only a time stamp in the window leads past the dispatch. *)
LEMMA TimeSteps ==
  ASSUME TypeOK, Timed, NEW d \in Deciders, Step(d) \/ ChildAnswers(d)
  PROVE  Timed'
<1> USE BoundsAssumption DEF TypeOK, Timed, Late, Goto, Drifted, locals, history, Checking, Replaying
<1>1. CASE Attest(d)
  BY <1>1 DEF Attest
<1>2. CASE AskTime(d)
  BY <1>2 DEF AskTime
<1>3. CASE ReceiveTime(d)
  BY <1>3 DEF ReceiveTime
<1>4. CASE Snapshot(d)
  BY <1>4 DEF Snapshot
<1>5. CASE CheckDispatch(d)
  BY <1>5 DEF CheckDispatch, InWindow
<1>6. CASE CheckRecipe(d)
  BY <1>6 DEF CheckRecipe
<1>7. CASE ReadKernel(d)
  BY <1>7 DEF ReadKernel
<1>8. CASE StartChild(d)
  BY <1>8 DEF StartChild
<1>9. CASE Saturated(d)
  BY <1>9 DEF Saturated
<1>10. CASE Collect(d)
  BY <1>10 DEF Collect
<1>11. CASE CutOff(d)
  BY <1>11 DEF CutOff, Expired
<1>12. CASE Release(d)
  BY <1>12 DEF Release
<1>13. CASE Compare(d)
  BY <1>13 DEF Compare, LastCase
<1>14. CASE CheckEvidence(d)
  BY <1>14 DEF CheckEvidence
<1>15. CASE AttestAgain(d)
  BY <1>15 DEF AttestAgain
<1>16. CASE AskTimeAgain(d)
  BY <1>16 DEF AskTimeAgain
<1>17. CASE ReceiveTimeAgain(d)
  BY <1>17 DEF ReceiveTimeAgain
<1>18. CASE SnapshotAgain(d)
  BY <1>18 DEF SnapshotAgain
<1>19. CASE Consume(d)
  BY <1>19 DEF Consume
<1>20. CASE Deny(d)
  BY <1>20 DEF Deny
<1>21. CASE ChildAnswers(d)
  BY <1>21 DEF ChildAnswers
<1> QED
  BY <1>1, <1>2, <1>3, <1>4, <1>5, <1>6, <1>7, <1>8, <1>9, <1>10, <1>11, <1>12, <1>13, <1>14, <1>15, <1>16, <1>17, <1>18, <1>19, <1>20, <1>21 DEF Step, Replay

(* The environment moves time and adds drift; nothing else changes. *)
LEMMA EnvironmentSteps ==
  ASSUME IInv, Tick \/ (\E k \in Kinds : Drift(k)) \/ UNCHANGED vars
  PROVE  IInv'
<1> USE BoundsAssumption DEF IInv, locals, history
<1>1. CASE Tick
  <2>1. TypeOK' /\ HoldersReplay' /\ AllowedIsFinal' /\ DisturbedFail'
    BY <1>1 DEF Tick, TypeOK, HoldersReplay, AllowedIsFinal, DisturbedFail
  <2>2. AnswersCounted' /\ Timed'
    BY <1>1 DEF Tick, TypeOK, AnswersCounted, Timed
  <2> QED
    BY <2>1, <2>2
<1>2. ASSUME NEW k \in Kinds, Drift(k)
      PROVE  IInv'
  <2>1. TypeOK' /\ HoldersReplay' /\ AllowedIsFinal'
    BY <1>2 DEF Drift, TypeOK, HoldersReplay, AllowedIsFinal
  <2>2. AnswersCounted' /\ Timed'
    BY <1>2 DEF Drift, AnswersCounted, Timed
  <2>3. DisturbedFail'
    <3>1. \A d \in Deciders : source'[d] => "source" \in drifted'
      BY <1>2 DEF Drift, DisturbedFail
    <3>2. ASSUME NEW d \in Deciders, NEW j \in Kinds, <<d, j>> \in disturbed'
          PROVE  /\ j \in drifted'
                 /\ pc'[d] \in Span(j) \cup {"deny"}
                 /\ j = "source" => ~source'[d]
      <4>1. CASE <<d, j>> \in disturbed
        BY <1>2, <3>2, <4>1 DEF Drift, DisturbedFail
      <4>2. CASE <<d, j>> \notin disturbed
        <5>1. j = k /\ pc[d] \in Span(k)
          BY <1>2, <3>2, <4>2 DEF Drift
        <5>2. j = "source" => ~source[d]
          BY <1>2, <5>1 DEF Drift, Drifted, DisturbedFail
        <5> QED
          BY <1>2, <5>1, <5>2 DEF Drift
      <4> QED
        BY <4>1, <4>2
    <3> QED
      BY <3>1, <3>2 DEF DisturbedFail
  <2> QED
    BY <2>1, <2>2, <2>3
<1>3. CASE UNCHANGED vars
  BY <1>3 DEF vars, TypeOK, HoldersReplay, AllowedIsFinal, DisturbedFail, AnswersCounted, Timed
<1> QED
  BY <1>1, <1>2, <1>3

LEMMA Steps == IInv /\ [Next]_vars => IInv'
<1> SUFFICES ASSUME IInv, [Next]_vars PROVE IInv'
  OBVIOUS
<1>1. ASSUME NEW d \in Deciders, Step(d) \/ ChildAnswers(d)
      PROVE  IInv'
  BY <1>1, TypeSteps, HolderSteps, DriftSteps, AllowSteps, AnswerSteps, TimeSteps DEF IInv
<1> QED
  BY <1>1, EnvironmentSteps DEF Next

LEMMA Invariance == Spec => []IInv
  BY Initially, Steps, PTL DEF Spec

-----------------------------------------------------------------------------
(* Every variable keeps its type, for any deciders, slots and cases.        *)
THEOREM TypeCorrect == Spec => []TypeOK
<1>1. IInv => TypeOK
  BY DEF IInv
<1> QED
  BY <1>1, Invariance, PTL

(* No call is allowed if a validator, the clock, the kernel's file or an    *)
(* artifact changed for good between its two checks of them (decide).       *)
THEOREM DriftIsFatal == Spec => []NoDriftSurvives
<1>1. IInv => NoDriftSurvives
  BY DEF IInv, TypeOK, NoDriftSurvives, DisturbedFail, AllowedIsFinal, Span, Kinds,
         Checking, Replaying
<1> QED
  BY <1>1, Invariance, PTL

(* ALLOW needs a timely answer for every blind case (execute_blind_replay). *)
THEOREM NoCaseSkipped == Spec => []EveryCaseAnswered
<1>1. IInv => EveryCaseAnswered
  BY DEF IInv, TypeOK, EveryCaseAnswered, AnswersCounted, AllowedIsFinal, Late
<1> QED
  BY <1>1, Invariance, PTL

(* Calls that start outside the collection window are denied (decide).      *)
THEOREM WindowChecked == Spec => []AllowedBeganInWindow
<1>1. IInv => AllowedBeganInWindow
  <2> SUFFICES ASSUME IInv, NEW d \in allowed
               PROVE  began[d] <= Closes + Lag /\ Opens <= clock
    BY DEF AllowedBeganInWindow
  <2>1. d \in Deciders /\ pc[d] \in Late
    BY DEF IInv, TypeOK, AllowedIsFinal, Late
  <2>2. began[d] <= now[d] + Lag /\ now[d] <= clock /\ Opens <= now[d] /\ now[d] <= Closes
    BY <2>1 DEF IInv, Timed
  <2>3. clock \in Int /\ began[d] \in Int /\ now[d] \in Int
    BY <2>1, BoundsAssumption DEF IInv, TypeOK
  <2> QED
    BY <2>2, <2>3, BoundsAssumption
<1> QED
  BY <1>1, Invariance, PTL

-----------------------------------------------------------------------------
SlotsBounded == Cardinality(slots) <= MaxSlots

(* Only StartChild takes a slot, and only where one is free.                *)
LEMMA SlotSteps ==
  ASSUME IInv, SlotsBounded, [Next]_vars
  PROVE  SlotsBounded'
<1>1. IsFiniteSet(slots)
  BY FS_Subset, DecidersAssumption DEF IInv, TypeOK
<1>2. CASE slots' \subseteq slots
  <2>1. Cardinality(slots') <= Cardinality(slots)
    BY <1>1, <1>2, FS_Subset
  <2>2. Cardinality(slots) \in Nat /\ Cardinality(slots') \in Nat
    BY <1>1, <1>2, FS_Subset, FS_CardinalityType
  <2> QED
    BY <2>1, <2>2, BoundsAssumption DEF SlotsBounded
<1>3. ASSUME NEW d \in Deciders, StartChild(d)
      PROVE  SlotsBounded'
  <2>1. slots' = slots \cup {d} /\ Cardinality(slots) < MaxSlots
    BY <1>3 DEF StartChild
  <2>2. Cardinality(slots') = IF d \in slots THEN Cardinality(slots) ELSE Cardinality(slots) + 1
    BY <1>1, <2>1, FS_AddElement
  <2> QED
    BY <1>1, <2>1, <2>2, FS_CardinalityType, BoundsAssumption DEF SlotsBounded
<1>4. slots' \subseteq slots \/ \E d \in Deciders : StartChild(d)
  <2>1. ASSUME NEW d \in Deciders, Step(d), ~StartChild(d)
        PROVE  slots' \subseteq slots
    BY <2>1
    DEF Step, Replay, Attest, AskTime, ReceiveTime, Snapshot, CheckDispatch, CheckRecipe,
        ReadKernel, Saturated, Collect, CutOff, Release, Compare, CheckEvidence,
        AttestAgain, AskTimeAgain, ReceiveTimeAgain, SnapshotAgain, Consume, Deny
  <2> QED
    BY <2>1 DEF Next, ChildAnswers, Tick, Drift, vars
<1> QED
  BY <1>2, <1>3, <1>4

(* The slots in use are those of the replays that run, at most MaxSlots,    *)
(* and every living child has one (execute_blind_replay, "finally").        *)
THEOREM FanoutBounded == Spec => []SlotsAccounted
<1>1. Init => SlotsBounded
  BY FS_EmptySet, BoundsAssumption DEF Init, SlotsBounded
<1>2. IInv /\ SlotsBounded => SlotsAccounted
  BY DEF IInv, HoldersReplay, SlotsBounded, SlotsAccounted
<1>3. Spec => []SlotsBounded
  BY <1>1, SlotSteps, Invariance, PTL DEF Spec
<1> QED
  BY <1>2, <1>3, Invariance, PTL
=============================================================================
