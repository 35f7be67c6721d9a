----------------------- MODULE RollbackProtocolProofs -----------------------
(* Theorems about RollbackProtocol, for any gates, stores, heads, forgeries *)
(* and any number of faults.                                                *)
EXTENDS RollbackProtocol, TLAPS

(***************************************************************************)
(* Type correctness.                                                       *)
(***************************************************************************)

(* Entering a phase or leaving the call keeps every gate's locals typed. *)
LEMMA EnterTyped ==
  ASSUME TypeOK, NEW g \in Gates, NEW p \in PCs, Enter(g, p)
  PROVE  /\ pc' \in [Gates -> PCs]
         /\ next' \in [Gates -> 1..(NumStores + 1)]
         /\ \A k \in Gates : next'[k] = NumStores + 1 => pc'[k] \in Reading
         /\ view' \in [Gates -> SUBSET Heads]
BY StoresAssumption DEF TypeOK, Enter

LEMMA LeaveTyped ==
  ASSUME TypeOK, NEW g \in Gates, Leave(g)
  PROVE  /\ pc' \in [Gates -> PCs]
         /\ next' \in [Gates -> 1..(NumStores + 1)]
         /\ \A k \in Gates : next'[k] = NumStores + 1 => pc'[k] \in Reading
         /\ view' \in [Gates -> SUBSET Heads]
         /\ before' \in [Gates -> Heads]
         /\ after' \in [Gates -> Heads]
<1>1. Enter(g, "idle")
  BY DEF Leave
<1>2. "idle" \in PCs
  BY DEF PCs
<1>3. before' \in [Gates -> Heads] /\ after' \in [Gates -> Heads]
  BY HeadsAssumption DEF Leave, TypeOK
<1>4. QED
  BY <1>1, <1>2, <1>3, EnterTyped

(* A loop over the stores stays within the stores. *)
LEMMA ProceedTyped ==
  ASSUME TypeOK, NEW g \in Gates, NEW p \in PCs, next[g] \in Stores, Proceed(g, p)
  PROVE  /\ pc' \in [Gates -> PCs]
         /\ next' \in [Gates -> 1..(NumStores + 1)]
         /\ \A k \in Gates : next'[k] = NumStores + 1 => pc'[k] \in Reading
         /\ view' \in [Gates -> SUBSET Heads]
<1>1. CASE next[g] < NumStores
  <2>1. next' = [next EXCEPT ![g] = @ + 1] /\ UNCHANGED <<pc, view>>
    BY <1>1 DEF Proceed
  <2>2. next[g] + 1 \in 1..NumStores
    BY <1>1, StoresAssumption DEF Stores
  <2>3. \A k \in Gates : next'[k] = IF k = g THEN next[g] + 1 ELSE next[k]
    BY <2>1 DEF TypeOK
  <2>4. \A k \in Gates : next'[k] \in 1..(NumStores + 1)
    BY <2>2, <2>3, StoresAssumption DEF TypeOK
  <2>5. \A k \in Gates : next'[k] = NumStores + 1 => pc'[k] \in Reading
    BY <2>1, <2>2, <2>3, StoresAssumption DEF TypeOK
  <2>6. QED
    BY <2>1, <2>4, <2>5 DEF TypeOK
<1>2. CASE ~(next[g] < NumStores)
  BY <1>2, EnterTyped DEF Proceed
<1>3. QED
  BY <1>1, <1>2

(* Outside the reading phases the index of a loop names a store. *)
LEMMA IndexInStores ==
  ASSUME TypeOK, NEW g \in Gates, pc[g] \notin Reading
  PROVE  next[g] \in Stores
BY StoresAssumption DEF TypeOK, Stores

LEMMA StepTyped == TypeOK /\ [Next]_vars => TypeOK'
<1> SUFFICES ASSUME TypeOK, [Next]_vars
             PROVE  TypeOK'
  OBVIOUS
<1> USE DEF TypeOK
<1>1. ASSUME NEW g \in Gates, Current(g)
      PROVE  TypeOK'
  BY <1>1, EnterTyped DEF Current, PCs, Reading
<1>2. ASSUME NEW g \in Gates, Recover(g)
      PROVE  TypeOK'
  BY <1>2, EnterTyped DEF Recover, PCs
<1>3. ASSUME NEW g \in Gates, NEW b \in Heads, NEW a \in Heads, Commit(g, b, a)
      PROVE  TypeOK'
  BY <1>3, EnterTyped DEF Commit, PCs, Reading
<1>4. ASSUME NEW g \in Gates, ReadStore(g)
      PROVE  TypeOK'
  BY <1>4, StoresAssumption DEF ReadStore, Stores
<1>5. ASSUME NEW g \in Gates, Return(g)
      PROVE  TypeOK'
  BY <1>5, LeaveTyped DEF Return
<1>6. ASSUME NEW g \in Gates, Confirm(g)
      PROVE  TypeOK'
  BY <1>6, LeaveTyped DEF Confirm
<1>7. ASSUME NEW g \in Gates, CheckPassed(g)
      PROVE  TypeOK'
  BY <1>7, EnterTyped DEF CheckPassed, PCs
<1>8. ASSUME NEW g \in Gates, Refuse(g)
      PROVE  TypeOK'
  BY <1>8, LeaveTyped DEF Refuse
<1>9. ASSUME NEW g \in Gates, AdvanceAnchor(g)
      PROVE  TypeOK'
  BY <1>9, EnterTyped, LeaveTyped DEF AdvanceAnchor, PCs
<1>10. ASSUME NEW g \in Gates, FanOut(g)
       PROVE  TypeOK'
  <2>1. next[g] \in Stores
    BY <1>10, IndexInStores DEF FanOut, Reading
  <2>2. store' \in [Stores -> Heads]
    BY <1>10, <2>1 DEF FanOut
  <2>3. QED
    BY <1>10, <2>1, <2>2, ProceedTyped, LeaveTyped DEF FanOut, PCs, Reading
<1>11. ASSUME NEW g \in Gates, Repair(g)
       PROVE  TypeOK'
  <2>1. next[g] \in Stores
    BY <1>11, IndexInStores DEF Repair, Reading
  <2>2. store' \in [Stores -> Heads]
    BY <1>11, <2>1 DEF Repair
  <2>3. QED
    BY <1>11, <2>1, <2>2, ProceedTyped, LeaveTyped DEF Repair, PCs, Reading
<1>12. ASSUME NEW g \in Gates, Crash(g)
       PROVE  TypeOK'
  BY <1>12, LeaveTyped, FaultsAssumption DEF Crash
<1>13. ASSUME NEW s \in Stores, NEW h \in anchored \cup Forgeries, Replace(s, h)
       PROVE  TypeOK'
  BY <1>13, ForgeriesAssumption, FaultsAssumption DEF Replace, gateVars
<1>14. CASE UNCHANGED vars
  BY <1>14 DEF vars, gateVars
<1>15. QED
  BY <1>1, <1>2, <1>3, <1>4, <1>5, <1>6, <1>7, <1>8, <1>9, <1>10, <1>11, <1>12,
     <1>13, <1>14 DEF Next, Step

(* Every variable keeps its type and every loop over the stores stays in    *)
(* range (Gate's loops over self.stores).                                   *)
THEOREM TypeCorrect == Spec => []TypeOK
<1>1. Init => TypeOK
  BY HeadsAssumption, StoresAssumption, FaultsAssumption
     DEF Init, TypeOK, PCs, Stores
<1>2. QED
  BY <1>1, StepTyped, PTL DEF Spec

(***************************************************************************)
(* The anchored heads form one line.                                       *)
(***************************************************************************)

(* Only a successful compare-and-swap touches the anchor and its history. *)
LEMMA AnchorSteps ==
  ASSUME [Next]_vars
  PROVE  \/ UNCHANGED <<anchor, anchored>>
         \/ \E g \in Gates :
              /\ pc[g] = "advance"
              /\ anchor = before[g]
              /\ after[g].size > before[g].size
              /\ anchor' = after[g]
              /\ anchored' = anchored \cup {after[g]}
              /\ pc' = [pc EXCEPT ![g] = "fanout"]
              /\ UNCHANGED <<store, before, after, reported>>
<1>1. ASSUME NEW g \in Gates, AdvanceAnchor(g)
      PROVE  \/ UNCHANGED <<anchor, anchored>>
             \/ /\ pc[g] = "advance"
                /\ anchor = before[g]
                /\ after[g].size > before[g].size
                /\ anchor' = after[g]
                /\ anchored' = anchored \cup {after[g]}
                /\ pc' = [pc EXCEPT ![g] = "fanout"]
                /\ UNCHANGED <<store, before, after, reported>>
  BY <1>1 DEF AdvanceAnchor, Enter
<1>2. ASSUME NEW g \in Gates, Step(g), ~AdvanceAnchor(g)
      PROVE  UNCHANGED <<anchor, anchored>>
  BY <1>2 DEF Step, ReadStore, Return, Confirm, CheckPassed, Refuse, FanOut, Repair
<1>3. ASSUME NEW g \in Gates,
             Current(g) \/ Recover(g) \/ Crash(g) \/ \E b, a \in Heads : Commit(g, b, a)
      PROVE  UNCHANGED <<anchor, anchored>>
  BY <1>3 DEF Current, Recover, Crash, Commit
<1>4. ASSUME NEW s \in Stores, NEW h \in anchored \cup Forgeries, Replace(s, h)
      PROVE  UNCHANGED <<anchor, anchored>>
  BY <1>4 DEF Replace
<1>5. CASE UNCHANGED vars
  BY <1>5 DEF vars
<1>6. QED
  BY <1>1, <1>2, <1>3, <1>4, <1>5 DEF Next

(* However gates interleave, crash or meet tampered stores, the anchor      *)
(* accepts one line of heads and never two siblings (Anchor.cas).           *)
THEOREM NoSiblingHeads == Spec => []AnchoredLinear
<1>1. Init => AnchoredLinear
  BY HeadsAssumption DEF Init, AnchoredLinear
<1>2. TypeOK /\ AnchoredLinear /\ [Next]_vars => AnchoredLinear'
  <2> SUFFICES ASSUME TypeOK, AnchoredLinear, [Next]_vars
               PROVE  AnchoredLinear'
    OBVIOUS
  <2>1. CASE UNCHANGED <<anchor, anchored>>
    BY <2>1 DEF AnchoredLinear
  <2>2. ASSUME NEW g \in Gates,
               anchor = before[g],
               after[g].size > before[g].size,
               anchor' = after[g],
               anchored' = anchored \cup {after[g]}
        PROVE  AnchoredLinear'
    <3>1. \A h \in anchored : h.size < after[g].size /\ h.size \in Nat
      BY <2>2, HeadsAssumption DEF AnchoredLinear, TypeOK
    <3>2. after[g].size \in Nat
      BY HeadsAssumption DEF TypeOK
    <3>3. \A h \in anchored' : h.size <= anchor'.size
      BY <2>2, <3>1, <3>2
    <3>4. \A h, k \in anchored' : h.size = k.size => h = k
      BY <2>2, <3>1, <3>2 DEF AnchoredLinear
    <3>5. QED
      BY <2>2, <3>3, <3>4 DEF AnchoredLinear
  <2>3. QED
    BY <2>1, <2>2, AnchorSteps
<1>3. QED
  BY <1>1, <1>2, TypeCorrect, PTL DEF Spec

(***************************************************************************)
(* Stores never run ahead of the anchor.                                   *)
(***************************************************************************)

(* What a gate is about to write into the stores is already anchored: this  *)
(* is what makes StoresNeverAhead inductive.                                *)
WritesAnchored ==
  \A g \in Gates : pc[g] \in {"fanout", "repair"} => after[g] \in anchored

IInv == StoresNeverAhead /\ WritesAnchored /\ anchor \in anchored

(* Leaving a call or entering a phase that writes nothing keeps the promise. *)
LEMMA QuietPhase ==
  ASSUME TypeOK, WritesAnchored, anchored \subseteq anchored', NEW g \in Gates,
         NEW p \in PCs \ {"fanout", "repair"},
         pc' = [pc EXCEPT ![g] = p],
         \A k \in Gates \ {g} : after'[k] = after[k]
  PROVE  WritesAnchored'
BY DEF WritesAnchored, TypeOK

(* Without forgeries, a store shows only heads the anchor accepted before,  *)
(* at every point of a commit, a crash, a rollback or a repair.             *)
THEOREM AnchorFirst == Forgeries = {} => (Spec => []StoresNeverAhead)
<1> SUFFICES ASSUME Forgeries = {}
             PROVE  Spec => []StoresNeverAhead
  OBVIOUS
<1>1. Init => IInv
  BY DEF Init, IInv, StoresNeverAhead, WritesAnchored
<1>2. TypeOK /\ IInv /\ [Next]_vars => IInv'
  <2> SUFFICES ASSUME TypeOK, IInv, [Next]_vars
               PROVE  IInv'
    OBVIOUS
  <2> USE DEF IInv
  <2>1. ASSUME NEW g \in Gates, Current(g)
        PROVE  IInv'
    BY <2>1, QuietPhase DEF Current, Enter, PCs, Reading, StoresNeverAhead
  <2>2. ASSUME NEW g \in Gates, Recover(g)
        PROVE  IInv'
    BY <2>2 DEF Recover, Enter, StoresNeverAhead, WritesAnchored, TypeOK
  <2>3. ASSUME NEW g \in Gates, NEW b \in Heads, NEW a \in Heads, Commit(g, b, a)
        PROVE  IInv'
    <3>1. \A k \in Gates \ {g} : after'[k] = after[k]
      BY <2>3 DEF Commit, TypeOK
    <3>2. QED
      BY <2>3, <3>1, QuietPhase DEF Commit, Enter, PCs, Reading, StoresNeverAhead
  <2>4. ASSUME NEW g \in Gates, ReadStore(g)
        PROVE  IInv'
    BY <2>4 DEF ReadStore, StoresNeverAhead, WritesAnchored
  <2>5. ASSUME NEW g \in Gates, Leave(g), UNCHANGED <<anchor, store, anchored>>
        PROVE  IInv'
    <3>1. \A k \in Gates \ {g} : after'[k] = after[k]
      BY <2>5 DEF Leave, TypeOK
    <3>2. QED
      BY <2>5, <3>1, QuietPhase DEF Leave, Enter, PCs, StoresNeverAhead
  <2>6. ASSUME NEW g \in Gates, CheckPassed(g)
        PROVE  IInv'
    BY <2>6, QuietPhase DEF CheckPassed, Enter, PCs, StoresNeverAhead
  <2>7. ASSUME NEW g \in Gates, AdvanceAnchor(g)
        PROVE  IInv'
    <3>1. CASE anchor = before[g] /\ after[g].size > before[g].size
      BY <2>7, <3>1 DEF AdvanceAnchor, Enter, StoresNeverAhead, WritesAnchored, TypeOK
    <3>2. CASE ~(anchor = before[g] /\ after[g].size > before[g].size)
      BY <2>7, <3>2, <2>5 DEF AdvanceAnchor
    <3>3. QED
      BY <3>1, <3>2
  <2>8. ASSUME NEW g \in Gates, NEW p \in {"confirm", "current"},
               pc[g] \in {"fanout", "repair"},
               store' = [store EXCEPT ![next[g]] = after[g]], Proceed(g, p),
               UNCHANGED <<anchor, after, anchored>>
        PROVE  IInv'
    <3>1. StoresNeverAhead'
      BY <2>8 DEF StoresNeverAhead, WritesAnchored, TypeOK
    <3>2. WritesAnchored'
      BY <2>8 DEF Proceed, Enter, WritesAnchored, TypeOK
    <3>3. QED
      BY <2>8, <3>1, <3>2
  <2>9. ASSUME NEW g \in Gates, FanOut(g)
        PROVE  IInv'
    BY <2>9, <2>5, <2>8 DEF FanOut
  <2>10. ASSUME NEW g \in Gates, Repair(g)
         PROVE  IInv'
    BY <2>10, <2>5, <2>8 DEF Repair
  <2>11. ASSUME NEW s \in Stores, NEW h \in anchored \cup Forgeries, Replace(s, h)
         PROVE  IInv'
    BY <2>11 DEF Replace, gateVars, StoresNeverAhead, WritesAnchored, TypeOK
  <2>12. CASE UNCHANGED vars
    BY <2>12 DEF vars, gateVars, StoresNeverAhead, WritesAnchored
  <2>13. QED
    BY <2>1, <2>2, <2>3, <2>4, <2>5, <2>6, <2>7, <2>9, <2>10, <2>11, <2>12
       DEF Next, Step, Return, Confirm, Refuse, Crash
<1>3. IInv => StoresNeverAhead
  BY DEF IInv
<1>4. QED
  BY <1>1, <1>2, <1>3, TypeCorrect, PTL DEF Spec

(***************************************************************************)
(* A gate never moves a store backwards.                                   *)
(***************************************************************************)

(* Neither a late compare-and-swap nor a recovery that read the anchor long *)
(* ago makes a store smaller (Store.cas, Store.recover_to_anchor).          *)
THEOREM OnlyReplacementRollsBack == Spec => GatesNeverRollBack
<1>1. ASSUME TypeOK, [Next]_vars, NEW g \in Gates, Step(g), NEW s \in Stores
      PROVE  store'[s].size >= store[s].size
  <2>1. \A h \in Heads : h.size \in Nat
    BY HeadsAssumption
  <2>2. CASE store' = store
    BY <1>1, <2>1, <2>2 DEF TypeOK
  <2>3. CASE FanOut(g) /\ store' # store
    <3>1. store[next[g]] = before[g] /\ after[g].size > before[g].size
      BY <2>3 DEF FanOut
    <3>2. store' = [store EXCEPT ![next[g]] = after[g]]
      BY <2>3 DEF FanOut
    <3>3. QED
      BY <1>1, <2>1, <3>1, <3>2 DEF TypeOK
  <2>4. CASE Repair(g) /\ store' # store
    <3>1. ~Conflicting(next[g], after[g])
      BY <2>4 DEF Repair
    <3>2. store' = [store EXCEPT ![next[g]] = after[g]]
      BY <2>4 DEF Repair
    <3>3. next[g] \in Stores
      BY <1>1, <2>4, IndexInStores DEF Repair, Reading
    <3>4. after[g].size >= store[next[g]].size
      BY <1>1, <2>1, <3>1, <3>3 DEF Conflicting, TypeOK
    <3>5. QED
      BY <1>1, <2>1, <3>2, <3>3, <3>4 DEF TypeOK
  <2>5. QED
    BY <1>1, <2>2, <2>3, <2>4
       DEF Step, ReadStore, Return, Confirm, CheckPassed, Refuse, AdvanceAnchor
<1>2. TypeOK /\ [Next]_vars =>
        [(\E g \in Gates : Step(g)) =>
           \A s \in Stores : store'[s].size >= store[s].size]_vars
  BY <1>1
<1>3. QED
  BY <1>2, TypeCorrect, PTL DEF Spec, GatesNeverRollBack

(***************************************************************************)
(* The gates implement one linear head.                                    *)
(***************************************************************************)

(* A read that is unanimous with the anchor reports the anchor's own head. *)
LEMMA ReportsAnchor ==
  ASSUME NEW g \in Gates, NEW h, Unanimous(g, h)
  PROVE  h = anchor
BY DEF Unanimous

(* Every step of the gates, of a crash or of a store replacement is an      *)
(* advance of one linear head, a report of it, or invisible to callers,     *)
(* even when the stores show forged heads (module docstring, step 4).       *)
THEOREM Refinement == Spec => ImplementsLinearHead
<1>1. Init => LH!Init
  BY DEF Init, LH!Init
<1>2. TypeOK /\ [Next]_vars => [LH!Next]_(LH!vars)
  <2> SUFFICES ASSUME TypeOK, [Next]_vars
               PROVE  [LH!Next]_(LH!vars)
    OBVIOUS
  <2> USE DEF LH!Next, LH!vars, LH!Report, LH!Advance
  <2>1. ASSUME NEW g \in Gates, Return(g)
        PROVE  LH!Report
    BY <2>1, ReportsAnchor DEF Return
  <2>2. ASSUME NEW g \in Gates, Confirm(g)
        PROVE  LH!Report
    BY <2>2, ReportsAnchor DEF Confirm
  <2>3. ASSUME NEW g \in Gates, AdvanceAnchor(g), anchor' # anchor
        PROVE  LH!Advance
    BY <2>3 DEF AdvanceAnchor, TypeOK
  <2>4. ASSUME NEW g \in Gates, Step(g), ~Return(g), ~Confirm(g), ~AdvanceAnchor(g)
        PROVE  UNCHANGED <<anchor, reported>>
    BY <2>4 DEF Step, ReadStore, CheckPassed, Refuse, FanOut, Repair
  <2>5. ASSUME NEW g \in Gates, AdvanceAnchor(g), anchor' = anchor
        PROVE  UNCHANGED <<anchor, reported>>
    BY <2>5 DEF AdvanceAnchor
  <2>6. ASSUME NEW g \in Gates,
               Current(g) \/ Recover(g) \/ Crash(g) \/ \E b, a \in Heads : Commit(g, b, a)
        PROVE  UNCHANGED <<anchor, reported>>
    BY <2>6 DEF Current, Recover, Crash, Commit
  <2>7. ASSUME NEW s \in Stores, NEW h \in anchored \cup Forgeries, Replace(s, h)
        PROVE  UNCHANGED <<anchor, reported>>
    BY <2>7 DEF Replace
  <2>8. CASE UNCHANGED vars
    BY <2>8 DEF vars
  <2>9. QED
    BY <2>1, <2>2, <2>3, <2>4, <2>5, <2>6, <2>7, <2>8 DEF Next
<1>3. QED
  BY <1>1, <1>2, TypeCorrect, PTL DEF Spec, ImplementsLinearHead, LH!Spec
=============================================================================
