----------------------- MODULE CheckpointMonitorProofs -----------------------
(***************************************************************************)
(* Proofs about CheckpointMonitor for any number of processes, any heads   *)
(* and receipts and any number of power losses.                            *)
(*                                                                         *)
(* The inductive invariant: the lock excludes; what a writer has read is   *)
(* still the present head; the head on disk is the present one or a        *)
(* smaller one; and every receipt accepted so far ends at or before the    *)
(* head the present writer starts from.                                    *)
(***************************************************************************)
EXTENDS CheckpointMonitor, TLAPS

Installing == {"written", "replace", "replaced", "return"}

Files ==
  /\ entry.synced /\ disk.synced
  /\ disk.head = entry.head \/ disk.head.size < entry.head.size

Writer(p) ==
  /\ pc[p] # "idle" => receipt[p] \in Receipts
  /\ pc[p] \in {"verify", "written", "replace"} => trusted[p] = entry.head
  /\ pc[p] \in Installing =>
       receipt[p].prior = trusted[p] /\ receipt[p].head.size > trusted[p].size
  /\ pc[p] = "replace" => synced[p]
  /\ pc[p] \in {"replaced", "return"} => receipt[p].head = entry.head
  /\ pc[p] = "return" => disk.head = entry.head
  /\ pc[p] \in Installing => \A a \in accepted : a.head.size <= receipt[p].prior.size

Accepted ==
  \A a \in accepted : a.prior.size < a.head.size /\ a.head.size <= disk.head.size

IInv ==
  /\ Files
  /\ \A p \in Procs : Writer(p)
  /\ Accepted
  /\ NoSiblings

-----------------------------------------------------------------------------
LEMMA InitInv == Init => TypeOK /\ IInv
  BY HeadsAssumption, OutagesAssumption
     DEF Init, File, NoReceipt, TypeOK, Critical, IInv, Files, Writer, Installing, Accepted,
         NoSiblings

(* What Goto does to the program counters. *)
LEMMA GotoMoves ==
  ASSUME TypeOK, NEW p \in Procs, NEW label, Goto(p, label)
  PROVE  pc'[p] = label /\ \A q \in Procs : q # p => pc'[q] = pc[q]
  BY DEF Goto, TypeOK

(* A writer in its critical section excludes every other. *)
LEMMA Exclusion ==
  ASSUME TypeOK, NEW p \in Procs, NEW q \in Procs, pc[p] \in Critical, q # p
  PROVE  pc[q] \in {"idle", "acquire"}
  BY DEF TypeOK, Critical

(* A process outside its critical section only depends on its own call. *)
LEMMA OutsiderKeeps ==
  ASSUME TypeOK, NEW q \in Procs, Writer(q), pc[q] \in {"idle", "acquire"},
         pc'[q] = pc[q], receipt'[q] = receipt[q]
  PROVE  Writer(q)'
  BY DEF Writer, Installing

-----------------------------------------------------------------------------
LEMMA LeaveTyped ==
  ASSUME TypeOK, NEW p \in Procs, Leave(p)
  PROVE  /\ lock' \in Procs \cup {NoProc}
         /\ pc' \in [Procs -> {"idle", "acquire"} \cup Critical]
         /\ \A q \in Procs : pc'[q] \in Critical => lock' = q
         /\ receipt' \in [Procs -> [prior : Heads, head : Heads]]
         /\ trusted' \in [Procs -> Heads]
         /\ synced' \in [Procs -> BOOLEAN]
<1>1. pc'[p] = "idle" /\ \A q \in Procs : q # p => pc'[q] = pc[q]
  BY GotoMoves DEF Leave
<1>2. \A q \in Procs : pc'[q] \in Critical => lock' = q
  BY <1>1 DEF Leave, TypeOK, Critical
<1>3. QED
  BY <1>2, HeadsAssumption DEF Leave, Goto, NoReceipt, TypeOK

LEMMA StepTyped ==
  ASSUME TypeOK, IInv, NEW p \in Procs, Step(p)
  PROVE  TypeOK'
<1> USE HeadsAssumption, ReceiptsAssumption
<1>1. CASE Acquire(p)
  <2>1. \A q \in Procs : q # p => pc'[q] = pc[q] /\ pc[q] \notin Critical
    BY <1>1, GotoMoves, NoProcAssumption DEF Acquire, TypeOK
  <2>2. QED
    BY <1>1, <2>1 DEF Acquire, Goto, TypeOK, Critical
<1>2. CASE Read(p)
  BY <1>2 DEF Read, Goto, TypeOK, Critical
<1>3. CASE WriteTemporary(p)
  BY <1>3 DEF WriteTemporary, Goto, TypeOK, Critical
<1>4. CASE SyncTemporary(p)
  BY <1>4 DEF SyncTemporary, Goto, TypeOK, Critical
<1>5. CASE Replace(p)
  BY <1>5 DEF Replace, File, Goto, TypeOK, Critical
<1>6. CASE SyncDirectory(p)
  BY <1>6 DEF SyncDirectory, Goto, TypeOK, Critical
<1>7. CASE Return(p)
  <2>1. receipt[p] \in Receipts
    BY <1>7 DEF Return, IInv, Writer
  <2>2. QED
    BY <1>7, <2>1, LeaveTyped DEF Return, TypeOK
<1>8. CASE Abort(p)
  BY <1>8, LeaveTyped DEF Abort, TypeOK
<1>9. QED
  BY <1>1, <1>2, <1>3, <1>4, <1>5, <1>6, <1>7, <1>8 DEF Step

LEMMA NextTyped ==
  ASSUME TypeOK, IInv, [Next]_vars
  PROVE  TypeOK'
<1>1. ASSUME NEW p \in Procs, Current(p) PROVE TypeOK'
  BY <1>1 DEF Current, TypeOK
<1>2. ASSUME NEW p \in Procs, NEW r \in Receipts, Advance(p, r) PROVE TypeOK'
  BY <1>2, ReceiptsAssumption DEF Advance, Goto, TypeOK, Critical
<1>3. ASSUME NEW p \in Procs, Step(p) PROVE TypeOK'
  BY <1>3, StepTyped
<1>4. CASE WriteBack
  BY <1>4 DEF WriteBack, TypeOK
<1>5. CASE PowerLoss
  BY <1>5, HeadsAssumption, OutagesAssumption
     DEF PowerLoss, Unreadable, File, NoReceipt, TypeOK, Critical
<1>6. CASE UNCHANGED vars
  BY <1>6 DEF vars, TypeOK
<1>7. QED
  BY <1>1, <1>2, <1>3, <1>4, <1>5, <1>6 DEF Next

-----------------------------------------------------------------------------
(* Leaving breaks nothing: what the process knew is forgotten. *)
LEMMA LeaveKeeps ==
  ASSUME TypeOK, IInv, NEW p \in Procs, Leave(p), UNCHANGED <<entry, disk>>,
         accepted' = accepted \/ pc[p] \in Critical
  PROVE  \A q \in Procs : Writer(q)'
<1>1. /\ pc'[p] = "idle"
      /\ \A q \in Procs : q # p =>
           /\ pc'[q] = pc[q] /\ receipt'[q] = receipt[q]
           /\ trusted'[q] = trusted[q] /\ synced'[q] = synced[q]
  BY GotoMoves DEF Leave, TypeOK
<1>2. Writer(p)'
  BY <1>1 DEF Writer, Installing
<1>3. ASSUME NEW q \in Procs, q # p PROVE Writer(q)'
  <2>1. CASE accepted' = accepted
    BY <1>1, <1>3, <2>1 DEF IInv, Writer, Installing
  <2>2. CASE pc[p] \in Critical
    BY <1>1, <1>3, <2>2, Exclusion, OutsiderKeeps DEF IInv
  <2>3. QED
    BY <2>1, <2>2
<1>4. QED
  BY <1>2, <1>3

LEMMA StepKeeps ==
  ASSUME TypeOK, IInv, NEW p \in Procs, Step(p)
  PROVE  IInv'
<1> USE HeadsAssumption, ReceiptsAssumption
<1>1. CASE Acquire(p)
  <2>1. pc[p] = "acquire" /\ pc'[p] = "read" /\ \A q \in Procs : q # p => pc'[q] = pc[q]
    BY <1>1, GotoMoves DEF Acquire
  <2>2. \A q \in Procs : Writer(q)'
    BY <1>1, <2>1 DEF Acquire, IInv, Writer, Installing
  <2>3. QED
    BY <1>1, <2>2 DEF Acquire, IInv, Files, Accepted, NoSiblings
<1>2. CASE Read(p)
  <2>1. pc[p] = "read" /\ pc'[p] = "verify" /\ \A q \in Procs : q # p => pc'[q] = pc[q]
    BY <1>2, GotoMoves DEF Read
  <2>2. trusted'[p] = entry.head /\ UNCHANGED <<entry, disk, receipt, synced, accepted>>
    BY <1>2 DEF Read, TypeOK
  <2>3. Writer(p)'
    BY <2>1, <2>2 DEF IInv, Writer, Installing
  <2>4. \A q \in Procs : q # p => Writer(q)'
    BY <2>1, <2>2, Exclusion, OutsiderKeeps DEF IInv, Critical
  <2>5. QED
    BY <2>2, <2>3, <2>4 DEF IInv, Files, Accepted, NoSiblings
<1>3. CASE WriteTemporary(p)
  <2>1. pc[p] = "verify" /\ pc'[p] = "written" /\ \A q \in Procs : q # p => pc'[q] = pc[q]
    BY <1>3, GotoMoves DEF WriteTemporary
  <2>2. /\ receipt[p].prior = entry.head /\ trusted[p] = entry.head
        /\ receipt[p].head.size > trusted[p].size
        /\ UNCHANGED <<entry, disk, receipt, trusted, synced, accepted>>
    BY <1>3, <2>1 DEF WriteTemporary, IInv, Writer
  <2>3. \A a \in accepted : a.head.size <= entry.head.size
    <3>1. ASSUME NEW a \in accepted PROVE a.head.size <= entry.head.size
      <4>1. a.head.size \in Nat /\ disk.head.size \in Nat /\ entry.head.size \in Nat
        BY DEF TypeOK
      <4>2. a.head.size <= disk.head.size /\ disk.head.size <= entry.head.size
        BY <4>1 DEF IInv, Accepted, Files
      <4>3. QED
        BY <4>1, <4>2
    <3>2. QED
      BY <3>1
  <2>4. Writer(p)'
    BY <2>1, <2>2, <2>3 DEF IInv, Writer, Installing
  <2>5. \A q \in Procs : q # p => Writer(q)'
    BY <2>1, <2>2, Exclusion, OutsiderKeeps DEF IInv, Critical
  <2>6. QED
    BY <2>2, <2>4, <2>5 DEF IInv, Files, Accepted, NoSiblings
<1>4. CASE SyncTemporary(p)
  <2>1. pc[p] = "written" /\ pc'[p] = "replace" /\ \A q \in Procs : q # p => pc'[q] = pc[q]
    BY <1>4, GotoMoves DEF SyncTemporary
  <2>2. synced'[p] /\ UNCHANGED <<entry, disk, receipt, trusted, accepted>>
    BY <1>4 DEF SyncTemporary, TypeOK
  <2>3. Writer(p)'
    BY <2>1, <2>2 DEF IInv, Writer, Installing
  <2>4. \A q \in Procs : q # p => Writer(q)'
    BY <2>1, <2>2, Exclusion, OutsiderKeeps DEF IInv, Critical
  <2>5. QED
    BY <2>2, <2>3, <2>4 DEF IInv, Files, Accepted, NoSiblings
<1>5. CASE Replace(p)
  <2>1. pc[p] = "replace" /\ pc'[p] = "replaced" /\ \A q \in Procs : q # p => pc'[q] = pc[q]
    BY <1>5, GotoMoves DEF Replace
  <2>2. /\ entry'.head = receipt[p].head /\ entry'.synced = synced[p]
        /\ UNCHANGED <<disk, receipt, trusted, synced, accepted>>
    BY <1>5 DEF Replace, File
  <2>3. synced[p] /\ trusted[p] = entry.head /\ receipt[p].head.size > entry.head.size
    BY <2>1 DEF IInv, Writer, Installing
  <2>4. Files'
    <3>1. /\ disk.head.size \in Nat /\ entry.head.size \in Nat
          /\ receipt[p].head.size \in Nat
      BY DEF TypeOK
    <3>2. disk.head.size < receipt[p].head.size
      BY <2>3, <3>1 DEF IInv, Files
    <3>3. QED
      BY <2>2, <2>3, <3>2 DEF IInv, Files
  <2>5. Writer(p)'
    BY <2>1, <2>2 DEF IInv, Writer, Installing
  <2>6. \A q \in Procs : q # p => Writer(q)'
    BY <2>1, <2>2, Exclusion, OutsiderKeeps DEF IInv, Critical
  <2>7. QED
    BY <2>2, <2>4, <2>5, <2>6 DEF IInv, Accepted, NoSiblings
<1>6. CASE SyncDirectory(p)
  <2>1. pc[p] = "replaced" /\ pc'[p] = "return" /\ \A q \in Procs : q # p => pc'[q] = pc[q]
    BY <1>6, GotoMoves DEF SyncDirectory
  <2>2. disk' = entry /\ UNCHANGED <<entry, receipt, trusted, synced, accepted>>
    BY <1>6 DEF SyncDirectory
  <2>3. Accepted'
    <3>1. ASSUME NEW a \in accepted PROVE a.head.size <= entry.head.size
      <4>1. a.head.size \in Nat /\ disk.head.size \in Nat /\ entry.head.size \in Nat
        BY DEF TypeOK
      <4>2. QED
        BY <4>1 DEF IInv, Accepted, Files
    <3>2. QED
      BY <2>2, <3>1 DEF IInv, Accepted
  <2>4. Writer(p)'
    BY <2>1, <2>2 DEF IInv, Writer, Installing
  <2>5. \A q \in Procs : q # p => Writer(q)'
    BY <2>1, <2>2, Exclusion, OutsiderKeeps DEF IInv, Critical
  <2>6. QED
    BY <2>2, <2>3, <2>4, <2>5 DEF IInv, Files, NoSiblings
<1>7. CASE Return(p)
  <2>1. /\ pc[p] = "return" /\ Leave(p) /\ accepted' = accepted \cup {receipt[p]}
        /\ UNCHANGED <<entry, disk>>
    BY <1>7 DEF Return
  <2>2. /\ receipt[p].prior = trusted[p] /\ receipt[p].head.size > trusted[p].size
        /\ receipt[p].head = entry.head /\ disk.head = entry.head
        /\ \A a \in accepted : a.head.size <= receipt[p].prior.size
    BY <2>1 DEF IInv, Writer, Installing
  <2>3. \A q \in Procs : Writer(q)'
    BY <2>1, LeaveKeeps DEF Critical
  <2>4. Accepted'
    BY <2>1, <2>2 DEF IInv, Accepted, TypeOK
  <2>5. NoSiblings'
    <3>1. ASSUME NEW a \in accepted PROVE a.prior # receipt[p].prior
      <4>1. a.prior.size \in Nat /\ a.head.size \in Nat /\ receipt[p].prior.size \in Nat
        BY DEF TypeOK
      <4>2. a.prior.size < a.head.size /\ a.head.size <= receipt[p].prior.size
        BY <2>2 DEF IInv, Accepted
      <4>3. QED
        BY <4>1, <4>2
    <3>2. QED
      BY <2>1, <3>1 DEF IInv, NoSiblings
  <2>6. QED
    BY <2>1, <2>3, <2>4, <2>5 DEF IInv, Files
<1>8. CASE Abort(p)
  <2>1. Leave(p) /\ UNCHANGED <<entry, disk, accepted>>
    BY <1>8 DEF Abort
  <2>2. \A q \in Procs : Writer(q)'
    BY <2>1, LeaveKeeps
  <2>3. QED
    BY <2>1, <2>2 DEF IInv, Files, Accepted, NoSiblings
<1>9. QED
  BY <1>1, <1>2, <1>3, <1>4, <1>5, <1>6, <1>7, <1>8 DEF Step

LEMMA NextKeeps ==
  ASSUME TypeOK, IInv, [Next]_vars
  PROVE  IInv'
<1>1. ASSUME NEW p \in Procs, Current(p) PROVE IInv'
  BY <1>1 DEF Current, IInv, Files, Writer, Accepted, NoSiblings
<1>2. ASSUME NEW p \in Procs, NEW r \in Receipts, Advance(p, r) PROVE IInv'
  <2>1. /\ pc'[p] = "acquire" /\ receipt'[p] = r
        /\ \A q \in Procs : q # p => pc'[q] = pc[q] /\ receipt'[q] = receipt[q]
        /\ UNCHANGED <<entry, disk, trusted, synced, accepted>>
    BY <1>2, GotoMoves DEF Advance, TypeOK
  <2>2. \A q \in Procs : Writer(q)'
    BY <2>1 DEF IInv, Writer, Installing
  <2>3. QED
    BY <2>1, <2>2 DEF IInv, Files, Accepted, NoSiblings
<1>3. ASSUME NEW p \in Procs, Step(p) PROVE IInv'
  BY <1>3, StepKeeps
<1>4. CASE WriteBack
  <2>1. disk' = entry /\ UNCHANGED <<entry, pc, receipt, trusted, synced, accepted>>
    BY <1>4 DEF WriteBack
  <2>2. ASSUME NEW a \in accepted PROVE a.head.size <= entry.head.size
    <3>1. a.head.size \in Nat /\ disk.head.size \in Nat /\ entry.head.size \in Nat
      BY HeadsAssumption, ReceiptsAssumption DEF TypeOK
    <3>2. QED
      BY <3>1 DEF IInv, Accepted, Files
  <2>3. QED
    BY <2>1, <2>2 DEF IInv, Files, Writer, Accepted, NoSiblings
<1>5. CASE PowerLoss
  <2>1. entry' = disk /\ disk' = disk /\ accepted' = accepted /\ \A p \in Procs : pc'[p] = "idle"
    BY <1>5 DEF PowerLoss, IInv, Files
  <2>2. QED
    BY <2>1 DEF IInv, Files, Writer, Installing, Accepted, NoSiblings
<1>6. CASE UNCHANGED vars
  BY <1>6 DEF vars, IInv, Files, Writer, Accepted, NoSiblings
<1>7. QED
  BY <1>1, <1>2, <1>3, <1>4, <1>5, <1>6 DEF Next

LEMMA Invariant == Spec => [](TypeOK /\ IInv)
  BY InitInv, NextTyped, NextKeeps, PTL DEF Spec

(* TypeOK: in particular the writers exclude each other. *)
THEOREM TypeCorrect == Spec => []TypeOK
  BY Invariant, PTL

(* NoSiblings: "Competing siblings therefore cannot both commit". *)
THEOREM SiblingsExcluded == Spec => []NoSiblings
<1>1. IInv => NoSiblings
  BY DEF IInv
<1>2. QED
  BY <1>1, Invariant, PTL

(* AlwaysReadable: no power loss leaves a checkpoint that cannot be read. *)
THEOREM ReplacementIsAtomic == Spec => []AlwaysReadable
<1>1. IInv => AlwaysReadable
  BY DEF IInv, Files, AlwaysReadable, Unreadable, File
<1>2. QED
  BY <1>1, Invariant, PTL

(* ImplementsLinearHead: the head on disk is one linear head, and advance   *)
(* returns only what is on disk.                                            *)
THEOREM Refinement == Spec => ImplementsLinearHead
<1>1. Init => LH!Init
  BY DEF Init, File, LH!Init
<1>2. ASSUME TypeOK, IInv, [Next]_vars PROVE [LH!Next]_LH!vars
  <2>1. CASE disk' = entry /\ reported' = reported
    <3>1. disk.head = entry.head \/ disk.head.size < entry.head.size
      BY <1>2 DEF IInv, Files
    <3>2. entry.head \in Heads /\ disk.head \in Heads
      BY <1>2 DEF TypeOK
    <3>3. QED
      BY <2>1, <3>1, <3>2, HeadsAssumption DEF LH!Next, LH!Advance, LH!vars
  <2>2. CASE disk' = disk /\ reported' = reported
    BY <2>2 DEF LH!vars
  <2>3. ASSUME NEW p \in Procs, Return(p) PROVE LH!Report
    BY <1>2, <2>3 DEF Return, IInv, Writer, LH!Report
  <2>4. CASE PowerLoss
    BY <1>2, <2>2, <2>4 DEF PowerLoss, IInv, Files
  <2>5. ASSUME NEW p \in Procs, Step(p) PROVE [LH!Next]_LH!vars
    BY <2>1, <2>2, <2>3, <2>5
       DEF Step, Acquire, Read, WriteTemporary, SyncTemporary, Replace, SyncDirectory, Abort,
           LH!Next
  <2>6. QED
    BY <1>2, <2>1, <2>2, <2>4, <2>5 DEF Next, Current, Advance, WriteBack, vars
<1>3. QED
  BY <1>1, <1>2, Invariant, PTL DEF Spec, ImplementsLinearHead, LH!Spec
=============================================================================
