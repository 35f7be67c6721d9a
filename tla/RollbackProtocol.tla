-------------------------- MODULE RollbackProtocol --------------------------
(***************************************************************************)
(* rollback_protocol.py: an anchor that cannot be rolled back, checkpoint  *)
(* stores that can, and gates that read, commit and recover across them.   *)
(*                                                                         *)
(* The anchor and each store are separate services, so one access to one   *)
(* of them is one step; several gates (siblings, restarted processes)      *)
(* interleave between accesses.  A gate may die at any step.  A store may  *)
(* be replaced by an older snapshot or by a head of Forgeries.             *)
(***************************************************************************)
EXTENDS Naturals, FiniteSets

CONSTANTS
  Gates,      \* processes that hold a Gate object
  NumStores,  \* len(stores)
  Heads,      \* the heads in play: records with a field "size"
  Genesis,    \* the head every store and the anchor start with
  Forgeries,  \* heads a tampered store may show besides genuine old ones
  MaxFaults   \* bound on crashes plus store replacements

ASSUME HeadsAssumption == Genesis \in Heads /\ \A h \in Heads : h.size \in Nat
ASSUME StoresAssumption == NumStores \in Nat /\ NumStores >= 2
ASSUME ForgeriesAssumption == Forgeries \subseteq Heads
ASSUME FaultsAssumption == MaxFaults \in Nat

VARIABLES
  anchor,    \* Anchor._head
  store,     \* store[s] is the head of the s-th checkpoint store
  pc,        \* where each gate is in current, commit or recover
  before,    \* commit's argument
  after,     \* commit's argument, or the anchor head recover has read
  next,      \* the store the gate's loop visits next
  view,      \* the heads current() has collected so far
  reported,  \* the head last returned by current or recover, or confirmed by commit
  anchored,  \* history: every head the anchor ever held
  faults     \* crashes and replacements so far

gateVars == <<pc, before, after, next, view>>
vars == <<anchor, store, gateVars, reported, anchored, faults>>

Stores == 1..NumStores
Reading == {"check", "confirm", "current"}
PCs == Reading \cup {"idle", "advance", "fanout", "repair"}

Init ==
  /\ anchor = Genesis
  /\ store = [s \in Stores |-> Genesis]
  /\ pc = [g \in Gates |-> "idle"]
  /\ before = [g \in Gates |-> Genesis]
  /\ after = [g \in Gates |-> Genesis]
  /\ next = [g \in Gates |-> 1]
  /\ view = [g \in Gates |-> {}]
  /\ reported = Genesis
  /\ anchored = {Genesis}
  /\ faults = 0

(* Broken variant: the loop index of the previous phase is kept. *)
EnterWithoutReset(g, p) ==
  /\ pc' = [pc EXCEPT ![g] = p]
  /\ view' = [view EXCEPT ![g] = {}]
  /\ UNCHANGED next

(* Begin the loop over the stores of the phase p. *)
Enter(g, p) ==
  /\ pc' = [pc EXCEPT ![g] = p]
  /\ next' = [next EXCEPT ![g] = 1]
  /\ view' = [view EXCEPT ![g] = {}]

(* The call returned, raised or died: its locals are gone. *)
Leave(g) ==
  /\ Enter(g, "idle")
  /\ before' = [before EXCEPT ![g] = Genesis]
  /\ after' = [after EXCEPT ![g] = Genesis]

(* Broken variant: the loop ends one store early. *)
ProceedShort(g, p) ==
  IF next[g] < NumStores - 1
  THEN next' = [next EXCEPT ![g] = @ + 1] /\ UNCHANGED <<pc, view>>
  ELSE Enter(g, p)

(* After the s-th store of a loop: the next store, or the phase p. *)
Proceed(g, p) ==
  IF next[g] < NumStores
  THEN next' = [next EXCEPT ![g] = @ + 1] /\ UNCHANGED <<pc, view>>
  ELSE Enter(g, p)

-----------------------------------------------------------------------------
(* The public operations of Gate. *)

Current(g) ==
  /\ pc[g] = "idle"
  /\ Enter(g, "current")
  /\ UNCHANGED <<anchor, store, before, after, reported, anchored, faults>>

Commit(g, b, a) ==
  /\ pc[g] = "idle"
  /\ Enter(g, "check")
  /\ before' = [before EXCEPT ![g] = b]
  /\ after' = [after EXCEPT ![g] = a]
  /\ UNCHANGED <<anchor, store, reported, anchored, faults>>

(* recover reads the anchor before it touches any store. *)
Recover(g) ==
  /\ pc[g] = "idle"
  /\ Enter(g, "repair")
  /\ after' = [after EXCEPT ![g] = anchor]
  /\ UNCHANGED <<anchor, store, before, reported, anchored, faults>>

-----------------------------------------------------------------------------
(* current(): collect every store's head, then the anchor's. *)

ReadStore(g) ==
  /\ pc[g] \in Reading
  /\ next[g] \in Stores
  /\ view' = [view EXCEPT ![g] = @ \cup {store[next[g]]}]
  /\ next' = [next EXCEPT ![g] = @ + 1]
  /\ UNCHANGED <<anchor, store, pc, before, after, reported, anchored, faults>>

ReadAnchor(g) == pc[g] \in Reading /\ next[g] = NumStores + 1

(* Broken variant: the anchor's head is not compared. *)
UnanimousStores(g, h) == view[g] = {h}

(* len(set(heads)) == 1 and heads[0] == h, the anchor being the last head read. *)
Unanimous(g, h) == view[g] \cup {anchor} = {h}

(* current() or recover() returns a head to its caller. *)
Return(g) ==
  /\ ReadAnchor(g)
  /\ pc[g] = "current"
  /\ \E h \in Heads : Unanimous(g, h) /\ reported' = h
  /\ Leave(g)
  /\ UNCHANGED <<anchor, store, anchored, faults>>

(* commit() returns: every store and the anchor showed the new head. *)
Confirm(g) ==
  /\ ReadAnchor(g)
  /\ pc[g] = "confirm"
  /\ Unanimous(g, after[g])
  /\ reported' = after[g]
  /\ Leave(g)
  /\ UNCHANGED <<anchor, store, anchored, faults>>

(* commit() may go on to the anchor. *)
CheckPassed(g) ==
  /\ ReadAnchor(g)
  /\ pc[g] = "check"
  /\ Unanimous(g, before[g])
  /\ after[g].size > before[g].size
  /\ Enter(g, "advance")
  /\ UNCHANGED <<anchor, store, before, after, reported, anchored, faults>>

(* Reject: a split view, a head that is not the one asked for, no successor. *)
Refuse(g) ==
  /\ ReadAnchor(g)
  /\ CASE pc[g] = "current" -> \A h \in Heads : ~Unanimous(g, h)
       [] pc[g] = "confirm" -> ~Unanimous(g, after[g])
       [] pc[g] = "check" -> ~ /\ Unanimous(g, before[g])
                               /\ after[g].size > before[g].size
  /\ Leave(g)
  /\ UNCHANGED <<anchor, store, reported, anchored, faults>>

-----------------------------------------------------------------------------
(* The compare-and-swaps of commit and the repairs of recover. *)

(* Broken variant: the anchor is set, not compared and set. *)
AdvanceAnchorBlindly(g) ==
  /\ pc[g] = "advance"
  /\ anchor' = after[g]
  /\ anchored' = anchored \cup {after[g]}
  /\ Enter(g, "fanout")
  /\ UNCHANGED <<store, before, after, reported, faults>>

(* Broken variant: a refused compare-and-swap of the anchor is ignored. *)
AdvanceAnchorIgnored(g) ==
  /\ pc[g] = "advance"
  /\ Enter(g, "fanout")
  /\ IF anchor = before[g] /\ after[g].size > before[g].size
     THEN /\ anchor' = after[g]
          /\ anchored' = anchored \cup {after[g]}
     ELSE UNCHANGED <<anchor, anchored>>
  /\ UNCHANGED <<store, before, after, reported, faults>>

AdvanceAnchor(g) ==
  /\ pc[g] = "advance"
  /\ IF anchor = before[g] /\ after[g].size > before[g].size
     THEN /\ anchor' = after[g]
          /\ anchored' = anchored \cup {after[g]}
          /\ Enter(g, "fanout")
          /\ UNCHANGED <<before, after>>
     ELSE Leave(g) /\ UNCHANGED <<anchor, anchored>>
  /\ UNCHANGED <<store, reported, faults>>

(* Broken variant: a store takes any successor of the caller's old head. *)
FanOutBlindly(g) ==
  /\ pc[g] = "fanout"
  /\ IF after[g].size > before[g].size
     THEN /\ store' = [store EXCEPT ![next[g]] = after[g]]
          /\ Proceed(g, "confirm")
          /\ UNCHANGED <<before, after>>
     ELSE Leave(g) /\ UNCHANGED store
  /\ UNCHANGED <<anchor, reported, anchored, faults>>

FanOut(g) ==
  /\ pc[g] = "fanout"
  /\ IF store[next[g]] = before[g] /\ after[g].size > before[g].size
     THEN /\ store' = [store EXCEPT ![next[g]] = after[g]]
          /\ Proceed(g, "confirm")
          /\ UNCHANGED <<before, after>>
     ELSE Leave(g) /\ UNCHANGED store
  /\ UNCHANGED <<anchor, reported, anchored, faults>>

(* Broken variant: recovery writes over whatever the store holds. *)
NeverConflicting(s, h) == FALSE

(* Store.recover_to_anchor: refuses a head that is as new but different. *)
Conflicting(s, h) == store[s].size >= h.size /\ store[s] # h

Repair(g) ==
  /\ pc[g] = "repair"
  /\ IF Conflicting(next[g], after[g])
     THEN Leave(g) /\ UNCHANGED store
     ELSE /\ store' = [store EXCEPT ![next[g]] = after[g]]
          /\ Proceed(g, "current")
          /\ UNCHANGED <<before, after>>
  /\ UNCHANGED <<anchor, reported, anchored, faults>>

-----------------------------------------------------------------------------
(* The environment. *)

Crash(g) ==
  /\ pc[g] # "idle"
  /\ faults < MaxFaults
  /\ faults' = faults + 1
  /\ Leave(g)
  /\ UNCHANGED <<anchor, store, reported, anchored>>

(* A store is replaced by a snapshot of an earlier head, or tampered with. *)
Replace(s, h) ==
  /\ faults < MaxFaults
  /\ faults' = faults + 1
  /\ store' = [store EXCEPT ![s] = h]
  /\ UNCHANGED <<anchor, gateVars, reported, anchored>>

Step(g) ==
  \/ ReadStore(g)
  \/ Return(g)
  \/ Confirm(g)
  \/ CheckPassed(g)
  \/ Refuse(g)
  \/ AdvanceAnchor(g)
  \/ FanOut(g)
  \/ Repair(g)

Next ==
  \/ \E g \in Gates :
       \/ Current(g)
       \/ Recover(g)
       \/ \E b, a \in Heads : Commit(g, b, a)
       \/ Step(g)
       \/ Crash(g)
  \/ \E s \in Stores, h \in anchored \cup Forgeries : Replace(s, h)

Spec == Init /\ [][Next]_vars

(* A call that was started runs on; an operator who sees a wedged gate runs *)
(* recover sooner or later.  Nobody is obliged to commit or to read.        *)
Wedged == \E s \in Stores : store[s] # anchor
OperatorRecovers == Wedged /\ \E g \in Gates : Recover(g)

FairSpec ==
  /\ Spec
  /\ \A g \in Gates : WF_vars(Step(g))
  /\ SF_vars(OperatorRecovers)

-----------------------------------------------------------------------------
TypeOK ==
  /\ anchor \in Heads
  /\ store \in [Stores -> Heads]
  /\ pc \in [Gates -> PCs]
  /\ before \in [Gates -> Heads]
  /\ after \in [Gates -> Heads]
  /\ next \in [Gates -> 1..(NumStores + 1)]
  /\ \A g \in Gates : next[g] = NumStores + 1 => pc[g] \in Reading
  /\ view \in [Gates -> SUBSET Heads]
  /\ reported \in Heads
  /\ anchored \in SUBSET Heads
  /\ faults \in 0..MaxFaults

(* No sibling: of two different heads the anchor ever held one is strictly  *)
(* larger, however the gates that committed them were interleaved, so the   *)
(* accepted heads form one line and never a fork (Anchor.cas, Gate.commit). *)
AnchoredLinear ==
  /\ anchor \in anchored
  /\ \A h \in anchored : h.size <= anchor.size
  /\ \A h, k \in anchored : h.size = k.size => h = k

(* Anchor first: as long as stores are only ever replaced by genuine old    *)
(* snapshots, no store shows a head the anchor has not accepted before it,  *)
(* at any point of a commit, a crash or a repair (the order in commit).     *)
StoresNeverAhead == \A s \in Stores : store[s] \in anchored

(* A gate never moves a store backwards: not by a late compare-and-swap,    *)
(* nor by a recovery that read the anchor long ago; only a replacement of   *)
(* the store itself does (Store.cas, Store.recover_to_anchor).              *)
GatesNeverRollBack ==
  [][(\E g \in Gates : Step(g)) =>
       \A s \in Stores : store'[s].size >= store[s].size]_vars

(* The gates together are one linear head: each head reported was the       *)
(* anchor's at the instant of the report, whatever the stores were made to  *)
(* show, so a later report is never older than an earlier one.              *)
LH == INSTANCE LinearHead WITH
        head <- anchor,
        Precedes <- {p \in Heads \X Heads : p[1].size < p[2].size}
ImplementsLinearHead == LH!Spec

(* "A crash after (2) wedges the gate closed but is recoverable from the    *)
(* anchor": a wedge left by a crashed commit or by rolled-back stores never *)
(* lasts for ever when recover is run (module docstring, Gate.recover).     *)
AlwaysRecoverable == []<>~Wedged

(* "it may never overwrite a conflicting head": a repair only replaces a    *)
(* head that the anchor's present head descends from.  The code compares    *)
(* sizes, so it also replaces a smaller head of another branch.             *)
RepairOverwritesOnlyAncestors ==
  [][\A g \in Gates : Repair(g) =>
       \A s \in Stores : store'[s] # store[s] => store[s] \in anchored]_vars
=============================================================================
