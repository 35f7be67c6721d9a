-------------------------- MODULE CheckpointMonitor --------------------------
(***************************************************************************)
(* checkpoint_monitor.py: the verifier's own checkpoint, one file that     *)
(* several processes read without a lock and advance under one.            *)
(*                                                                         *)
(* The file system is modelled as the code relies on it: a rename is seen  *)
(* at once by everybody, but survives a power loss only after the          *)
(* directory was synced (it may also reach the disk earlier, by itself);   *)
(* the bytes of a file survive only if the file was synced.                *)
(***************************************************************************)
EXTENDS Naturals

CONSTANTS
  Procs,      \* processes that call advance or current
  Heads,      \* checkpoints: records with a field "size"
  Genesis,    \* the checkpoint the monitor was initialised with
  Receipts,   \* authentic receipts: records with the heads "prior" and "head"
  NoProc,     \* the lock is free
  MaxOutages  \* bound on power losses

ASSUME HeadsAssumption == Genesis \in Heads /\ \A h \in Heads : h.size \in Nat
ASSUME ReceiptsAssumption == Receipts \subseteq [prior : Heads, head : Heads]
ASSUME NoProcAssumption == NoProc \notin Procs
ASSUME OutagesAssumption == MaxOutages \in Nat

VARIABLES
  entry,     \* the file current.json names now
  disk,      \* the file it names after a power loss
  lock,      \* the holder of advance.lock
  pc,        \* where each process is in advance
  receipt,   \* advance's argument
  trusted,   \* advance's "before", read under the lock
  synced,    \* the bytes of the process's temporary file are on disk
  accepted,  \* history: the receipts whose advance returned
  reported,  \* history: the head advance returned last
  observed,  \* history: the heads current() returned
  outages    \* power losses so far

vars == <<entry, disk, lock, pc, receipt, trusted, synced, accepted, reported, observed, outages>>

NoReceipt == [prior |-> Genesis, head |-> Genesis]

(* A file: its checkpoint, and whether its bytes survive a power loss. *)
File(h, s) == [head |-> h, synced |-> s]
Unreadable == File(Genesis, FALSE)

Init ==
  /\ entry = File(Genesis, TRUE)
  /\ disk = entry
  /\ lock = NoProc
  /\ pc = [p \in Procs |-> "idle"]
  /\ receipt = [p \in Procs |-> NoReceipt]
  /\ trusted = [p \in Procs |-> Genesis]
  /\ synced = [p \in Procs |-> FALSE]
  /\ accepted = {}
  /\ reported = Genesis
  /\ observed = {}
  /\ outages = 0

-----------------------------------------------------------------------------
Goto(p, label) == pc' = [pc EXCEPT ![p] = label]

(* current(): one read, without the lock. *)
Current(p) ==
  /\ pc[p] = "idle"
  /\ entry # Unreadable
  /\ observed' = observed \cup {entry.head}
  /\ UNCHANGED <<entry, disk, lock, pc, receipt, trusted, synced, accepted, reported, outages>>

Advance(p, r) ==
  /\ pc[p] = "idle"
  /\ receipt' = [receipt EXCEPT ![p] = r]
  /\ Goto(p, "acquire")
  /\ UNCHANGED <<entry, disk, lock, trusted, synced, accepted, reported, observed, outages>>

(* Broken variant: the lock is shared. *)
AcquireShared(p) ==
  /\ pc[p] = "acquire"
  /\ lock' = p
  /\ Goto(p, "read")
  /\ UNCHANGED <<entry, disk, receipt, trusted, synced, accepted, reported, observed, outages>>

Acquire(p) ==
  /\ pc[p] = "acquire"
  /\ lock = NoProc
  /\ lock' = p
  /\ Goto(p, "read")
  /\ UNCHANGED <<entry, disk, receipt, trusted, synced, accepted, reported, observed, outages>>

(* _read under the lock; Unreadable raises (Abort). *)
Read(p) ==
  /\ pc[p] = "read"
  /\ entry # Unreadable
  /\ trusted' = [trusted EXCEPT ![p] = entry.head]
  /\ Goto(p, "verify")
  /\ UNCHANGED <<entry, disk, lock, receipt, synced, accepted, reported, observed, outages>>

(* Broken variant: the receipt only has to be for a larger tree. *)
WriteLargerTemporary(p) ==
  /\ pc[p] = "verify"
  /\ receipt[p].head.size > trusted[p].size
  /\ Goto(p, "written")
  /\ UNCHANGED <<entry, disk, lock, receipt, trusted, synced, accepted, reported,
                 observed, outages>>

(* The receipt is a successor of the trusted head: create the new file. *)
WriteTemporary(p) ==
  /\ pc[p] = "verify"
  /\ receipt[p].prior = trusted[p]
  /\ receipt[p].head.size > trusted[p].size
  /\ Goto(p, "written")
  /\ UNCHANGED <<entry, disk, lock, receipt, trusted, synced, accepted, reported,
                 observed, outages>>

(* Broken variant: the new file is flushed, not synced. *)
FlushTemporary(p) ==
  /\ pc[p] = "written"
  /\ Goto(p, "replace")
  /\ UNCHANGED <<entry, disk, lock, receipt, trusted, synced, accepted, reported,
                 observed, outages>>

SyncTemporary(p) ==
  /\ pc[p] = "written"
  /\ synced' = [synced EXCEPT ![p] = TRUE]
  /\ Goto(p, "replace")
  /\ UNCHANGED <<entry, disk, lock, receipt, trusted, accepted, reported, observed, outages>>

Replace(p) ==
  /\ pc[p] = "replace"
  /\ entry' = File(receipt[p].head, synced[p])
  /\ Goto(p, "replaced")
  /\ UNCHANGED <<disk, lock, receipt, trusted, synced, accepted, reported, observed, outages>>

(* Broken variant: the directory is not synced. *)
SkipSyncDirectory(p) ==
  /\ pc[p] = "replaced"
  /\ Goto(p, "return")
  /\ UNCHANGED <<entry, disk, lock, receipt, trusted, synced, accepted, reported,
                 observed, outages>>

SyncDirectory(p) ==
  /\ pc[p] = "replaced"
  /\ disk' = entry
  /\ Goto(p, "return")
  /\ UNCHANGED <<entry, lock, receipt, trusted, synced, accepted, reported, observed, outages>>

(* The call is over: its locals are gone and the lock, if held, is free. *)
Leave(p) ==
  /\ Goto(p, "idle")
  /\ lock' = IF lock = p THEN NoProc ELSE lock
  /\ receipt' = [receipt EXCEPT ![p] = NoReceipt]
  /\ trusted' = [trusted EXCEPT ![p] = Genesis]
  /\ synced' = [synced EXCEPT ![p] = FALSE]

Return(p) ==
  /\ pc[p] = "return"
  /\ accepted' = accepted \cup {receipt[p]}
  /\ reported' = receipt[p].head
  /\ Leave(p)
  /\ UNCHANGED <<entry, disk, observed, outages>>

(* Anywhere in advance: the lock timed out, the receipt was not verified or *)
(* is no successor, a file operation raised, or the process died.           *)
Abort(p) ==
  /\ pc[p] # "idle"
  /\ Leave(p)
  /\ UNCHANGED <<entry, disk, accepted, reported, observed, outages>>

-----------------------------------------------------------------------------
(* The environment. *)

(* The directory reaches the disk without being asked to. *)
WriteBack ==
  /\ disk' = entry
  /\ UNCHANGED <<entry, lock, pc, receipt, trusted, synced, accepted, reported, observed, outages>>

PowerLoss ==
  /\ outages < MaxOutages
  /\ outages' = outages + 1
  /\ entry' = IF disk.synced THEN disk ELSE Unreadable
  /\ disk' = entry'
  /\ lock' = NoProc
  /\ pc' = [p \in Procs |-> "idle"]
  /\ receipt' = [p \in Procs |-> NoReceipt]
  /\ trusted' = [p \in Procs |-> Genesis]
  /\ synced' = [p \in Procs |-> FALSE]
  /\ UNCHANGED <<accepted, reported, observed>>

Step(p) ==
  \/ Acquire(p)
  \/ Read(p)
  \/ WriteTemporary(p)
  \/ SyncTemporary(p)
  \/ Replace(p)
  \/ SyncDirectory(p)
  \/ Return(p)
  \/ Abort(p)

Next ==
  \/ \E p \in Procs :
       \/ Current(p)
       \/ \E r \in Receipts : Advance(p, r)
       \/ Step(p)
  \/ WriteBack
  \/ PowerLoss

Spec == Init /\ [][Next]_vars

-----------------------------------------------------------------------------
Critical == {"read", "verify", "written", "replace", "replaced", "return"}

TypeOK ==
  /\ entry \in [head : Heads, synced : BOOLEAN]
  /\ disk \in [head : Heads, synced : BOOLEAN]
  /\ lock \in Procs \cup {NoProc}
  /\ pc \in [Procs -> {"idle", "acquire"} \cup Critical]
  /\ \A p \in Procs : pc[p] \in Critical => lock = p
  /\ receipt \in [Procs -> [prior : Heads, head : Heads]]
  /\ trusted \in [Procs -> Heads]
  /\ synced \in [Procs -> BOOLEAN]
  /\ accepted \subseteq Receipts
  /\ reported \in Heads
  /\ observed \subseteq Heads
  /\ outages \in 0..MaxOutages

(* "Competing siblings therefore cannot both commit": of the receipts that  *)
(* advance returned for, no two start from the same head, whatever raced,   *)
(* failed or lost power in between.                                         *)
NoSiblings == \A a, b \in accepted : a.prior = b.prior => a = b

(* A power loss at any instant leaves a monitor that can be read: a name    *)
(* never reaches the disk before the bytes it names (fsync, then replace).  *)
AlwaysReadable == entry # Unreadable /\ disk.synced

(* The head on disk is one linear head: it only moves to a larger one, and  *)
(* each head advance returned was on disk at that instant, so no power loss *)
(* ever takes it back (advance under the lock, directory sync).             *)
LH == INSTANCE LinearHead WITH
        head <- disk.head,
        Precedes <- {p \in Heads \X Heads : p[1].size < p[2].size}
ImplementsLinearHead == LH!Spec

(* "monotonic checkpoint monitor": a reader never sees an older head than   *)
(* one that current() returned before.  The code lets current() read a head *)
(* whose directory entry is not synced yet, and a power loss takes it back. *)
ObservedNeverRollsBack == \A h \in observed : h.size <= entry.head.size
=============================================================================
