----------------------------- MODULE NonceStore -----------------------------
(***************************************************************************)
(* The last step of kernel.decide: consume_once (kernel.py) creates the    *)
(* record of the dispatch's nonce in the replay store (state_store.py),    *)
(* and only then is ALLOW printed.  Several kernels decide at once on one  *)
(* store; any of them may fail or die, and the machine may lose power.     *)
(*                                                                         *)
(* As the code's fsync calls assume, a created file or directory is seen   *)
(* at once, but survives a power loss only after its parent was synced,    *)
(* and its bytes only after the file was; either may happen earlier, by    *)
(* itself.  This is the POSIX branch of consume_atomic.                    *)
(***************************************************************************)
EXTENDS Naturals, FiniteSets

CONSTANTS
  Deciders,    \* invocations of decide that reach consume_once
  Tokens,      \* names of nonce records: hashes of namespace and nonce
  TokenOf,     \* the token each invocation consumes
  Provisioned, \* the directory "consumed" was installed with the store
  MaxOutages   \* bound on power losses

ASSUME TokenOfAssumption == TokenOf \in [Deciders -> Tokens]
ASSUME ProvisionedAssumption == Provisioned \in BOOLEAN
ASSUME OutagesAssumption == MaxOutages \in Nat

VARIABLES
  consumed,  \* "consumed" exists: in memory ("seen") and on disk ("kept")
  record,    \* each token's file: the decider whose digest it holds, or a state
  kept,      \* the tokens whose directory entry survives a power loss
  synced,    \* the tokens whose bytes survive a power loss
  pc,        \* where each decider is in consume_once
  allowed,   \* history: the deciders that printed ALLOW
  outages    \* power losses so far

vars == <<consumed, record, kept, synced, pc, allowed, outages>>

Absent == "absent"
Empty == "empty"  \* created, the decision digest not in it
ASSUME MarksAssumption == Absent \notin Deciders /\ Empty \notin Deciders

Present == {t \in Tokens : record[t] # Absent}

Init ==
  /\ consumed = IF Provisioned THEN {"seen", "kept"} ELSE {}
  /\ record = [t \in Tokens |-> Absent]
  /\ kept = {}
  /\ synced = {}
  /\ pc = [d \in Deciders |-> "deciding"]
  /\ allowed = {}
  /\ outages = 0

-----------------------------------------------------------------------------
(* consume_once and consume_atomic. *)

Goto(d, label) == pc' = [pc EXCEPT ![d] = label]

(* Every check of decide passed: consumed.mkdir(exist_ok=True). *)
MakeConsumed(d) ==
  /\ pc[d] = "deciding"
  /\ consumed' = consumed \cup {"seen"}
  /\ Goto(d, "create")
  /\ UNCHANGED <<record, kept, synced, allowed, outages>>

(* Broken variant: an existing record is opened, not refused. *)
CreateOrOpen(d) ==
  /\ pc[d] = "create"
  /\ "seen" \in consumed
  /\ record' = [record EXCEPT ![TokenOf[d]] = Empty]
  /\ synced' = synced \ {TokenOf[d]}
  /\ Goto(d, "write")
  /\ UNCHANGED <<consumed, kept, allowed, outages>>

(* O_CREAT | O_EXCL succeeds; where it does not, Deny. *)
CreateNew(d) ==
  /\ pc[d] = "create"
  /\ "seen" \in consumed
  /\ record[TokenOf[d]] = Absent
  /\ record' = [record EXCEPT ![TokenOf[d]] = Empty]
  /\ synced' = synced \ {TokenOf[d]}
  /\ Goto(d, "write")
  /\ UNCHANGED <<consumed, kept, allowed, outages>>

Write(d) ==
  /\ pc[d] = "write"
  /\ record' = [record EXCEPT ![TokenOf[d]] = d]
  /\ Goto(d, "sync file")
  /\ UNCHANGED <<consumed, kept, synced, allowed, outages>>

(* Broken variant: the record is flushed to the system, not to the disk. *)
FlushRecord(d) ==
  /\ pc[d] = "sync file"
  /\ Goto(d, "sync directory")
  /\ UNCHANGED <<consumed, record, kept, synced, allowed, outages>>

SyncRecord(d) ==
  /\ pc[d] = "sync file"
  /\ synced' = synced \cup {TokenOf[d]}
  /\ Goto(d, "sync directory")
  /\ UNCHANGED <<consumed, record, kept, allowed, outages>>

(* Broken variant: ALLOW before the directory is synced. *)
AllowUnsynced(d) ==
  /\ pc[d] = "sync directory"
  /\ allowed' = allowed \cup {d}
  /\ Goto(d, "allow")
  /\ UNCHANGED <<consumed, record, kept, synced, outages>>

(* The directory is synced, consume_once returns and ALLOW is printed. *)
Allow(d) ==
  /\ pc[d] = "sync directory"
  /\ kept' = kept \cup Present
  /\ allowed' = allowed \cup {d}
  /\ Goto(d, "allow")
  /\ UNCHANGED <<consumed, record, synced, outages>>

(* DENY, or no answer: the record exists, a check or a file operation       *)
(* raised, or the process died.                                             *)
Deny(d) ==
  /\ pc[d] \notin {"allow", "deny"}
  /\ Goto(d, "deny")
  /\ UNCHANGED <<consumed, record, kept, synced, allowed, outages>>

-----------------------------------------------------------------------------
(* The environment. *)

(* A directory entry reaches the disk without being asked to. *)
WriteBack ==
  /\ \/ "seen" \in consumed /\ consumed' = consumed \cup {"kept"} /\ UNCHANGED kept
     \/ \E t \in Present : kept' = kept \cup {t} /\ UNCHANGED consumed
  /\ UNCHANGED <<record, synced, pc, allowed, outages>>

(* What was not on disk is gone, and every decider still running with it. *)
PowerLoss ==
  /\ outages < MaxOutages
  /\ outages' = outages + 1
  /\ LET dir == "kept" \in consumed
     IN /\ consumed' = IF dir THEN consumed ELSE {}
        /\ kept' = IF dir THEN kept ELSE {}
        /\ record' = [t \in Tokens |->
             IF ~dir \/ t \notin kept THEN Absent
             ELSE IF t \in synced THEN record[t] ELSE Empty]
  /\ pc' = [d \in Deciders |-> IF pc[d] \in {"allow", "deciding"} THEN pc[d] ELSE "deny"]
  /\ UNCHANGED <<synced, allowed>>

Step(d) ==
  \/ MakeConsumed(d)
  \/ CreateNew(d)
  \/ Write(d)
  \/ SyncRecord(d)
  \/ Allow(d)
  \/ Deny(d)

Next ==
  \/ \E d \in Deciders : Step(d)
  \/ WriteBack
  \/ PowerLoss

Spec == Init /\ [][Next]_vars

-----------------------------------------------------------------------------
Active == {"write", "sync file", "sync directory"}

TypeOK ==
  /\ consumed \in {{}, {"seen"}, {"seen", "kept"}}
  /\ record \in [Tokens -> Deciders \cup {Absent, Empty}]
  /\ kept \subseteq Tokens
  /\ synced \subseteq Tokens
  /\ pc \in [Deciders -> {"deciding", "create", "allow", "deny"} \cup Active]
  /\ \A c, d \in Deciders :
       pc[c] \in Active /\ pc[d] \in Active /\ TokenOf[c] = TokenOf[d] => c = d
  /\ allowed \subseteq Deciders
  /\ outages \in 0..MaxOutages

(* "one-shot scheduling gate": two deciders are never both allowed for one  *)
(* nonce, whatever raced, failed or lost power (kernel.py, consume_once).   *)
OneAllowPerNonce == \A c, d \in allowed : TokenOf[c] = TokenOf[d] => c = d

(* The record of an allowed nonce holds for ever the digest of the decision *)
(* that was allowed: no later decider, failure or power loss empties,       *)
(* replaces or removes it (consume_atomic: "never overwrite").              *)
AllowedStaysRecorded == \A d \in allowed : record[TokenOf[d]] = d
=============================================================================
