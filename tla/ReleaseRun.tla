----------------------------- MODULE ReleaseRun -----------------------------
(***************************************************************************)
(* The release path of run_external.py: a run consumes its release nonce   *)
(* at the external ledger (nonce_ledger.py), reads the checkpoint quorum,  *)
(* verifies the receipt against it, commits the new checkpoint service by  *)
(* service (checkpoint_quorum.py), and only then executes the candidate.   *)
(*                                                                         *)
(* A tree head is the sequence of the leaves it commits to, a leaf being   *)
(* the run whose fresh request it binds; the bootstrap leaf is left out.   *)
(* Requests may be handled late, after the run that sent them gave up, or  *)
(* never; an answer may be lost; a captured receipt may be delivered to    *)
(* another run; a run may die anywhere; the ledger may be restored from an *)
(* old backup.  The ledger and the services are external: they are         *)
(* modelled from the requests and answers the source exchanges with them.  *)
(***************************************************************************)
EXTENDS Naturals, SequencesExt

CONSTANTS
  Runs,         \* invocations of run_external.py, each with its own challenge
  Nonces,       \* release nonces
  NonceOf,      \* the nonce in the authorization a run is given
  NumServices,  \* the configured services, in their order
  MaxRestores   \* bound on restorations of the ledger

ASSUME NonceOfAssumption == NonceOf \in [Runs -> Nonces]
ASSUME ServicesAssumption == NumServices \in Nat /\ NumServices >= 2
ASSUME RestoresAssumption == MaxRestores \in Nat

VARIABLES
  log,       \* the ledger's leaves
  receipts,  \* every receipt the ledger has signed
  service,   \* service[i] is the head the i-th service holds
  pending,   \* requests sent to the ledger or a service and not handled yet
  pc,        \* how far each run is
  receipt,   \* the receipt each run works with
  before,    \* current_checkpoint of each run
  next,      \* the service a run's loop visits next
  view,      \* the heads read_current has collected
  reply,     \* the commit answer that has arrived
  released,  \* history: the runs that got past the commit
  reported,  \* history: the head the last unanimous read returned
  restores   \* restorations so far

runVars == <<pc, receipt, before, next, view, reply>>
vars == <<log, receipts, service, pending, runVars, released, reported, restores>>

Services == 1..NumServices
Ledger == 0
TreeHead == Seq(Runs)
Bootstrap == <<>>

(* A request: the ledger reads only the run, a service also the two heads. *)
Request(r, to, prior, h) == [run |-> r, to |-> to, prior |-> prior, head |-> h]

Receipt == [run : Runs, result : {"CONSUMED", "ALREADY_CONSUMED"}, prior : TreeHead, head : TreeHead]
NoReceipt == [run |-> "none"]

Leaves(h) == {h[i] : i \in DOMAIN h}

Init ==
  /\ log = Bootstrap
  /\ receipts = {}
  /\ service = [i \in Services |-> Bootstrap]
  /\ pending = {}
  /\ pc = [r \in Runs |-> "idle"]
  /\ receipt = [r \in Runs |-> NoReceipt]
  /\ before = [r \in Runs |-> Bootstrap]
  /\ next = [r \in Runs |-> 1]
  /\ view = [r \in Runs |-> {}]
  /\ reply = [r \in Runs |-> "none"]
  /\ released = {}
  /\ reported = Bootstrap
  /\ restores = 0

(* The process exits without a record.  What it held in memory is gone,      *)
(* which the model says by putting the variables of the run back.            *)
Stop(r) ==
  /\ pc' = [pc EXCEPT ![r] = "failed"]
  /\ receipt' = [receipt EXCEPT ![r] = NoReceipt]
  /\ before' = [before EXCEPT ![r] = Bootstrap]
  /\ next' = [next EXCEPT ![r] = 1]
  /\ view' = [view EXCEPT ![r] = {}]
  /\ reply' = [reply EXCEPT ![r] = "none"]

-----------------------------------------------------------------------------
(* The run. *)

(* The authorization verified: send a consume request with a new challenge. *)
Start(r) ==
  /\ pc[r] = "idle"
  /\ pc' = [pc EXCEPT ![r] = "consume"]
  /\ pending' = pending \cup {Request(r, Ledger, Bootstrap, Bootstrap)}
  /\ UNCHANGED <<log, receipts, service, receipt, before, next, view, reply,
                 released, reported, restores>>

(* The answer of the ledger, or a receipt captured from another run. *)
ReceiveReceipt(r) ==
  /\ pc[r] = "consume"
  /\ \E c \in receipts : receipt' = [receipt EXCEPT ![r] = c]
  /\ pc' = [pc EXCEPT ![r] = "read"]
  /\ UNCHANGED <<log, receipts, service, pending, before, next, view, reply,
                 released, reported, restores>>

(* Broken variant: prior and consistency are compared by size, not by root. *)
AcceptableBySize(r, c, h) ==
  /\ c.run = r
  /\ c.result = "CONSUMED"
  /\ Len(c.prior) = Len(h)
  /\ r \in Leaves(c.head)
  /\ Len(c.head) > Len(h)

(* verify_consumption_receipt against the head just read, then commit's own *)
(* check that the receipt is its successor.                                 *)
Acceptable(r, c, h) ==
  /\ c.run = r
  /\ c.result = "CONSUMED"
  /\ c.prior = h
  /\ IsPrefix(h, c.head)
  /\ r \in Leaves(c.head)
  /\ Len(c.head) > Len(h)

ReadService(r) ==
  /\ pc[r] = "read"
  /\ next[r] < NumServices
  /\ view' = [view EXCEPT ![r] = @ \cup {service[next[r]]}]
  /\ next' = [next EXCEPT ![r] = @ + 1]
  /\ UNCHANGED <<log, receipts, service, pending, pc, receipt, before, reply,
                 released, reported, restores>>

(* Broken variant: some head that was read, the others unseen. *)
SomeHead(r, h) == h \in view[r]

(* len(set(heads)) == 1 once the last service has answered too. *)
Unanimous(r, h) == view[r] \cup {service[NumServices]} = {h}

LastRead(r) == pc[r] = "read" /\ next[r] = NumServices

(* Broken variant: the commits start at the wrong end of the order. *)
BeginCommitAtLast(r) ==
  /\ LastRead(r)
  /\ \E h \in view[r] \cup {service[NumServices]} :
       /\ Unanimous(r, h)
       /\ Acceptable(r, receipt[r], h)
       /\ reported' = h
       /\ before' = [before EXCEPT ![r] = h]
       /\ pending' = pending \cup {Request(r, NumServices, h, receipt[r].head)}
  /\ pc' = [pc EXCEPT ![r] = "commit"]
  /\ next' = [next EXCEPT ![r] = NumServices]
  /\ view' = [view EXCEPT ![r] = {}]
  /\ UNCHANGED <<log, receipts, service, receipt, reply, released, restores>>

(* The quorum is unanimous and the receipt its successor: start to commit. *)
BeginCommit(r) ==
  /\ LastRead(r)
  /\ \E h \in view[r] \cup {service[NumServices]} :
       /\ Unanimous(r, h)
       /\ Acceptable(r, receipt[r], h)
       /\ reported' = h
       /\ before' = [before EXCEPT ![r] = h]
       /\ pending' = pending \cup {Request(r, 1, h, receipt[r].head)}
  /\ pc' = [pc EXCEPT ![r] = "commit"]
  /\ next' = [next EXCEPT ![r] = 1]
  /\ view' = [view EXCEPT ![r] = {}]
  /\ UNCHANGED <<log, receipts, service, receipt, reply, released, restores>>

(* The quorum is unanimous, but the receipt is not for this run and head. *)
RejectReceipt(r) ==
  /\ LastRead(r)
  /\ \E h \in view[r] \cup {service[NumServices]} :
       /\ Unanimous(r, h)
       /\ ~Acceptable(r, receipt[r], h)
       /\ reported' = h
  /\ Stop(r)
  /\ UNCHANGED <<log, receipts, service, pending, released, restores>>

(* "checkpoint split view". *)
RejectSplitView(r) ==
  /\ LastRead(r)
  /\ \A h \in view[r] \cup {service[NumServices]} : ~Unanimous(r, h)
  /\ Stop(r)
  /\ UNCHANGED <<log, receipts, service, pending, released, reported, restores>>

(* Broken variant: the result of a commit answer is not looked at. *)
ReceiveAnyReply(r) ==
  /\ pc[r] = "commit"
  /\ reply[r] # "none"
  /\ IF next[r] < NumServices
     THEN /\ pending' = pending \cup
                {Request(r, next[r] + 1, before[r], receipt[r].head)}
          /\ next' = [next EXCEPT ![r] = @ + 1]
          /\ UNCHANGED <<pc, released>>
     ELSE /\ pc' = [pc EXCEPT ![r] = "released"]
          /\ released' = released \cup {r}
          /\ UNCHANGED <<pending, next>>
  /\ reply' = [reply EXCEPT ![r] = "none"]
  /\ UNCHANGED <<log, receipts, service, receipt, before, view, reported, restores>>

(* Broken variant: the loop over the services runs one past the last. *)
ReceiveCommittedOverrun(r) ==
  /\ pc[r] = "commit"
  /\ reply[r] = "COMMITTED"
  /\ pending' = pending \cup {Request(r, next[r] + 1, before[r], receipt[r].head)}
  /\ next' = [next EXCEPT ![r] = @ + 1]
  /\ reply' = [reply EXCEPT ![r] = "none"]
  /\ UNCHANGED <<log, receipts, service, pc, receipt, before, view, released,
                 reported, restores>>

(* A service committed: ask the next one; the last one releases the run. *)
ReceiveCommitted(r) ==
  /\ pc[r] = "commit"
  /\ reply[r] = "COMMITTED"
  /\ IF next[r] < NumServices
     THEN /\ pending' = pending \cup
                {Request(r, next[r] + 1, before[r], receipt[r].head)}
          /\ next' = [next EXCEPT ![r] = @ + 1]
          /\ UNCHANGED <<pc, released>>
     ELSE /\ pc' = [pc EXCEPT ![r] = "released"]
          /\ released' = released \cup {r}
          /\ UNCHANGED <<pending, next>>
  /\ reply' = [reply EXCEPT ![r] = "none"]
  /\ UNCHANGED <<log, receipts, service, receipt, before, view, reported, restores>>

(* "checkpoint commit rejected". *)
ReceiveStale(r) ==
  /\ pc[r] = "commit"
  /\ reply[r] = "STALE"
  /\ Stop(r)
  /\ UNCHANGED <<log, receipts, service, pending, released, reported, restores>>

(* The suite ran on the private snapshot and the record was written. *)
WriteRecord(r) ==
  /\ pc[r] = "released"
  /\ pc' = [pc EXCEPT ![r] = "recorded"]
  /\ UNCHANGED <<log, receipts, service, pending, receipt, before, next, view,
                 reply, released, reported, restores>>

(* Broken variant: a commit waits for its answer without a deadline. *)
GiveUpUnlessCommitting(r) ==
  /\ pc[r] \in {"consume", "read", "released"}
  /\ Stop(r)
  /\ UNCHANGED <<log, receipts, service, pending, released, reported, restores>>

(* A call timed out or its answer was lost, the suite hit its deadline, a   *)
(* later check raised, or the process died.                                 *)
GiveUp(r) ==
  /\ pc[r] \in {"consume", "read", "commit", "released"}
  /\ Stop(r)
  /\ UNCHANGED <<log, receipts, service, pending, released, reported, restores>>

-----------------------------------------------------------------------------
(* The external ledger and checkpoint services. *)

ConsumedNonces == {NonceOf[q] : q \in Leaves(log)}

(* The ledger handles a request, its sender waiting or not.  It appends a   *)
(* leaf only for a nonce it has not seen, and names as the prior head any   *)
(* earlier head of its log.                                                 *)
LedgerConsume(m) ==
  /\ m.to = Ledger
  /\ pending' = pending \ {m}
  /\ LET fresh == NonceOf[m.run] \notin ConsumedNonces
     IN /\ log' = IF fresh THEN Append(log, m.run) ELSE log
        /\ \E k \in 0..Len(log) :
             receipts' = receipts \cup
               {[run |-> m.run,
                 result |-> IF fresh THEN "CONSUMED" ELSE "ALREADY_CONSUMED",
                 prior |-> SubSeq(log, 1, k),
                 head |-> log']}
  /\ UNCHANGED <<service, runVars, released, reported, restores>>

(* The ledger forgets its latest leaves: from here its log may fork. *)
RestoreLedger ==
  /\ restores < MaxRestores
  /\ restores' = restores + 1
  /\ \E k \in 0..(Len(log) - 1) : log' = SubSeq(log, 1, k)
  /\ UNCHANGED <<receipts, service, pending, runVars, released, reported>>

(* A service compares and swaps; the answer reaches a run that still waits. *)
ServiceCommit(m) ==
  /\ m.to \in Services
  /\ pending' = pending \ {m}
  /\ LET matches == service[m.to] = m.prior
     IN /\ service' = IF matches THEN [service EXCEPT ![m.to] = m.head] ELSE service
        /\ reply' = IF pc[m.run] = "commit" /\ next[m.run] = m.to
                    THEN [reply EXCEPT ![m.run] = IF matches THEN "COMMITTED" ELSE "STALE"]
                    ELSE reply
  /\ UNCHANGED <<log, receipts, pc, receipt, before, next, view, released,
                 reported, restores>>

RunStep(r) ==
  \/ ReceiveReceipt(r)
  \/ ReadService(r)
  \/ BeginCommit(r)
  \/ RejectReceipt(r)
  \/ RejectSplitView(r)
  \/ ReceiveCommitted(r)
  \/ ReceiveStale(r)
  \/ WriteRecord(r)
  \/ GiveUp(r)

Next ==
  \/ \E r \in Runs : Start(r) \/ RunStep(r)
  \/ \E m \in pending : LedgerConsume(m) \/ ServiceCommit(m)
  \/ RestoreLedger

Spec == Init /\ [][Next]_vars

(* Every call of a run has a deadline, so a run that was started moves on;  *)
(* the ledger and the services owe nothing.                                 *)
FairSpec == Spec /\ \A r \in Runs : WF_vars(RunStep(r))

-----------------------------------------------------------------------------
TypeOK ==
  /\ log \in TreeHead
  /\ receipts \subseteq Receipt
  /\ service \in [Services -> TreeHead]
  /\ pending \subseteq [run : Runs, to : {Ledger} \cup Services, prior : TreeHead, head : TreeHead]
  /\ pc \in [Runs -> {"idle", "consume", "read", "commit", "released", "recorded", "failed"}]
  /\ receipt \in [Runs -> Receipt \cup {NoReceipt}]
  /\ before \in [Runs -> TreeHead]
  /\ next \in [Runs -> Services]
  /\ view \in [Runs -> SUBSET TreeHead]
  /\ reply \in [Runs -> {"none", "COMMITTED", "STALE"}]
  /\ released \subseteq Runs
  /\ reported \in TreeHead
  /\ restores \in 0..MaxRestores

(* One-time authorization: two runs are never both released for one nonce,  *)
(* whatever was retried, delayed, replayed or lost, and even if the ledger  *)
(* was restored and consumed the nonce again (consume before execute).      *)
OneReleasePerNonce ==
  \A r, q \in released : NonceOf[r] = NonceOf[q] => r = q

(* What was released stays on record: every service's head commits to the   *)
(* leaf of every released run for ever after (unanimous ordered commit).    *)
ReleasedOnRecord ==
  \A r \in released, i \in Services : r \in Leaves(service[i])

(* "Calls are always made in the configured order": a service never knows a *)
(* head that the services before it do not already extend.                  *)
EarlierServicesAhead ==
  \A i, j \in Services : i < j => IsPrefix(service[j], service[i])

(* A commit of the head h that can still reach another service. *)
Committing(h) ==
  \/ \E m \in pending : m.to # Ledger /\ m.head = h
  \/ \E r \in Runs : pc[r] = "commit" /\ receipt[r].head = h

Wedged ==
  /\ \E i \in Services : service[i] # service[1]
  /\ ~Committing(service[1])

(* "a crash or partition can only wedge the gate closed": once a commit was *)
(* abandoned half way, no service ever moves again, by a run that had read  *)
(* the quorum before the split or by one that starts after it; so, with     *)
(* ReleasedOnRecord, no run is released whose commit was not complete.      *)
WedgeStaysClosed == [][Wedged => Wedged' /\ UNCHANGED service]_vars

(* The last service of the order is one linear head: it only moves to an    *)
(* extension, and a unanimous read returned its head at that instant.       *)
LH == INSTANCE LinearHead WITH
        Genesis <- Bootstrap,
        head <- service[NumServices],
        Precedes <- {p \in TreeHead \X TreeHead : IsStrictPrefix(p[1], p[2])}
ImplementsLinearHead == LH!Spec

(* Every run that was started ends, with a record or without one. *)
RunsEnd == []<>(\A r \in Runs : pc[r] \in {"idle", "recorded", "failed"})
=============================================================================
