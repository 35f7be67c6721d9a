-------------------------- MODULE ReleaseRunProofs --------------------------
(* Theorems about ReleaseRun, for any runs, nonces, number of services and  *)
(* number of restorations of the ledger.                                    *)
EXTENDS ReleaseRun, TLAPS

(***************************************************************************)
(* Facts about tree heads.                                                 *)
(***************************************************************************)

(* A head that commits to each nonce at most once. *)
NonceUnique(h) ==
  \A i, j \in DOMAIN h : NonceOf[h[i]] = NonceOf[h[j]] => i = j

(* A head commits to every leaf of its prefixes. *)
LEMMA PrefixLeaves ==
  ASSUME NEW s \in TreeHead, NEW t \in TreeHead, IsPrefix(s, t)
  PROVE  Leaves(s) \subseteq Leaves(t)
<1>1. Len(s) <= Len(t) /\ SubSeq(s, 1, Len(s)) = SubSeq(t, 1, Len(s))
  BY DEF IsPrefix
<1>2. \A i \in 1..Len(s) : s[i] = t[i]
  <2> TAKE i \in 1..Len(s)
  <2>1. SubSeq(s, 1, Len(s))[i] = s[i]
    BY DEF TreeHead
  <2>2. SubSeq(t, 1, Len(s))[i] = t[i]
    BY <1>1 DEF TreeHead
  <2>3. QED
    BY <1>1, <2>1, <2>2
<1>3. QED
  BY <1>1, <1>2 DEF Leaves, TreeHead

LEMMA CutUnique ==
  ASSUME NEW h \in TreeHead, NonceUnique(h), NEW k \in 0..Len(h)
  PROVE  SubSeq(h, 1, k) \in TreeHead /\ NonceUnique(SubSeq(h, 1, k))
BY DEF TreeHead, NonceUnique

LEMMA AppendUnique ==
  ASSUME NEW h \in TreeHead, NonceUnique(h), NEW r \in Runs,
         NonceOf[r] \notin {NonceOf[q] : q \in Leaves(h)}
  PROVE  Append(h, r) \in TreeHead /\ NonceUnique(Append(h, r))
<1>1. \A i \in DOMAIN h : NonceOf[h[i]] # NonceOf[r]
  BY DEF Leaves
<1>2. QED
  BY <1>1 DEF TreeHead, NonceUnique

(* Two leaves of a unique head with the same nonce are the same run. *)
LEMMA UniqueLeaf ==
  ASSUME NEW h \in TreeHead, NonceUnique(h), NEW r \in Leaves(h), NEW q \in Leaves(h),
         NonceOf[r] = NonceOf[q]
  PROVE  r = q
BY DEF NonceUnique, Leaves

(***************************************************************************)
(* Type correctness.  A run past the ledger works with a receipt that the  *)
(* ledger signed; without this the heads of its requests have no type.     *)
(***************************************************************************)

HoldsReceipt ==
  \A r \in Runs : pc[r] \in {"read", "commit", "released", "recorded"}
                   => receipt[r] \in receipts

Typed == TypeOK /\ HoldsReceipt

Message == [run : Runs, to : {Ledger} \cup Services, prior : TreeHead, head : TreeHead]

LEMMA RequestTyped ==
  ASSUME NEW r \in Runs, NEW to \in {Ledger} \cup Services,
         NEW s \in TreeHead, NEW h \in TreeHead
  PROVE  Request(r, to, s, h) \in Message
BY DEF Request, Message

LEMMA ReceiptTyped ==
  ASSUME NEW r \in Runs, NEW result \in {"CONSUMED", "ALREADY_CONSUMED"},
         NEW s \in TreeHead, NEW h \in TreeHead
  PROVE  [run |-> r, result |-> result, prior |-> s, head |-> h] \in Receipt
BY DEF Receipt

LEMMA BootstrapTyped == Bootstrap \in TreeHead
BY DEF Bootstrap, TreeHead

LEMMA FirstService == 1 \in Services /\ NumServices \in Services
BY ServicesAssumption DEF Services

LEMMA StopTyped ==
  ASSUME Typed, NEW r \in Runs, Stop(r),
         UNCHANGED <<log, receipts, service, pending, released, restores>>,
         reported' \in TreeHead
  PROVE  Typed'
BY BootstrapTyped, FirstService DEF Typed, TypeOK, HoldsReceipt, Stop, vars

LEMMA StepTyped == Typed /\ [Next]_vars => Typed'
<1> SUFFICES ASSUME Typed, [Next]_vars
             PROVE  Typed'
  OBVIOUS
<1> USE DEF Typed, TypeOK, HoldsReceipt
<1>1. ASSUME NEW r \in Runs, Start(r)
      PROVE  Typed'
  <2>1. Request(r, Ledger, Bootstrap, Bootstrap) \in Message
    BY RequestTyped, BootstrapTyped
  <2>2. pending' \subseteq Message
    BY <1>1, <2>1 DEF Start, Message
  <2>3. QED
    BY <1>1, <2>2 DEF Start, Message
<1>2. ASSUME NEW r \in Runs, ReceiveReceipt(r)
      PROVE  Typed'
  BY <1>2 DEF ReceiveReceipt
<1>3. ASSUME NEW r \in Runs, ReadService(r)
      PROVE  Typed'
  BY <1>3, ServicesAssumption DEF ReadService, Services
<1>4. ASSUME NEW r \in Runs, BeginCommit(r)
      PROVE  Typed'
  <2>1. PICK h \in view[r] \cup {service[NumServices]} :
               /\ reported' = h
               /\ before' = [before EXCEPT ![r] = h]
               /\ pending' = pending \cup {Request(r, 1, h, receipt[r].head)}
    BY <1>4 DEF BeginCommit
  <2>2. h \in TreeHead
    BY FirstService
  <2>3. receipt[r] \in Receipt
    BY <1>4 DEF BeginCommit, LastRead
  <2>4. Request(r, 1, h, receipt[r].head) \in Message
    BY <2>2, <2>3, RequestTyped, FirstService DEF Receipt
  <2>5. pending' \subseteq Message
    BY <2>1, <2>4 DEF Message
  <2>6. QED
    BY <1>4, <2>1, <2>2, <2>5, FirstService DEF BeginCommit, LastRead, Message
<1>5. ASSUME NEW r \in Runs, RejectReceipt(r)
      PROVE  Typed'
  <2>1. reported' \in TreeHead
    BY <1>5, FirstService DEF RejectReceipt
  <2>2. QED
    BY <1>5, <2>1, StopTyped DEF RejectReceipt
<1>6. ASSUME NEW r \in Runs, RejectSplitView(r) \/ ReceiveStale(r) \/ GiveUp(r)
      PROVE  Typed'
  BY <1>6, StopTyped DEF RejectSplitView, ReceiveStale, GiveUp
<1>7. ASSUME NEW r \in Runs, ReceiveCommitted(r)
      PROVE  Typed'
  <2>1. CASE next[r] < NumServices
    <3>1. next[r] + 1 \in Services
      BY <2>1, ServicesAssumption DEF Services
    <3>2. receipt[r] \in Receipt
      BY <1>7 DEF ReceiveCommitted
    <3>3. Request(r, next[r] + 1, before[r], receipt[r].head) \in Message
      BY <3>1, <3>2, RequestTyped DEF Receipt
    <3>4. pending' \subseteq Message
      BY <1>7, <2>1, <3>3 DEF ReceiveCommitted, Message
    <3>5. QED
      BY <1>7, <2>1, <3>1, <3>4 DEF ReceiveCommitted, Message
  <2>2. CASE ~(next[r] < NumServices)
    BY <1>7, <2>2 DEF ReceiveCommitted
  <2>3. QED
    BY <2>1, <2>2
<1>8. ASSUME NEW r \in Runs, WriteRecord(r)
      PROVE  Typed'
  BY <1>8 DEF WriteRecord
<1>9. ASSUME NEW m \in pending, LedgerConsume(m)
      PROVE  Typed'
  <2>1. m.run \in Runs
    OBVIOUS
  <2>2. log' \in TreeHead
    BY <1>9, <2>1 DEF LedgerConsume, TreeHead
  <2>3. PICK k \in 0..Len(log) :
          receipts' = receipts \cup
            {[run |-> m.run,
              result |-> IF NonceOf[m.run] \notin ConsumedNonces
                         THEN "CONSUMED" ELSE "ALREADY_CONSUMED",
              prior |-> SubSeq(log, 1, k),
              head |-> log']}
    BY <1>9 DEF LedgerConsume
  <2>4. SubSeq(log, 1, k) \in TreeHead
    BY DEF TreeHead
  <2>5. receipts' \subseteq Receipt
    <3>1. (IF NonceOf[m.run] \notin ConsumedNonces THEN "CONSUMED" ELSE "ALREADY_CONSUMED")
            \in {"CONSUMED", "ALREADY_CONSUMED"}
      OBVIOUS
    <3> DEFINE result == IF NonceOf[m.run] \notin ConsumedNonces
                         THEN "CONSUMED" ELSE "ALREADY_CONSUMED"
               c == [run |-> m.run, result |-> result,
                     prior |-> SubSeq(log, 1, k), head |-> log']
    <3> HIDE DEF result
    <3>2. c \in Receipt
      BY <2>1, <2>2, <2>4, <3>1, ReceiptTyped DEF result
    <3>3. receipts' = receipts \cup {c}
      BY <2>3 DEF result
    <3> HIDE DEF c
    <3>4. receipts \subseteq Receipt
      OBVIOUS
    <3>5. QED
      BY <3>2, <3>3, <3>4
  <2>6. pending' \subseteq pending /\ UNCHANGED <<service, runVars, released, reported, restores>>
    BY <1>9 DEF LedgerConsume
  <2>7. TypeOK'
    BY <2>2, <2>5, <2>6 DEF runVars
  <2>8. HoldsReceipt'
    BY <2>3, <2>6 DEF runVars
  <2>9. QED
    BY <2>7, <2>8
<1>10. CASE RestoreLedger
  <2>1. log' \in TreeHead
    BY <1>10 DEF RestoreLedger, TreeHead
  <2>2. QED
    BY <1>10, <2>1, RestoresAssumption DEF RestoreLedger, runVars
<1>11. ASSUME NEW m \in pending, ServiceCommit(m)
       PROVE  Typed'
  BY <1>11 DEF ServiceCommit
<1>12. CASE UNCHANGED vars
  BY <1>12 DEF vars, runVars
<1>13. QED
  BY <1>1, <1>2, <1>3, <1>4, <1>5, <1>6, <1>7, <1>8, <1>9, <1>10, <1>11, <1>12
     DEF Next, RunStep

LEMMA AlwaysTyped == Spec => []Typed
<1>1. Init => Typed
  BY BootstrapTyped, FirstService, RestoresAssumption
     DEF Init, Typed, TypeOK, HoldsReceipt
<1>2. QED
  BY <1>1, StepTyped, PTL DEF Spec

(* Every variable keeps its type: no loop over the services runs past the   *)
(* last one, and every head that is read, requested or recorded is a head.  *)
THEOREM TypeCorrect == Spec => []TypeOK
BY AlwaysTyped, PTL DEF Typed

(***************************************************************************)
(* One release per nonce.  The invariant follows a leaf from the ledger,   *)
(* where heads commit to a nonce at most once, through receipts and commit *)
(* requests into the services, which only ever move to extensions.         *)
(***************************************************************************)

LedgerUnique == NonceUnique(log) /\ \A c \in receipts : NonceUnique(c.head)

(* A commit request extends the head it names with the leaf of its sender. *)
SoundCommit(r, prior, h) ==
  /\ IsPrefix(prior, h)
  /\ r \in Leaves(h)
  /\ NonceUnique(h)

RequestsSound ==
  \A m \in pending : m.to # Ledger => SoundCommit(m.run, m.prior, m.head)

CommitsSound ==
  \A r \in Runs : pc[r] = "commit" => SoundCommit(r, before[r], receipt[r].head)

ServicesUnique == \A i \in Services : NonceUnique(service[i])

(* The services a committing run has an answer from hold its leaf. *)
AnsweredServices ==
  \A r \in Runs, i \in Services :
    /\ pc[r] = "commit"
    /\ i < next[r] \/ (i = next[r] /\ reply[r] = "COMMITTED")
    => r \in Leaves(service[i])

RepliesToCommits == \A r \in Runs : pc[r] # "commit" => reply[r] = "none"

IInv ==
  /\ LedgerUnique
  /\ RequestsSound
  /\ CommitsSound
  /\ ServicesUnique
  /\ AnsweredServices
  /\ RepliesToCommits
  /\ ReleasedOnRecord

(* A run that stops without touching ledger, services or requests. *)
LEMMA StopKeeps ==
  ASSUME Typed, IInv, NEW r \in Runs, Stop(r),
         UNCHANGED <<log, receipts, service, pending, released>>
  PROVE  IInv'
<1>1. \A q \in Runs : pc'[q] = "commit" =>
        /\ q # r /\ pc[q] = "commit"
        /\ before'[q] = before[q] /\ receipt'[q] = receipt[q]
        /\ next'[q] = next[q] /\ reply'[q] = reply[q]
  BY DEF Stop, Typed, TypeOK
<1>2. RepliesToCommits'
  BY DEF Stop, Typed, TypeOK, IInv, RepliesToCommits
<1>3. CommitsSound'
  BY <1>1 DEF IInv, CommitsSound
<1>4. AnsweredServices'
  BY <1>1 DEF IInv, AnsweredServices
<1>5. LedgerUnique' /\ RequestsSound' /\ ServicesUnique' /\ ReleasedOnRecord'
  BY DEF IInv, LedgerUnique, RequestsSound, ServicesUnique, ReleasedOnRecord
<1>6. QED
  BY <1>2, <1>3, <1>4, <1>5 DEF IInv

(* Leaves are only ever added to a service. *)
LEMMA ServicesKeepLeaves ==
  ASSUME Typed, IInv, NEW m \in pending, ServiceCommit(m)
  PROVE  \A i \in Services : Leaves(service[i]) \subseteq Leaves(service'[i])
<1>1. m.to \in Services /\ m.to # Ledger
  BY DEF ServiceCommit, Services, Ledger
<1>2. IsPrefix(m.prior, m.head)
  BY <1>1 DEF IInv, RequestsSound, SoundCommit
<1>3. m.prior \in TreeHead /\ m.head \in TreeHead
  BY DEF Typed, TypeOK
<1>4. Leaves(m.prior) \subseteq Leaves(m.head)
  BY <1>2, <1>3, PrefixLeaves
<1>5. CASE service[m.to] = m.prior
  <2>1. service' = [service EXCEPT ![m.to] = m.head]
    BY <1>5 DEF ServiceCommit
  <2>2. QED
    BY <1>4, <1>5, <2>1 DEF Typed, TypeOK
<1>6. CASE service[m.to] # m.prior
  BY <1>6 DEF ServiceCommit
<1>7. QED
  BY <1>5, <1>6

LEMMA StartKeeps ==
  ASSUME Typed, IInv, NEW r \in Runs, Start(r)
  PROVE  IInv'
<1>1. \A q \in Runs : pc'[q] = "commit" <=> pc[q] = "commit"
  BY DEF Start, Typed, TypeOK
<1>2. RequestsSound'
  BY DEF Start, Request, IInv, RequestsSound
<1>3. CommitsSound' /\ AnsweredServices' /\ RepliesToCommits'
  BY <1>1 DEF Start, IInv, CommitsSound, AnsweredServices, RepliesToCommits
<1>4. LedgerUnique' /\ ServicesUnique' /\ ReleasedOnRecord'
  BY DEF Start, IInv, LedgerUnique, ServicesUnique, ReleasedOnRecord
<1>5. QED
  BY <1>2, <1>3, <1>4 DEF IInv

LEMMA ReceiveReceiptKeeps ==
  ASSUME Typed, IInv, NEW r \in Runs, ReceiveReceipt(r)
  PROVE  IInv'
<1>1. \A q \in Runs : /\ pc'[q] = "commit" <=> pc[q] = "commit"
                      /\ pc[q] = "commit" => receipt'[q] = receipt[q]
  BY DEF ReceiveReceipt, Typed, TypeOK
<1>2. CommitsSound' /\ AnsweredServices' /\ RepliesToCommits'
  BY <1>1 DEF ReceiveReceipt, IInv, CommitsSound, AnsweredServices, RepliesToCommits
<1>3. LedgerUnique' /\ RequestsSound' /\ ServicesUnique' /\ ReleasedOnRecord'
  BY DEF ReceiveReceipt, IInv, LedgerUnique, RequestsSound, ServicesUnique, ReleasedOnRecord
<1>4. QED
  BY <1>2, <1>3 DEF IInv

LEMMA ReadServiceKeeps ==
  ASSUME Typed, IInv, NEW r \in Runs, ReadService(r)
  PROVE  IInv'
<1>1. \A q \in Runs : pc[q] = "commit" => next'[q] = next[q]
  BY DEF ReadService, Typed, TypeOK
<1>2. CommitsSound' /\ AnsweredServices' /\ RepliesToCommits'
  BY <1>1 DEF ReadService, IInv, CommitsSound, AnsweredServices, RepliesToCommits
<1>3. LedgerUnique' /\ RequestsSound' /\ ServicesUnique' /\ ReleasedOnRecord'
  BY DEF ReadService, IInv, LedgerUnique, RequestsSound, ServicesUnique, ReleasedOnRecord
<1>4. QED
  BY <1>2, <1>3 DEF IInv

LEMMA BeginCommitKeeps ==
  ASSUME Typed, IInv, NEW r \in Runs, BeginCommit(r)
  PROVE  IInv'
<1>1. PICK h \in view[r] \cup {service[NumServices]} :
             /\ Acceptable(r, receipt[r], h)
             /\ before' = [before EXCEPT ![r] = h]
             /\ pending' = pending \cup {Request(r, 1, h, receipt[r].head)}
  BY DEF BeginCommit
<1>2. receipt[r] \in receipts
  BY DEF BeginCommit, LastRead, Typed, HoldsReceipt
<1>3. SoundCommit(r, h, receipt[r].head)
  BY <1>1, <1>2 DEF Acceptable, SoundCommit, IInv, LedgerUnique
<1>4. RequestsSound'
  BY <1>1, <1>3 DEF Request, IInv, RequestsSound
<1>5. \A q \in Runs : /\ next'[q] = IF q = r THEN 1 ELSE next[q]
                      /\ before'[q] = IF q = r THEN h ELSE before[q]
                      /\ pc'[q] = IF q = r THEN "commit" ELSE pc[q]
  BY <1>1 DEF BeginCommit, Typed, TypeOK
<1>6. pc[r] # "commit" /\ reply[r] = "none"
  BY DEF BeginCommit, LastRead, IInv, RepliesToCommits
<1>7. CommitsSound'
  BY <1>3, <1>5 DEF BeginCommit, IInv, CommitsSound
<1>8. AnsweredServices'
  <2>1. \A i \in Services : ~(i < 1)
    BY ServicesAssumption DEF Services
  <2>2. QED
    BY <1>5, <1>6, <2>1 DEF BeginCommit, IInv, AnsweredServices
<1>9. RepliesToCommits'
  BY <1>5 DEF BeginCommit, IInv, RepliesToCommits
<1>10. LedgerUnique' /\ ServicesUnique' /\ ReleasedOnRecord'
  BY DEF BeginCommit, IInv, LedgerUnique, ServicesUnique, ReleasedOnRecord
<1>11. QED
  BY <1>4, <1>7, <1>8, <1>9, <1>10 DEF IInv

(* The answers of all the services are in before a run is released. *)
LEMMA ReceiveCommittedKeeps ==
  ASSUME Typed, IInv, NEW r \in Runs, ReceiveCommitted(r)
  PROVE  IInv'
<1>1. \A i \in Services : i <= next[r] => r \in Leaves(service[i])
  BY DEF ReceiveCommitted, IInv, AnsweredServices, Services, Typed, TypeOK
<1>2. \A q \in Runs : reply'[q] = IF q = r THEN "none" ELSE reply[q]
  BY DEF ReceiveCommitted, Typed, TypeOK
<1>3. CASE next[r] < NumServices
  <2>1. \A q \in Runs : next'[q] = IF q = r THEN next[r] + 1 ELSE next[q]
    BY <1>3 DEF ReceiveCommitted, Typed, TypeOK
  <2>2. pending' = pending \cup {Request(r, next[r] + 1, before[r], receipt[r].head)}
    BY <1>3 DEF ReceiveCommitted
  <2>3. SoundCommit(r, before[r], receipt[r].head)
    BY DEF ReceiveCommitted, IInv, CommitsSound
  <2>4. RequestsSound'
    BY <2>2, <2>3 DEF Request, IInv, RequestsSound
  <2>5. \A i \in Services : i < next[r] + 1 => i <= next[r]
    BY DEF Services, Typed, TypeOK
  <2>6. AnsweredServices'
    BY <1>1, <1>2, <1>3, <2>1, <2>5 DEF ReceiveCommitted, IInv, AnsweredServices
  <2>7. CommitsSound' /\ RepliesToCommits'
    BY <1>2, <1>3 DEF ReceiveCommitted, IInv, CommitsSound, RepliesToCommits
  <2>8. LedgerUnique' /\ ServicesUnique' /\ ReleasedOnRecord'
    BY <1>3 DEF ReceiveCommitted, IInv, LedgerUnique, ServicesUnique, ReleasedOnRecord
  <2>9. QED
    BY <2>4, <2>6, <2>7, <2>8 DEF IInv
<1>4. CASE ~(next[r] < NumServices)
  <2>1. \A i \in Services : i <= next[r]
    BY <1>4, ServicesAssumption DEF Services, Typed, TypeOK
  <2>2. ReleasedOnRecord'
    BY <1>1, <1>4, <2>1 DEF ReceiveCommitted, IInv, ReleasedOnRecord
  <2>3. \A q \in Runs : pc'[q] = IF q = r THEN "released" ELSE pc[q]
    BY <1>4 DEF ReceiveCommitted, Typed, TypeOK
  <2>4. CommitsSound' /\ AnsweredServices' /\ RepliesToCommits'
    BY <1>2, <1>4, <2>3
       DEF ReceiveCommitted, IInv, CommitsSound, AnsweredServices, RepliesToCommits
  <2>5. LedgerUnique' /\ RequestsSound' /\ ServicesUnique'
    BY <1>4 DEF ReceiveCommitted, IInv, LedgerUnique, RequestsSound, ServicesUnique
  <2>6. QED
    BY <2>2, <2>4, <2>5 DEF IInv
<1>5. QED
  BY <1>3, <1>4

LEMMA WriteRecordKeeps ==
  ASSUME Typed, IInv, NEW r \in Runs, WriteRecord(r)
  PROVE  IInv'
<1>1. \A q \in Runs : pc'[q] = "commit" <=> pc[q] = "commit"
  BY DEF WriteRecord, Typed, TypeOK
<1>2. QED
  BY <1>1 DEF WriteRecord, IInv, LedgerUnique, RequestsSound, CommitsSound, ServicesUnique,
     AnsweredServices, RepliesToCommits, ReleasedOnRecord

LEMMA LedgerConsumeKeeps ==
  ASSUME Typed, IInv, NEW m \in pending, LedgerConsume(m)
  PROVE  IInv'
<1>1. log \in TreeHead /\ m.run \in Runs
  BY DEF Typed, TypeOK
<1>2. NonceUnique(log')
  <2>1. CASE NonceOf[m.run] \notin ConsumedNonces
    BY <1>1, <2>1, AppendUnique DEF LedgerConsume, ConsumedNonces, IInv, LedgerUnique
  <2>2. CASE NonceOf[m.run] \in ConsumedNonces
    BY <2>2 DEF LedgerConsume, IInv, LedgerUnique
  <2>3. QED
    BY <2>1, <2>2
<1>3. \A c \in receipts' : c \in receipts \/ c.head = log'
  <2>1. PICK k \in 0..Len(log), res \in {"CONSUMED", "ALREADY_CONSUMED"} :
           receipts' = receipts \cup
             {[run |-> m.run, result |-> res, prior |-> SubSeq(log, 1, k), head |-> log']}
    BY DEF LedgerConsume
  <2>2. QED
    BY <2>1
<1>4. LedgerUnique'
  BY <1>2, <1>3 DEF IInv, LedgerUnique
<1>5. pending' \subseteq pending /\ UNCHANGED <<service, runVars, released>>
  BY DEF LedgerConsume
<1>6. RequestsSound' /\ CommitsSound' /\ ServicesUnique' /\ AnsweredServices'
        /\ RepliesToCommits' /\ ReleasedOnRecord'
  BY <1>5 DEF runVars, IInv, RequestsSound, CommitsSound, ServicesUnique, AnsweredServices,
     RepliesToCommits, ReleasedOnRecord
<1>7. QED
  BY <1>4, <1>6 DEF IInv

LEMMA RestoreLedgerKeeps ==
  ASSUME Typed, IInv, RestoreLedger
  PROVE  IInv'
<1>1. PICK k \in 0..(Len(log) - 1) : log' = SubSeq(log, 1, k)
  BY DEF RestoreLedger
<1>2. k \in 0..Len(log)
  BY DEF Typed, TypeOK, TreeHead
<1>3. NonceUnique(log')
  BY <1>1, <1>2, CutUnique DEF Typed, TypeOK, IInv, LedgerUnique
<1>4. UNCHANGED <<receipts, service, pending, runVars, released>>
  BY DEF RestoreLedger
<1>5. QED
  BY <1>3, <1>4 DEF runVars, IInv, LedgerUnique, RequestsSound, CommitsSound, ServicesUnique,
     AnsweredServices, RepliesToCommits, ReleasedOnRecord

LEMMA ServiceCommitKeeps ==
  ASSUME Typed, IInv, NEW m \in pending, ServiceCommit(m)
  PROVE  IInv'
<1>1. m.to \in Services /\ m.run \in Runs
  BY DEF ServiceCommit, Typed, TypeOK
<1>2. m.to # Ledger
  BY <1>1 DEF Services, Ledger
<1>3. SoundCommit(m.run, m.prior, m.head)
  BY <1>2 DEF IInv, RequestsSound
<1>4. \A i \in Services : Leaves(service[i]) \subseteq Leaves(service'[i])
  BY ServicesKeepLeaves
<1>5. ServicesUnique'
  BY <1>1, <1>3 DEF ServiceCommit, IInv, ServicesUnique, SoundCommit, Typed, TypeOK
<1>6. ReleasedOnRecord'
  BY <1>4 DEF ServiceCommit, IInv, ReleasedOnRecord
<1>7. \A q \in Runs : reply'[q] = "COMMITTED" =>
        \/ reply[q] = "COMMITTED"
        \/ /\ q = m.run /\ pc[q] = "commit" /\ next[q] = m.to
           /\ service'[m.to] = m.head
  BY <1>1 DEF ServiceCommit, Typed, TypeOK
<1>8. AnsweredServices'
  <2> SUFFICES ASSUME NEW r \in Runs, NEW i \in Services, pc[r] = "commit",
                      i < next[r] \/ (i = next[r] /\ reply'[r] = "COMMITTED")
               PROVE  r \in Leaves(service'[i])
    BY DEF ServiceCommit, AnsweredServices
  <2>1. CASE i < next[r] \/ reply[r] = "COMMITTED"
    BY <1>4, <2>1 DEF IInv, AnsweredServices
  <2>2. CASE i = next[r] /\ reply[r] # "COMMITTED" /\ reply'[r] = "COMMITTED"
    BY <1>3, <1>7, <2>2 DEF SoundCommit
  <2>3. QED
    BY <2>1, <2>2
<1>9. RepliesToCommits'
  BY <1>1 DEF ServiceCommit, IInv, RepliesToCommits, Typed, TypeOK
<1>10. LedgerUnique' /\ RequestsSound' /\ CommitsSound'
  BY DEF ServiceCommit, IInv, LedgerUnique, RequestsSound, CommitsSound
<1>11. QED
  BY <1>5, <1>6, <1>8, <1>9, <1>10 DEF IInv

LEMMA IInvStep == Typed /\ IInv /\ [Next]_vars => IInv'
<1> SUFFICES ASSUME Typed, IInv, [Next]_vars
             PROVE  IInv'
  OBVIOUS
<1>1. ASSUME NEW r \in Runs, Start(r)
      PROVE  IInv'
  BY <1>1, StartKeeps
<1>2. ASSUME NEW r \in Runs, ReceiveReceipt(r) \/ ReadService(r)
      PROVE  IInv'
  BY <1>2, ReceiveReceiptKeeps, ReadServiceKeeps
<1>3. ASSUME NEW r \in Runs, BeginCommit(r) \/ ReceiveCommitted(r) \/ WriteRecord(r)
      PROVE  IInv'
  BY <1>3, BeginCommitKeeps, ReceiveCommittedKeeps, WriteRecordKeeps
<1>4. ASSUME NEW r \in Runs,
             RejectReceipt(r) \/ RejectSplitView(r) \/ ReceiveStale(r) \/ GiveUp(r)
      PROVE  IInv'
  BY <1>4, StopKeeps DEF RejectReceipt, RejectSplitView, ReceiveStale, GiveUp
<1>5. ASSUME NEW m \in pending, LedgerConsume(m) \/ ServiceCommit(m)
      PROVE  IInv'
  BY <1>5, LedgerConsumeKeeps, ServiceCommitKeeps
<1>6. CASE RestoreLedger
  BY <1>6, RestoreLedgerKeeps
<1>7. CASE UNCHANGED vars
  BY <1>7 DEF vars, runVars, IInv, LedgerUnique, RequestsSound, CommitsSound, ServicesUnique,
     AnsweredServices, RepliesToCommits, ReleasedOnRecord
<1>8. QED
  BY <1>1, <1>2, <1>3, <1>4, <1>5, <1>6, <1>7 DEF Next, RunStep

LEMMA InvariantHolds == Spec => [](Typed /\ IInv)
<1>1. Init => IInv
  BY DEF Init, IInv, LedgerUnique, RequestsSound, CommitsSound, ServicesUnique,
     AnsweredServices, RepliesToCommits, ReleasedOnRecord, NonceUnique, Bootstrap
<1>2. QED
  BY <1>1, AlwaysTyped, IInvStep, PTL DEF Spec

(* Once a run is released, the head of every service commits to its leaf    *)
(* for ever after, for any number of services (commit's ordered CAS).       *)
THEOREM ReleasesStayOnRecord == Spec => []ReleasedOnRecord
BY InvariantHolds, PTL DEF IInv

(* No nonce is ever released twice, however many runs are given it and      *)
(* whatever is delayed, replayed, lost, or forgotten by the ledger.         *)
THEOREM OneTimeRelease == Spec => []OneReleasePerNonce
<1>1. Typed /\ IInv => OneReleasePerNonce
  <2> SUFFICES ASSUME Typed, IInv, NEW r \in released, NEW q \in released,
                      NonceOf[r] = NonceOf[q]
               PROVE  r = q
    BY DEF OneReleasePerNonce
  <2>1. r \in Leaves(service[1]) /\ q \in Leaves(service[1])
    BY FirstService DEF IInv, ReleasedOnRecord
  <2>2. service[1] \in TreeHead /\ NonceUnique(service[1])
    BY FirstService DEF IInv, ServicesUnique, Typed, TypeOK
  <2>3. QED
    BY <2>1, <2>2, UniqueLeaf
<1>2. QED
  BY <1>1, InvariantHolds, PTL

-----------------------------------------------------------------------------
(* The order of the commits.                                                *)

(***************************************************************************)
(* Prefixes.                                                               *)
(***************************************************************************)

LEMMA PrefixAt ==
  ASSUME NEW s \in TreeHead, NEW t \in TreeHead
  PROVE  IsPrefix(s, t) <=> Len(s) <= Len(t) /\ \A i \in 1..Len(s) : s[i] = t[i]
<1>1. ASSUME Len(s) <= Len(t)
      PROVE  SubSeq(s, 1, Len(s)) = SubSeq(t, 1, Len(s)) <=> \A i \in 1..Len(s) : s[i] = t[i]
  <2>1. \A i \in 1..Len(s) : SubSeq(s, 1, Len(s))[i] = s[i] /\ SubSeq(t, 1, Len(s))[i] = t[i]
    BY <1>1 DEF TreeHead
  <2>2. /\ SubSeq(s, 1, Len(s)) = [i \in 1..Len(s) |-> s[i]]
        /\ SubSeq(t, 1, Len(s)) = [i \in 1..Len(s) |-> t[i]]
    BY <1>1 DEF TreeHead
  <2>3. QED
    BY <2>1, <2>2
<1>2. QED
  BY <1>1 DEF IsPrefix

LEMMA PrefixReflexive ==
  ASSUME NEW s \in TreeHead
  PROVE  IsPrefix(s, s)
BY PrefixAt DEF TreeHead

LEMMA PrefixTransitive ==
  ASSUME NEW s \in TreeHead, NEW t \in TreeHead, NEW u \in TreeHead,
         IsPrefix(s, t), IsPrefix(t, u)
  PROVE  IsPrefix(s, u)
<1>1. Len(s) \in Nat /\ Len(t) \in Nat /\ Len(u) \in Nat
  BY DEF TreeHead
<1>2. /\ Len(s) <= Len(t) /\ \A i \in 1..Len(s) : s[i] = t[i]
      /\ Len(t) <= Len(u) /\ \A i \in 1..Len(t) : t[i] = u[i]
  BY PrefixAt
<1>3. Len(s) <= Len(u) /\ \A i \in 1..Len(s) : s[i] = u[i]
  BY <1>1, <1>2
<1>4. QED
  BY <1>3, PrefixAt

LEMMA PrefixBoth ==
  ASSUME NEW s \in TreeHead, NEW t \in TreeHead, IsPrefix(s, t), IsPrefix(t, s)
  PROVE  s = t
<1>1. Len(s) \in Nat /\ Len(t) \in Nat
  BY DEF TreeHead
<1>2. Len(s) = Len(t) /\ \A i \in 1..Len(s) : s[i] = t[i]
  BY <1>1, PrefixAt
<1>3. QED
  BY <1>2 DEF TreeHead

(***************************************************************************)
(* The invariant: where a head has been seen or committed, and by whom.    *)
(***************************************************************************)

Extended(h) == \A j \in Services : IsPrefix(h, service[j])

(* The first service leaves a head only when all services have reached it. *)
Shared(h) == h = service[1] \/ Extended(h)

Reached(h, i) == IsPrefix(h, service[i]) /\ Shared(h)

Started == {"commit", "released", "recorded", "failed"}

EndsWith(h, r) == h # Bootstrap /\ h[Len(h)] = r

Successor(r, prior, h) ==
  /\ IsPrefix(prior, h) /\ Len(prior) < Len(h)
  /\ EndsWith(h, r)
  /\ Extended(prior)

OwnLeafLast == \A c \in receipts : c.result = "CONSUMED" => EndsWith(c.head, c.run)

LoopAtFirst == \A r \in Runs : pc[r] \in {"idle", "consume"} => next[r] = 1

ReadsSound ==
  \A r \in Runs, i \in Services :
    pc[r] = "read" /\ i < next[r] => \E h \in view[r] : IsPrefix(h, service[i])

RequestsOrdered ==
  \A m \in pending : m.to # Ledger =>
    /\ pc[m.run] \in Started
    /\ pc[m.run] = "commit" => m.head = receipt[m.run].head
    /\ Successor(m.run, m.prior, m.head)
    /\ \A i \in Services : i < m.to => Reached(m.head, i)

Answered(r, i) == i < next[r] \/ (i = next[r] /\ reply[r] = "COMMITTED")

CommitsOrdered ==
  \A r \in Runs : pc[r] = "commit" =>
    /\ Successor(r, before[r], receipt[r].head)
    /\ \A i \in Services : Answered(r, i) => Reached(receipt[r].head, i)

FirstIsStarted == \A r \in Runs : EndsWith(service[1], r) => pc[r] \in Started

OrderInv ==
  /\ OwnLeafLast
  /\ LoopAtFirst
  /\ ReadsSound
  /\ RequestsOrdered
  /\ CommitsOrdered
  /\ FirstIsStarted
  /\ EarlierServicesAhead

(* What is said of the services holds on where none of them moves.          *)
LEMMA ServicesStill ==
  ASSUME UNCHANGED service
  PROVE  /\ \A h : Extended(h)' <=> Extended(h)
         /\ \A h, i : Reached(h, i)' <=> Reached(h, i)
         /\ \A r, s, h : Successor(r, s, h)' <=> Successor(r, s, h)
         /\ EarlierServicesAhead' <=> EarlierServicesAhead
BY DEF Extended, Shared, Reached, Successor, EndsWith, EarlierServicesAhead

LEMMA StopOrder ==
  ASSUME Typed, OrderInv, NEW r \in Runs, Stop(r), UNCHANGED <<receipts, service, pending>>
  PROVE  OrderInv'
<1>1. \A q \in Runs : /\ pc'[q] = IF q = r THEN "failed" ELSE pc[q]
                      /\ q # r => /\ before'[q] = before[q] /\ receipt'[q] = receipt[q]
                                  /\ next'[q] = next[q] /\ reply'[q] = reply[q]
                                  /\ view'[q] = view[q]
  BY DEF Stop, Typed, TypeOK
<1>2. RequestsOrdered'
  BY <1>1, ServicesStill DEF OrderInv, RequestsOrdered, Started, Typed, TypeOK
<1>3. CommitsOrdered'
  BY <1>1, ServicesStill DEF OrderInv, CommitsOrdered, Answered
<1>4. ReadsSound' /\ LoopAtFirst'
  BY <1>1 DEF OrderInv, ReadsSound, LoopAtFirst
<1>5. FirstIsStarted'
  BY <1>1 DEF OrderInv, FirstIsStarted, EndsWith, Started
<1>6. OwnLeafLast' /\ EarlierServicesAhead'
  BY ServicesStill DEF OrderInv, OwnLeafLast, EndsWith
<1>7. QED
  BY <1>2, <1>3, <1>4, <1>5, <1>6 DEF OrderInv

LEMMA StartOrder ==
  ASSUME Typed, OrderInv, NEW r \in Runs, Start(r)
  PROVE  OrderInv'
<1>1. \A q \in Runs : pc'[q] = IF q = r THEN "consume" ELSE pc[q]
  BY DEF Start, Typed, TypeOK
<1>2. pc[r] = "idle" /\ UNCHANGED <<receipts, service, receipt, before, next, view, reply>>
  BY DEF Start
<1>3. \A m \in pending' : m.to # Ledger => m \in pending
  BY DEF Start, Request
<1>4. RequestsOrdered'
  BY <1>1, <1>2, <1>3, ServicesStill DEF OrderInv, RequestsOrdered, Started, Typed, TypeOK
<1>5. CommitsOrdered'
  BY <1>1, <1>2, ServicesStill DEF OrderInv, CommitsOrdered, Answered
<1>6. ReadsSound' /\ LoopAtFirst' /\ OwnLeafLast' /\ EarlierServicesAhead'
  BY <1>1, <1>2, ServicesStill DEF OrderInv, ReadsSound, LoopAtFirst, OwnLeafLast, EndsWith
<1>7. FirstIsStarted'
  BY <1>1, <1>2 DEF OrderInv, FirstIsStarted, EndsWith, Started
<1>8. QED
  BY <1>4, <1>5, <1>6, <1>7 DEF OrderInv

LEMMA ReceiveReceiptOrder ==
  ASSUME Typed, OrderInv, NEW r \in Runs, ReceiveReceipt(r)
  PROVE  OrderInv'
<1>1. \A q \in Runs : /\ pc'[q] = IF q = r THEN "read" ELSE pc[q]
                      /\ q # r => receipt'[q] = receipt[q]
  BY DEF ReceiveReceipt, Typed, TypeOK
<1>2. pc[r] = "consume" /\ UNCHANGED <<receipts, service, pending, before, next, view, reply>>
  BY DEF ReceiveReceipt
<1>3. RequestsOrdered'
  BY <1>1, <1>2, ServicesStill DEF OrderInv, RequestsOrdered, Started, Typed, TypeOK
<1>4. CommitsOrdered'
  BY <1>1, <1>2, ServicesStill DEF OrderInv, CommitsOrdered, Answered
<1>5. ReadsSound' /\ LoopAtFirst'
  <2>1. next[r] = 1
    BY <1>2 DEF OrderInv, LoopAtFirst
  <2>2. QED
    BY <1>1, <1>2, <2>1 DEF OrderInv, ReadsSound, LoopAtFirst, Services
<1>6. OwnLeafLast' /\ EarlierServicesAhead' /\ FirstIsStarted'
  BY <1>1, <1>2, ServicesStill DEF OrderInv, OwnLeafLast, FirstIsStarted, EndsWith, Started
<1>7. QED
  BY <1>3, <1>4, <1>5, <1>6 DEF OrderInv

LEMMA ReadServiceOrder ==
  ASSUME Typed, OrderInv, NEW r \in Runs, ReadService(r)
  PROVE  OrderInv'
<1>1. /\ pc[r] = "read" /\ next[r] < NumServices
      /\ view' = [view EXCEPT ![r] = @ \cup {service[next[r]]}]
      /\ next' = [next EXCEPT ![r] = @ + 1]
      /\ UNCHANGED <<receipts, service, pending, pc, receipt, before, reply>>
  BY DEF ReadService
<1>2. \A q \in Runs : q # r => next'[q] = next[q] /\ view'[q] = view[q]
  BY <1>1 DEF Typed, TypeOK
<1>3. next'[r] = next[r] + 1 /\ view'[r] = view[r] \cup {service[next[r]]}
  BY <1>1 DEF Typed, TypeOK
<1>4. ReadsSound'
  <2> SUFFICES ASSUME NEW q \in Runs, NEW i \in Services, pc[q] = "read", i < next'[q]
               PROVE  \E h \in view'[q] : IsPrefix(h, service[i])
    BY <1>1 DEF ReadsSound
  <2>1. CASE q # r \/ i < next[r]
    BY <1>2, <1>3, <2>1 DEF OrderInv, ReadsSound
  <2>2. CASE q = r /\ ~(i < next[r])
    <3>1. i = next[r]
      BY <1>3, <2>2 DEF Services, Typed, TypeOK
    <3>2. IsPrefix(service[i], service[i])
      BY PrefixReflexive DEF Typed, TypeOK
    <3>3. QED
      BY <1>3, <2>2, <3>1, <3>2
  <2>3. QED
    BY <2>1, <2>2
<1>5. RequestsOrdered' /\ FirstIsStarted' /\ OwnLeafLast' /\ EarlierServicesAhead'
  BY <1>1, ServicesStill DEF OrderInv, RequestsOrdered, FirstIsStarted, OwnLeafLast, EndsWith
<1>6. CommitsOrdered' /\ LoopAtFirst'
  BY <1>1, <1>2, ServicesStill DEF OrderInv, CommitsOrdered, LoopAtFirst, Answered
<1>7. QED
  BY <1>4, <1>5, <1>6 DEF OrderInv

(* Every service has reached a head that all of them were read to have.      *)
LEMMA UnanimousExtended ==
  ASSUME Typed, OrderInv, NEW r \in Runs, LastRead(r), NEW h, Unanimous(r, h)
  PROVE  h = service[NumServices] /\ Extended(h)
<1>1. h = service[NumServices] /\ \A k \in view[r] : k = h
  BY DEF Unanimous
<1>2. ASSUME NEW i \in Services PROVE IsPrefix(h, service[i])
  <2>1. CASE i < NumServices
    BY <1>1, <2>1 DEF LastRead, OrderInv, ReadsSound
  <2>2. CASE ~(i < NumServices)
    <3>1. i = NumServices
      BY <2>2, ServicesAssumption DEF Services
    <3>2. QED
      BY <1>1, <3>1, PrefixReflexive DEF Typed, TypeOK
  <2>3. QED
    BY <2>1, <2>2
<1>3. QED
  BY <1>1, <1>2 DEF Extended

LEMMA BeginCommitOrder ==
  ASSUME Typed, IInv, OrderInv, NEW r \in Runs, BeginCommit(r)
  PROVE  OrderInv'
<1>1. PICK h \in view[r] \cup {service[NumServices]} :
             /\ Unanimous(r, h)
             /\ Acceptable(r, receipt[r], h)
             /\ before' = [before EXCEPT ![r] = h]
             /\ pending' = pending \cup {Request(r, 1, h, receipt[r].head)}
  BY DEF BeginCommit
<1>2. /\ pc[r] = "read" /\ reply[r] = "none"
      /\ UNCHANGED <<receipts, service, receipt, reply>>
  BY DEF BeginCommit, LastRead, IInv, RepliesToCommits
<1>3. Successor(r, h, receipt[r].head)
  <2>1. Extended(h)
    BY <1>1, UnanimousExtended DEF BeginCommit
  <2>2. EndsWith(receipt[r].head, r)
    BY <1>1, <1>2 DEF Acceptable, OrderInv, OwnLeafLast, Typed, HoldsReceipt
  <2>3. QED
    BY <1>1, <2>1, <2>2 DEF Acceptable, Successor, Typed, TypeOK, TreeHead
<1>4. \A q \in Runs : /\ next'[q] = IF q = r THEN 1 ELSE next[q]
                      /\ before'[q] = IF q = r THEN h ELSE before[q]
                      /\ pc'[q] = IF q = r THEN "commit" ELSE pc[q]
                      /\ q # r => view'[q] = view[q]
  BY <1>1 DEF BeginCommit, Typed, TypeOK
<1>5. \A i \in Services : ~(i < 1)
  BY ServicesAssumption DEF Services
<1>6. RequestsOrdered'
  <2> SUFFICES ASSUME NEW m \in pending', m.to # Ledger
               PROVE  /\ pc'[m.run] \in Started
                      /\ pc'[m.run] = "commit" => m.head = receipt[m.run].head
                      /\ Successor(m.run, m.prior, m.head)
                      /\ \A i \in Services : i < m.to => Reached(m.head, i)
    BY <1>2, ServicesStill DEF RequestsOrdered
  <2>1. CASE m \in pending
    <3>1. m.run \in Runs /\ m.run # r
      BY <1>2, <2>1 DEF OrderInv, RequestsOrdered, Started, Typed, TypeOK
    <3>2. QED
      BY <1>4, <2>1, <3>1 DEF OrderInv, RequestsOrdered
  <2>2. CASE m = Request(r, 1, h, receipt[r].head)
    BY <1>3, <1>4, <1>5, <2>2 DEF Request, Started
  <2>3. QED
    BY <1>1, <2>1, <2>2
<1>7. CommitsOrdered'
  BY <1>2, <1>3, <1>4, <1>5, ServicesStill DEF OrderInv, CommitsOrdered, Answered
<1>8. ReadsSound' /\ LoopAtFirst' /\ FirstIsStarted'
  BY <1>2, <1>4 DEF OrderInv, ReadsSound, LoopAtFirst, FirstIsStarted, EndsWith, Started
<1>9. OwnLeafLast' /\ EarlierServicesAhead'
  BY <1>2, ServicesStill DEF OrderInv, OwnLeafLast, EndsWith
<1>10. QED
  BY <1>6, <1>7, <1>8, <1>9 DEF OrderInv

LEMMA ReceiveCommittedOrder ==
  ASSUME Typed, OrderInv, NEW r \in Runs, ReceiveCommitted(r)
  PROVE  OrderInv'
<1>1. /\ pc[r] = "commit" /\ reply[r] = "COMMITTED"
      /\ UNCHANGED <<receipts, service, receipt, before, view>>
  BY DEF ReceiveCommitted
<1>2. \A i \in Services : i <= next[r] => Reached(receipt[r].head, i)
  BY <1>1 DEF OrderInv, CommitsOrdered, Answered, Services, Typed, TypeOK
<1>3. \A q \in Runs : reply'[q] = IF q = r THEN "none" ELSE reply[q]
  BY DEF ReceiveCommitted, Typed, TypeOK
<1>4. OwnLeafLast' /\ EarlierServicesAhead'
  BY <1>1, ServicesStill DEF OrderInv, OwnLeafLast, EndsWith
<1>5. CASE next[r] < NumServices
  <2>1. \A q \in Runs : next'[q] = IF q = r THEN next[r] + 1 ELSE next[q]
    BY <1>5 DEF ReceiveCommitted, Typed, TypeOK
  <2>2. /\ pending' = pending \cup {Request(r, next[r] + 1, before[r], receipt[r].head)}
        /\ UNCHANGED pc
    BY <1>5 DEF ReceiveCommitted
  <2>3. \A i \in Services : i < next[r] + 1 => i <= next[r]
    BY DEF Services, Typed, TypeOK
  <2>4. RequestsOrdered'
    <3>1. Successor(r, before[r], receipt[r].head)
      BY <1>1 DEF OrderInv, CommitsOrdered
    <3>2. QED
      BY <1>1, <1>2, <2>2, <2>3, <3>1, ServicesStill
         DEF Request, OrderInv, RequestsOrdered, Started
  <2>5. CommitsOrdered'
    BY <1>1, <1>2, <1>3, <2>1, <2>2, <2>3, ServicesStill DEF OrderInv, CommitsOrdered, Answered
  <2>6. ReadsSound' /\ LoopAtFirst' /\ FirstIsStarted'
    BY <1>1, <2>1, <2>2 DEF OrderInv, ReadsSound, LoopAtFirst, FirstIsStarted, EndsWith
  <2>7. QED
    BY <1>4, <2>4, <2>5, <2>6 DEF OrderInv
<1>6. CASE ~(next[r] < NumServices)
  <2>1. UNCHANGED <<pending, next>> /\ \A q \in Runs : pc'[q] = IF q = r THEN "released" ELSE pc[q]
    BY <1>6 DEF ReceiveCommitted, Typed, TypeOK
  <2>2. RequestsOrdered'
    BY <1>1, <2>1, ServicesStill DEF OrderInv, RequestsOrdered, Started, Typed, TypeOK
  <2>3. CommitsOrdered'
    BY <1>1, <1>3, <2>1, ServicesStill DEF OrderInv, CommitsOrdered, Answered
  <2>4. ReadsSound' /\ LoopAtFirst' /\ FirstIsStarted'
    BY <1>1, <2>1 DEF OrderInv, ReadsSound, LoopAtFirst, FirstIsStarted, EndsWith, Started
  <2>5. QED
    BY <1>4, <2>2, <2>3, <2>4 DEF OrderInv
<1>7. QED
  BY <1>5, <1>6

LEMMA WriteRecordOrder ==
  ASSUME Typed, OrderInv, NEW r \in Runs, WriteRecord(r)
  PROVE  OrderInv'
<1>1. \A q \in Runs : pc'[q] = IF q = r THEN "recorded" ELSE pc[q]
  BY DEF WriteRecord, Typed, TypeOK
<1>2. /\ pc[r] = "released"
      /\ UNCHANGED <<receipts, service, pending, receipt, before, next, view, reply>>
  BY DEF WriteRecord
<1>3. RequestsOrdered'
  BY <1>1, <1>2, ServicesStill DEF OrderInv, RequestsOrdered, Started, Typed, TypeOK
<1>4. CommitsOrdered'
  BY <1>1, <1>2, ServicesStill DEF OrderInv, CommitsOrdered, Answered
<1>5. ReadsSound' /\ LoopAtFirst' /\ FirstIsStarted'
  BY <1>1, <1>2 DEF OrderInv, ReadsSound, LoopAtFirst, FirstIsStarted, EndsWith, Started
<1>6. OwnLeafLast' /\ EarlierServicesAhead'
  BY <1>2, ServicesStill DEF OrderInv, OwnLeafLast, EndsWith
<1>7. QED
  BY <1>3, <1>4, <1>5, <1>6 DEF OrderInv

(* A step of the ledger sends no commit and moves no service. *)
LEMMA LedgerOrder ==
  ASSUME Typed, OrderInv, pending' \subseteq pending, UNCHANGED <<service, runVars>>, OwnLeafLast'
  PROVE  OrderInv'
<1>1. UNCHANGED <<pc, receipt, before, next, view, reply>>
  BY DEF runVars
<1>2. RequestsOrdered' /\ CommitsOrdered'
  BY <1>1, ServicesStill DEF OrderInv, RequestsOrdered, CommitsOrdered, Answered
<1>3. ReadsSound' /\ LoopAtFirst' /\ FirstIsStarted' /\ EarlierServicesAhead'
  BY <1>1, ServicesStill DEF OrderInv, ReadsSound, LoopAtFirst, FirstIsStarted, EndsWith
<1>4. QED
  BY <1>2, <1>3 DEF OrderInv

(* The ledger appends the leaf that a new receipt is for. *)
LEMMA LedgerConsumeOrder ==
  ASSUME Typed, OrderInv, NEW m \in pending, LedgerConsume(m)
  PROVE  OrderInv'
<1>1. log \in TreeHead /\ m.run \in Runs
  BY DEF Typed, TypeOK
<1>2. \A c \in receipts' :
        c \in receipts \/ (c.result = "CONSUMED" => c.run = m.run /\ c.head = Append(log, m.run))
  <2>1. CASE NonceOf[m.run] \notin ConsumedNonces
    <3>1. PICK k \in 0..Len(log) :
            receipts' = receipts \cup {[run |-> m.run, result |-> "CONSUMED",
                                        prior |-> SubSeq(log, 1, k), head |-> log']}
      BY <2>1 DEF LedgerConsume
    <3>2. log' = Append(log, m.run)
      BY <2>1 DEF LedgerConsume
    <3>3. QED
      BY <3>1, <3>2
  <2>2. CASE NonceOf[m.run] \in ConsumedNonces
    <3>1. PICK k \in 0..Len(log) :
            receipts' = receipts \cup {[run |-> m.run, result |-> "ALREADY_CONSUMED",
                                        prior |-> SubSeq(log, 1, k), head |-> log']}
      BY <2>2 DEF LedgerConsume
    <3>2. QED
      BY <3>1
  <2>3. QED
    BY <2>1, <2>2
<1>3. EndsWith(Append(log, m.run), m.run)
  BY <1>1 DEF EndsWith, Bootstrap, TreeHead
<1>4. OwnLeafLast'
  BY <1>2, <1>3 DEF OrderInv, OwnLeafLast, EndsWith
<1>5. QED
  BY <1>4, LedgerOrder DEF LedgerConsume

(***************************************************************************)
(* A service moves.                                                        *)
(***************************************************************************)

(* What a request says where the service holds the head it expects. *)
LEMMA CommitFacts ==
  ASSUME Typed, OrderInv, NEW m \in pending, ServiceCommit(m)
  PROVE  /\ m.to \in Services /\ m.run \in Runs /\ m.prior \in TreeHead /\ m.head \in TreeHead
         /\ Successor(m.run, m.prior, m.head)
         /\ pc[m.run] \in Started
         /\ pc[m.run] = "commit" => m.head = receipt[m.run].head
         /\ \A i \in Services : i < m.to => Reached(m.head, i)
<1>1. m.to \in Services /\ m.to # Ledger
  BY DEF ServiceCommit, Services, Ledger
<1>2. QED
  BY <1>1 DEF Typed, TypeOK, OrderInv, RequestsOrdered

LEMMA ServicesGrow ==
  ASSUME Typed, OrderInv, NEW m \in pending, ServiceCommit(m)
  PROVE  \A i \in Services : IsPrefix(service[i], service'[i])
<1>1. \A i \in Services : service[i] \in TreeHead /\ IsPrefix(service[i], service[i])
  BY PrefixReflexive DEF Typed, TypeOK
<1>2. CASE service[m.to] = m.prior
  <2>1. service' = [service EXCEPT ![m.to] = m.head]
    BY <1>2 DEF ServiceCommit
  <2>2. QED
    BY <1>1, <1>2, <2>1, CommitFacts DEF Successor, Typed, TypeOK
<1>3. CASE service[m.to] # m.prior
  BY <1>1, <1>3 DEF ServiceCommit
<1>4. QED
  BY <1>2, <1>3

LEMMA ReachedStays ==
  ASSUME Typed, Typed', OrderInv, NEW m \in pending, ServiceCommit(m), NEW h \in TreeHead
  PROVE  /\ \A i \in Services : IsPrefix(h, service[i]) => IsPrefix(h, service'[i])
         /\ Extended(h) => Extended(h)'
         /\ Shared(h) => Shared(h)'
         /\ \A i \in Services : Reached(h, i) => Reached(h, i)'
<1>1. \A i \in Services : IsPrefix(h, service[i]) => IsPrefix(h, service'[i])
  BY ServicesGrow, PrefixTransitive DEF Typed, TypeOK
<1>2. Extended(h) => Extended(h)'
  BY <1>1 DEF Extended
<1>3. Shared(h) => Shared(h)'
  <2>1. CASE service'[1] = service[1]
    BY <1>2, <2>1 DEF Shared
  <2>2. CASE service'[1] # service[1]
    <3>1. m.prior = service[1]
      BY <2>2, FirstService DEF ServiceCommit, Typed, TypeOK
    <3>2. QED
      BY <1>2, <3>1, CommitFacts DEF Shared, Successor
  <2>3. QED
    BY <2>1, <2>2
<1>4. QED
  BY <1>1, <1>2, <1>3 DEF Reached

LEMMA CommittedReached ==
  ASSUME Typed, Typed', OrderInv, NEW m \in pending, ServiceCommit(m), service[m.to] = m.prior
  PROVE  Reached(m.head, m.to)'
<1>1. service'[m.to] = m.head
  BY CommitFacts DEF ServiceCommit, Typed, TypeOK
<1>2. IsPrefix(m.head, service'[m.to])
  BY <1>1, PrefixReflexive, CommitFacts
<1>3. CASE m.to = 1
  BY <1>1, <1>2, <1>3 DEF Reached, Shared
<1>4. CASE m.to # 1
  <2>1. 1 < m.to
    BY <1>4, CommitFacts DEF Services
  <2>2. Shared(m.head)
    BY <2>1, CommitFacts, FirstService DEF Reached
  <2>3. QED
    BY <1>2, <2>2, CommitFacts, ReachedStays DEF Reached
<1>5. QED
  BY <1>3, <1>4

LEMMA ServiceCommitOrder ==
  ASSUME Typed, Typed', OrderInv, NEW m \in pending, ServiceCommit(m)
  PROVE  OrderInv'
<1>1. /\ pending' \subseteq pending
      /\ UNCHANGED <<receipts, pc, receipt, before, next, view>>
  BY DEF ServiceCommit
<1>2. \A r, h, s : s \in TreeHead /\ Successor(r, s, h) => Successor(r, s, h)'
  BY ReachedStays DEF Successor, EndsWith
<1>3. RequestsOrdered'
  <2> SUFFICES ASSUME NEW n \in pending', n.to # Ledger
               PROVE  /\ pc[n.run] \in Started
                      /\ pc[n.run] = "commit" => n.head = receipt[n.run].head
                      /\ Successor(n.run, n.prior, n.head)'
                      /\ \A i \in Services : i < n.to => Reached(n.head, i)'
    BY <1>1 DEF RequestsOrdered, Successor, Reached, Shared, Extended, EndsWith
  <2>1. n \in pending /\ n.prior \in TreeHead /\ n.head \in TreeHead
    BY <1>1 DEF Typed, TypeOK
  <2>2. QED
    BY <1>2, <2>1, ReachedStays DEF OrderInv, RequestsOrdered
<1>4. CommitsOrdered'
  <2> SUFFICES ASSUME NEW r \in Runs, pc[r] = "commit"
               PROVE  /\ Successor(r, before[r], receipt[r].head)'
                      /\ \A i \in Services : Answered(r, i)' => Reached(receipt[r].head, i)'
    BY <1>1 DEF CommitsOrdered
  <2>1. before[r] \in TreeHead /\ receipt[r].head \in TreeHead
    BY DEF Typed, TypeOK, HoldsReceipt, Receipt
  <2>2. Successor(r, before[r], receipt[r].head)'
    BY <1>1, <1>2, <2>1 DEF OrderInv, CommitsOrdered, Successor, Extended, EndsWith
  <2>3. ASSUME NEW i \in Services, Answered(r, i)' PROVE Reached(receipt[r].head, i)'
    <3>1. CASE Answered(r, i)
      <4>1. Reached(receipt[r].head, i)
        BY <3>1 DEF OrderInv, CommitsOrdered
      <4>2. QED
        BY <1>1, <2>1, <4>1, ReachedStays DEF Reached, Shared, Extended
    <3>2. CASE ~Answered(r, i)
      <4>1. i = next[r] /\ reply[r] # "COMMITTED" /\ reply'[r] = "COMMITTED"
        BY <1>1, <2>3, <3>2 DEF Answered
      <4>2. r = m.run /\ next[r] = m.to /\ service[m.to] = m.prior
        BY <4>1, CommitFacts DEF ServiceCommit, Typed, TypeOK
      <4>3. m.head = receipt[r].head
        BY <4>2, CommitFacts
      <4>4. QED
        BY <1>1, <4>1, <4>2, <4>3, CommittedReached DEF Reached, Shared, Extended
    <3>3. QED
      BY <3>1, <3>2
  <2>4. QED
    BY <2>2, <2>3
<1>5. ReadsSound' /\ LoopAtFirst'
  <2>1. \A r \in Runs : \A h \in view[r] : h \in TreeHead
    BY DEF Typed, TypeOK
  <2>2. QED
    BY <1>1, <2>1, ReachedStays DEF OrderInv, ReadsSound, LoopAtFirst
<1>6. FirstIsStarted'
  <2> SUFFICES ASSUME NEW r \in Runs, EndsWith(service'[1], r) PROVE pc[r] \in Started
    BY <1>1 DEF FirstIsStarted, EndsWith
  <2>1. CASE service'[1] = service[1]
    BY <2>1 DEF OrderInv, FirstIsStarted
  <2>2. CASE service'[1] # service[1]
    <3>1. service'[1] = m.head
      BY <2>2, FirstService DEF ServiceCommit, Typed, TypeOK
    <3>2. r = m.run
      BY <3>1, CommitFacts DEF Successor, EndsWith
    <3>3. QED
      BY <3>2, CommitFacts
  <2>3. QED
    BY <2>1, <2>2
<1>7. EarlierServicesAhead'
  <2> SUFFICES ASSUME NEW i \in Services, NEW j \in Services, i < j
               PROVE  IsPrefix(service'[j], service'[i])
    BY DEF EarlierServicesAhead
  <2>1. service[i] \in TreeHead /\ service[j] \in TreeHead /\ IsPrefix(service[j], service[i])
    BY DEF OrderInv, EarlierServicesAhead, Typed, TypeOK
  <2>2. CASE service'[j] = service[j]
    BY <2>1, <2>2, ReachedStays
  <2>3. CASE service'[j] # service[j]
    <3>1. m.to = j /\ service'[j] = m.head
      BY <2>3 DEF ServiceCommit, Typed, TypeOK
    <3>2. IsPrefix(m.head, service[i]) /\ m.head \in TreeHead
      BY <3>1, CommitFacts DEF Reached
    <3>3. QED
      BY <3>1, <3>2, ReachedStays
  <2>4. QED
    BY <2>2, <2>3
<1>8. OwnLeafLast'
  BY <1>1 DEF OrderInv, OwnLeafLast, EndsWith
<1>9. QED
  BY <1>3, <1>4, <1>5, <1>6, <1>7, <1>8 DEF OrderInv

LEMMA OrderStep == Typed /\ IInv /\ OrderInv /\ [Next]_vars => OrderInv'
<1> SUFFICES ASSUME Typed, IInv, OrderInv, [Next]_vars
             PROVE  OrderInv'
  OBVIOUS
<1>1. Typed'
  BY StepTyped
<1>2. ASSUME NEW r \in Runs,
             RejectReceipt(r) \/ RejectSplitView(r) \/ ReceiveStale(r) \/ GiveUp(r)
      PROVE  OrderInv'
  BY <1>2, StopOrder DEF RejectReceipt, RejectSplitView, ReceiveStale, GiveUp
<1>3. ASSUME NEW r \in Runs, Start(r) \/ ReceiveReceipt(r) \/ ReadService(r)
      PROVE  OrderInv'
  BY <1>3, StartOrder, ReceiveReceiptOrder, ReadServiceOrder
<1>4. ASSUME NEW r \in Runs, BeginCommit(r) \/ ReceiveCommitted(r) \/ WriteRecord(r)
      PROVE  OrderInv'
  BY <1>4, BeginCommitOrder, ReceiveCommittedOrder, WriteRecordOrder
<1>5. ASSUME NEW m \in pending, LedgerConsume(m) \/ ServiceCommit(m)
      PROVE  OrderInv'
  BY <1>1, <1>5, LedgerConsumeOrder, ServiceCommitOrder
<1>6. CASE RestoreLedger
  <2>1. OwnLeafLast'
    BY <1>6 DEF RestoreLedger, OrderInv, OwnLeafLast, EndsWith
  <2>2. QED
    BY <1>6, <2>1, LedgerOrder DEF RestoreLedger
<1>7. CASE UNCHANGED vars
  <2>1. OwnLeafLast'
    BY <1>7 DEF vars, OrderInv, OwnLeafLast, EndsWith
  <2>2. QED
    BY <1>7, <2>1, LedgerOrder DEF vars
<1>8. QED
  BY <1>2, <1>3, <1>4, <1>5, <1>6, <1>7 DEF Next, RunStep

LEMMA OrderHolds == Spec => [](Typed /\ IInv /\ OrderInv)
<1>1. Init => OrderInv
  <2> SUFFICES ASSUME Init PROVE OrderInv
    OBVIOUS
  <2>1. \A i \in Services : service[i] = Bootstrap
    BY DEF Init
  <2>2. EarlierServicesAhead
    BY <2>1, PrefixReflexive, BootstrapTyped DEF EarlierServicesAhead
  <2>3. FirstIsStarted
    BY <2>1, FirstService DEF FirstIsStarted, EndsWith
  <2>4. QED
    BY <2>2, <2>3 DEF Init, OrderInv, OwnLeafLast, LoopAtFirst, ReadsSound, RequestsOrdered,
       CommitsOrdered
<1>2. QED
  BY <1>1, OrderStep, InvariantHolds, PTL DEF Spec

(* No service ever holds a head that the services before it have not reached *)
(* as well, for any number of services and runs: the order of the requests   *)
(* is the order of the services (checkpoint_quorum.py 195-202).              *)
THEOREM EarlierAhead == Spec => []EarlierServicesAhead
BY OrderHolds, PTL DEF OrderInv

(***************************************************************************)
(* The last service is one linear head.                                    *)
(***************************************************************************)

LEMMA LastServiceMoves ==
  ASSUME Typed, Typed', OrderInv, NEW m \in pending, ServiceCommit(m),
         service'[NumServices] # service[NumServices]
  PROVE  LH!Advance
<1>1. service[m.to] = m.prior /\ m.to = NumServices /\ service'[NumServices] = m.head
  BY FirstService, CommitFacts DEF ServiceCommit, Typed, TypeOK
<1>2. IsStrictPrefix(m.prior, m.head)
  BY <1>1, CommitFacts DEF Successor, IsStrictPrefix
<1>3. reported' = reported
  BY DEF ServiceCommit
<1>4. QED
  BY <1>1, <1>2, <1>3, CommitFacts DEF LH!Advance

(* The last service of the order only moves to extensions, and what a        *)
(* unanimous read returned was its head at that instant, however the reads   *)
(* and commits of other runs lay between (checkpoint_quorum.py 161-174).     *)
THEOREM Refinement == Spec => ImplementsLinearHead
<1>1. Init => LH!Init
  BY FirstService DEF Init, LH!Init
<1>2. ASSUME Typed, Typed', OrderInv, [Next]_vars PROVE [LH!Next]_LH!vars
  <2>1. CASE UNCHANGED <<service, reported>>
    BY <2>1 DEF LH!vars
  <2>2. ASSUME NEW r \in Runs, BeginCommit(r) \/ RejectReceipt(r) PROVE LH!Report
    <3>1. LastRead(r) /\ UNCHANGED service
      BY <2>2 DEF BeginCommit, RejectReceipt
    <3>2. PICK h : Unanimous(r, h) /\ reported' = h
      BY <2>2 DEF BeginCommit, RejectReceipt
    <3>3. h = service[NumServices]
      BY <3>2 DEF Unanimous
    <3>4. QED
      BY <3>1, <3>2, <3>3 DEF LH!Report
  <2>3. ASSUME NEW m \in pending, ServiceCommit(m) PROVE [LH!Next]_LH!vars
    <3>1. CASE service'[NumServices] = service[NumServices]
      BY <2>3, <3>1 DEF ServiceCommit, LH!vars
    <3>2. CASE service'[NumServices] # service[NumServices]
      BY <1>2, <2>3, <3>2, LastServiceMoves DEF LH!Next
    <3>3. QED
      BY <3>1, <3>2
  <2>4. QED
    BY <1>2, <2>1, <2>2, <2>3
       DEF Next, RunStep, Start, ReceiveReceipt, ReadService, RejectSplitView, ReceiveCommitted,
           ReceiveStale, WriteRecord, GiveUp, LedgerConsume, RestoreLedger, vars, LH!Next
<1>3. QED
  BY <1>1, <1>2, OrderHolds, PTL DEF Spec, ImplementsLinearHead, LH!Spec

(***************************************************************************)
(* A commit that was abandoned half way.                                   *)
(***************************************************************************)

(* A request that could move a service finds it elsewhere. *)
LEMMA WedgedStill ==
  ASSUME Typed, OrderInv, Wedged, NEW m \in pending, ServiceCommit(m)
  PROVE  UNCHANGED service
<1> SUFFICES ASSUME service[m.to] = m.prior
             PROVE  FALSE
  BY DEF ServiceCommit
<1>1. m.head # service[1]
  BY CommitFacts DEF Wedged, Committing, Services, Ledger
<1>2. \A i \in Services : service[i] \in TreeHead
  BY DEF Typed, TypeOK
<1>3. CASE m.to = 1
  <2>1. ASSUME NEW j \in Services PROVE service[j] = service[1]
    <3>1. IsPrefix(service[1], service[j])
      BY <1>3, CommitFacts DEF Successor, Extended
    <3>2. CASE j = 1
      BY <3>2
    <3>3. CASE j # 1
      <4>1. 1 < j
        BY <3>3 DEF Services
      <4>2. IsPrefix(service[j], service[1])
        BY <4>1, FirstService DEF OrderInv, EarlierServicesAhead
      <4>3. QED
        BY <1>2, <3>1, <4>2, FirstService, PrefixBoth
    <3>4. QED
      BY <3>2, <3>3
  <2>2. QED
    BY <2>1 DEF Wedged
<1>4. CASE m.to # 1
  <2>1. 1 < m.to
    BY <1>4, CommitFacts DEF Services
  <2>2. Shared(m.head)
    BY <2>1, CommitFacts, FirstService DEF Reached
  <2>3. IsPrefix(m.head, m.prior)
    BY <1>1, <2>2, CommitFacts DEF Shared, Extended
  <2>4. Len(m.head) <= Len(m.prior) /\ Len(m.prior) < Len(m.head)
    BY <2>3, CommitFacts, PrefixAt DEF Successor
  <2>5. Len(m.head) \in Nat /\ Len(m.prior) \in Nat
    BY CommitFacts DEF TreeHead
  <2>6. QED
    BY <2>4, <2>5
<1>5. QED
  BY <1>3, <1>4

(* No step begins a commit to the head of the first service. *)
LEMMA CommitIsNew ==
  ASSUME Typed, OrderInv, NEW r \in Runs, BeginCommit(r)
  PROVE  receipt[r].head # service[1]
<1>1. pc[r] = "read" /\ receipt[r] \in receipts /\ receipt[r].run = r
        /\ receipt[r].result = "CONSUMED"
  BY DEF BeginCommit, LastRead, Acceptable, Typed, HoldsReceipt
<1>2. EndsWith(receipt[r].head, r)
  BY <1>1 DEF OrderInv, OwnLeafLast
<1>3. ~EndsWith(service[1], r)
  BY <1>1 DEF OrderInv, FirstIsStarted, Started
<1>4. QED
  BY <1>2, <1>3

LEMMA WedgedStep ==
  ASSUME Typed, OrderInv, Wedged, [Next]_vars
  PROVE  Wedged' /\ UNCHANGED service
<1> DEFINE h == service[1]
           Old == /\ \A m \in pending' : m.to # Ledger => m \in pending
                  /\ \A r \in Runs : pc'[r] = "commit" => pc[r] = "commit" /\ receipt'[r] = receipt[r]
           New == /\ \A m \in pending' : m.to # Ledger => m.head # h
                  /\ \A r \in Runs : pc'[r] = "commit" => receipt'[r].head # h
<1>1. /\ \A m \in pending : m.to # Ledger => m.head # h
      /\ \A r \in Runs : pc[r] = "commit" => receipt[r].head # h
  BY DEF Wedged, Committing
<1>2. Old => New
  BY <1>1
<1>3. ASSUME NEW r \in Runs, BeginCommit(r) PROVE New
  <2>1. receipt[r].head # h
    BY <1>3, CommitIsNew
  <2>2. PICK s : pending' = pending \cup {Request(r, 1, s, receipt[r].head)}
    BY <1>3 DEF BeginCommit
  <2>3. UNCHANGED receipt /\ \A q \in Runs : q # r => pc'[q] = pc[q]
    BY <1>3 DEF BeginCommit, Typed, TypeOK
  <2>4. QED
    BY <1>1, <2>1, <2>2, <2>3 DEF Request
<1>4. ASSUME NEW r \in Runs, ReceiveCommitted(r) PROVE New
  <2>1. receipt[r].head # h /\ UNCHANGED receipt
    BY <1>1, <1>4 DEF ReceiveCommitted
  <2>2. \A m \in pending' : m \in pending \/ m.head = receipt[r].head
    BY <1>4 DEF ReceiveCommitted, Request
  <2>3. \A q \in Runs : pc'[q] = "commit" => pc[q] = "commit"
    BY <1>4 DEF ReceiveCommitted, Typed, TypeOK
  <2>4. QED
    BY <1>1, <2>1, <2>2, <2>3
<1>5. ASSUME NEW r \in Runs,
             Start(r) \/ ReceiveReceipt(r) \/ ReadService(r) \/ WriteRecord(r)
      PROVE  Old
  BY <1>5 DEF Start, ReceiveReceipt, ReadService, WriteRecord, Request, Typed, TypeOK
<1>6. ASSUME NEW r \in Runs,
             RejectReceipt(r) \/ RejectSplitView(r) \/ ReceiveStale(r) \/ GiveUp(r)
      PROVE  Old
  BY <1>6 DEF RejectReceipt, RejectSplitView, ReceiveStale, GiveUp, Stop, Typed, TypeOK
<1>7. ASSUME NEW m \in pending, LedgerConsume(m) \/ ServiceCommit(m)
      PROVE  Old
  BY <1>7 DEF LedgerConsume, ServiceCommit, runVars
<1>8. RestoreLedger \/ UNCHANGED vars => Old
  BY DEF RestoreLedger, vars, runVars
<1>9. New
  BY <1>2, <1>3, <1>4, <1>5, <1>6, <1>7, <1>8 DEF Next, RunStep
<1>10. UNCHANGED service
  <2>1. ASSUME NEW m \in pending, ServiceCommit(m) PROVE UNCHANGED service
    BY <2>1, WedgedStill
  <2>2. QED
    BY <2>1 DEF Next, RunStep, Start, ReceiveReceipt, ReadService, BeginCommit, RejectReceipt,
       RejectSplitView, ReceiveCommitted, ReceiveStale, WriteRecord, GiveUp, LedgerConsume,
       RestoreLedger, vars
<1>11. QED
  BY <1>9, <1>10 DEF Wedged, Committing

(* Once a commit was abandoned half way no service moves again: not by a     *)
(* request sent before and handled late, nor by a run that had read the      *)
(* services before the split or reads them after it (checkpoint_quorum.py    *)
(* 177-204).                                                                 *)
THEOREM WedgeClosed == Spec => WedgeStaysClosed
<1>1. Typed /\ OrderInv /\ [Next]_vars => [Wedged => Wedged' /\ UNCHANGED service]_vars
  BY WedgedStep
<1>2. QED
  BY <1>1, OrderHolds, PTL DEF Spec, WedgeStaysClosed
=============================================================================
