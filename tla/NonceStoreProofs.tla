-------------------------- MODULE NonceStoreProofs --------------------------
(***************************************************************************)
(* Proofs about NonceStore for any number of deciders, nonces and power    *)
(* losses: the type invariant for every store, and, for a store whose      *)
(* directory "consumed" was provisioned with it, that a nonce allows one   *)
(* decision and keeps its record.                                          *)
(***************************************************************************)
EXTENDS NonceStore, TLAPS

Writing == {"sync file", "sync directory", "allow"}
Holding == Active \cup {"allow"}

-----------------------------------------------------------------------------
(* Types without the exclusion of two deciders on one record. *)
Typed ==
  /\ consumed \in {{}, {"seen"}, {"seen", "kept"}}
  /\ record \in [Tokens -> Deciders \cup {Absent, Empty}]
  /\ kept \subseteq Tokens
  /\ synced \subseteq Tokens
  /\ pc \in [Deciders -> {"deciding", "create", "allow", "deny"} \cup Active]
  /\ allowed \subseteq Deciders
  /\ outages \in 0..MaxOutages

(* Whoever created a record and still works on it is the only one to.  This *)
(* needs no provisioned directory: a power loss ends all work.              *)
Exclusive ==
  /\ \A d \in Deciders : pc[d] \in Active => record[TokenOf[d]] # Absent
  /\ \A c, d \in Deciders :
       pc[c] \in Active /\ pc[d] \in Active /\ TokenOf[c] = TokenOf[d] => c = d

LEMMA TypedInit == Init => Typed /\ Exclusive
  BY TokenOfAssumption, ProvisionedAssumption, OutagesAssumption
     DEF Init, Typed, Exclusive, Active, Absent, Empty

(* What Goto does to the program counters. *)
LEMMA GotoMoves ==
  ASSUME Typed, NEW d \in Deciders, NEW label, Goto(d, label)
  PROVE  /\ pc'[d] = label
         /\ \A c \in Deciders : c # d => pc'[c] = pc[c]
  BY DEF Goto, Typed

LEMMA StepTyped ==
  ASSUME Typed, NEW d \in Deciders, Step(d)
  PROVE  Typed'
<1> USE TokenOfAssumption DEF Typed, Goto
<1>1. CASE MakeConsumed(d)
  BY <1>1 DEF MakeConsumed, Active
<1>2. CASE CreateNew(d)
  BY <1>2 DEF CreateNew, Active
<1>3. CASE Write(d)
  BY <1>3 DEF Write, Active
<1>4. CASE SyncRecord(d)
  BY <1>4 DEF SyncRecord, Active
<1>5. CASE Allow(d)
  BY <1>5 DEF Allow, Active, Present
<1>6. CASE Deny(d)
  BY <1>6 DEF Deny, Active
<1>7. QED
  BY <1>1, <1>2, <1>3, <1>4, <1>5, <1>6 DEF Step

LEMMA NextTyped == Typed /\ [Next]_vars => Typed'
<1> SUFFICES ASSUME Typed, [Next]_vars PROVE Typed'
  OBVIOUS
<1>1. ASSUME NEW d \in Deciders, Step(d) PROVE Typed'
  BY <1>1, StepTyped
<1>2. CASE WriteBack
  BY <1>2 DEF WriteBack, Typed, Present
<1>3. CASE PowerLoss
  <2>1. consumed' \in {{}, {"seen"}, {"seen", "kept"}} /\ kept' \subseteq Tokens
    BY <1>3 DEF PowerLoss, Typed
  <2>2. record' \in [Tokens -> Deciders \cup {Absent, Empty}]
    BY <1>3 DEF PowerLoss, Typed
  <2>3. pc' \in [Deciders -> {"deciding", "create", "allow", "deny"} \cup Active]
    BY <1>3 DEF PowerLoss, Typed
  <2>4. outages' \in 0..MaxOutages
    BY <1>3, OutagesAssumption DEF PowerLoss, Typed
  <2>5. QED
    BY <1>3, <2>1, <2>2, <2>3, <2>4 DEF PowerLoss, Typed
<1>4. CASE UNCHANGED vars
  BY <1>4 DEF vars, Typed
<1>5. QED
  BY <1>1, <1>2, <1>3, <1>4 DEF Next

LEMMA StepExclusive ==
  ASSUME Typed, Exclusive, NEW d \in Deciders, Step(d)
  PROVE  Exclusive'
<1>1. CASE MakeConsumed(d)
  <2>1. \A c \in Deciders : pc'[c] \in Active => pc[c] \in Active
    BY <1>1, GotoMoves DEF MakeConsumed, Active
  <2>2. QED
    BY <1>1, <2>1 DEF MakeConsumed, Exclusive
<1>2. CASE CreateNew(d)
  <2>1. \A c \in Deciders : pc[c] \in Active => TokenOf[c] # TokenOf[d]
    BY <1>2 DEF CreateNew, Exclusive
  <2>2. /\ record'[TokenOf[d]] # Absent
        /\ \A t \in Tokens : t # TokenOf[d] => record'[t] = record[t]
    BY <1>2, TokenOfAssumption DEF CreateNew, Typed, Absent, Empty
  <2>3. \A c \in Deciders : c # d => pc'[c] = pc[c]
    BY <1>2, GotoMoves DEF CreateNew
  <2>4. QED
    BY <2>1, <2>2, <2>3, TokenOfAssumption DEF Exclusive
<1>3. CASE Write(d)
  <2>1. \A c \in Deciders : pc'[c] \in Active => pc[c] \in Active
    BY <1>3, GotoMoves DEF Write, Active
  <2>2. \A t \in Tokens : record[t] # Absent => record'[t] # Absent
    BY <1>3, TokenOfAssumption, MarksAssumption DEF Write, Typed
  <2>3. QED
    BY <2>1, <2>2, TokenOfAssumption DEF Exclusive
<1>4. CASE SyncRecord(d)
  <2>1. \A c \in Deciders : pc'[c] \in Active => pc[c] \in Active
    BY <1>4, GotoMoves DEF SyncRecord, Active
  <2>2. QED
    BY <1>4, <2>1 DEF SyncRecord, Exclusive
<1>5. CASE Allow(d)
  <2>1. \A c \in Deciders : pc'[c] \in Active => pc[c] \in Active
    BY <1>5, GotoMoves DEF Allow, Active
  <2>2. QED
    BY <1>5, <2>1 DEF Allow, Exclusive
<1>6. CASE Deny(d)
  <2>1. \A c \in Deciders : pc'[c] \in Active => pc[c] \in Active
    BY <1>6, GotoMoves DEF Deny, Active
  <2>2. QED
    BY <1>6, <2>1 DEF Deny, Exclusive
<1>7. QED
  BY <1>1, <1>2, <1>3, <1>4, <1>5, <1>6 DEF Step

LEMMA NextExclusive == Typed /\ Exclusive /\ [Next]_vars => Exclusive'
<1> SUFFICES ASSUME Typed, Exclusive, [Next]_vars PROVE Exclusive'
  OBVIOUS
<1>1. ASSUME NEW d \in Deciders, Step(d) PROVE Exclusive'
  BY <1>1, StepExclusive
<1>2. CASE WriteBack
  BY <1>2 DEF WriteBack, Exclusive
<1>3. CASE PowerLoss
  BY <1>3 DEF PowerLoss, Typed, Exclusive, Active
<1>4. CASE UNCHANGED vars
  BY <1>4 DEF vars, Exclusive
<1>5. QED
  BY <1>1, <1>2, <1>3, <1>4 DEF Next

(* TypeOK of NonceStore, for every store: in particular two deciders never  *)
(* work on one nonce record at a time (consume_atomic's exclusive create).  *)
THEOREM TypeCorrect == Spec => []TypeOK
<1>1. Typed /\ Exclusive => TypeOK
  BY DEF Typed, Exclusive, TypeOK
<1>2. QED
  BY <1>1, TypedInit, NextTyped, NextExclusive, PTL DEF Spec

-----------------------------------------------------------------------------
(* The argument for a provisioned store: from its creation on a record      *)
(* belongs to one decider, and each durability step it has passed is done.  *)
Recorded(d) ==
  /\ pc[d] \in Holding => record[TokenOf[d]] # Absent
  /\ pc[d] \in Writing => record[TokenOf[d]] = d
  /\ pc[d] \in {"sync directory", "allow"} => TokenOf[d] \in synced
  /\ pc[d] = "allow" => TokenOf[d] \in kept

SoleHolder(d) ==
  \A c \in Deciders : pc[c] \in Holding /\ pc[d] \in Holding /\ TokenOf[c] = TokenOf[d] => c = d

Owned ==
  /\ "seen" \in consumed /\ "kept" \in consumed
  /\ \A d \in allowed : pc[d] = "allow"
  /\ \A d \in Deciders : Recorded(d) /\ SoleHolder(d)

LEMMA OwnedInit == Provisioned /\ Init => Owned
  BY DEF Init, Owned, Recorded, SoleHolder, Holding, Writing, Active

LEMMA StepOwned ==
  ASSUME Typed, Owned, NEW d \in Deciders, Step(d)
  PROVE  Owned'
<1> USE TokenOfAssumption
<1>1. CASE MakeConsumed(d)
  <2>1. pc'[d] = "create" /\ pc[d] = "deciding" /\ \A c \in Deciders : c # d => pc'[c] = pc[c]
    BY <1>1, GotoMoves DEF MakeConsumed
  <2>2. QED
    BY <1>1, <2>1
       DEF MakeConsumed, Typed, Owned, Recorded, SoleHolder, Holding, Writing, Active
<1>2. CASE CreateNew(d)
  <2>1. pc'[d] = "write" /\ pc[d] = "create" /\ \A c \in Deciders : c # d => pc'[c] = pc[c]
    BY <1>2, GotoMoves DEF CreateNew
  <2>2. \A c \in Deciders : pc[c] \in Holding => TokenOf[c] # TokenOf[d]
    BY <1>2 DEF CreateNew, Owned, Recorded
  <2>3. /\ record'[TokenOf[d]] # Absent
        /\ \A t \in Tokens : t # TokenOf[d] =>
             record'[t] = record[t] /\ (t \in synced => t \in synced')
        /\ UNCHANGED <<consumed, kept, allowed>>
    BY <1>2 DEF CreateNew, Typed, Absent, Empty
  <2>4. \A c \in Deciders : Recorded(c)'
    <3>1. Recorded(d)'
      BY <2>1, <2>3 DEF Recorded, Writing
    <3>2. ASSUME NEW c \in Deciders, c # d PROVE Recorded(c)'
      <4>1. Recorded(c) /\ pc'[c] = pc[c] /\ TokenOf[c] \in Tokens
        BY <2>1, <3>2 DEF Owned
      <4>2. CASE pc[c] \in Holding
        <5>1. record'[TokenOf[c]] = record[TokenOf[c]]
              /\ (TokenOf[c] \in synced => TokenOf[c] \in synced')
              /\ kept' = kept
          BY <2>2, <2>3, <3>2, <4>1, <4>2
        <5>2. QED
          BY <4>1, <5>1 DEF Recorded
      <4>3. CASE pc[c] \notin Holding
        BY <4>1, <4>3 DEF Recorded, Holding, Writing, Active
      <4>4. QED
        BY <4>2, <4>3
    <3>3. QED
      BY <3>1, <3>2
  <2>5. \A c \in Deciders : SoleHolder(c)'
    BY <2>1, <2>2 DEF Owned, SoleHolder
  <2>6. \A c \in allowed' : pc'[c] = "allow"
    BY <2>1, <2>3 DEF Owned, Typed
  <2>7. QED
    BY <2>3, <2>4, <2>5, <2>6 DEF Owned
<1>3. CASE Write(d)
  <2>1. pc'[d] = "sync file" /\ pc[d] = "write" /\ \A c \in Deciders : c # d => pc'[c] = pc[c]
    BY <1>3, GotoMoves DEF Write
  <2>2. \A c \in Deciders : pc[c] \in Holding /\ c # d => TokenOf[c] # TokenOf[d]
    BY <2>1 DEF Owned, SoleHolder, Holding, Active
  <2>3. /\ record'[TokenOf[d]] = d
        /\ \A t \in Tokens : t # TokenOf[d] => record'[t] = record[t]
        /\ UNCHANGED <<consumed, kept, synced, allowed>>
    BY <1>3 DEF Write, Typed
  <2>4. \A c \in Deciders : Recorded(c)'
    <3>1. Recorded(d)'
      BY <2>1, <2>3, MarksAssumption DEF Recorded, Writing
    <3>2. ASSUME NEW c \in Deciders, c # d PROVE Recorded(c)'
      <4>1. Recorded(c) /\ pc'[c] = pc[c] /\ TokenOf[c] \in Tokens
        BY <2>1, <3>2 DEF Owned
      <4>2. CASE pc[c] \in Holding
        <5>1. record'[TokenOf[c]] = record[TokenOf[c]]
              /\ (TokenOf[c] \in synced => TokenOf[c] \in synced')
              /\ kept' = kept
          BY <2>2, <2>3, <3>2, <4>1, <4>2
        <5>2. QED
          BY <4>1, <5>1 DEF Recorded
      <4>3. CASE pc[c] \notin Holding
        BY <4>1, <4>3 DEF Recorded, Holding, Writing, Active
      <4>4. QED
        BY <4>2, <4>3
    <3>3. QED
      BY <3>1, <3>2
  <2>5. \A c \in Deciders : SoleHolder(c)'
    BY <2>1, <2>2 DEF Owned, SoleHolder
  <2>6. \A c \in allowed' : pc'[c] = "allow"
    BY <2>1, <2>3 DEF Owned, Typed
  <2>7. QED
    BY <2>3, <2>4, <2>5, <2>6 DEF Owned
<1>4. CASE SyncRecord(d)
  <2>1. /\ pc'[d] = "sync directory" /\ pc[d] = "sync file"
        /\ \A c \in Deciders : c # d => pc'[c] = pc[c]
    BY <1>4, GotoMoves DEF SyncRecord
  <2>2. synced' = synced \cup {TokenOf[d]} /\ UNCHANGED <<consumed, record, kept, allowed>>
    BY <1>4 DEF SyncRecord
  <2>3. \A c \in Deciders : SoleHolder(c)'
    BY <2>1 DEF Owned, SoleHolder, Holding, Active
  <2>4. \A c \in Deciders : Recorded(c)'
    BY <2>1, <2>2 DEF Owned, Recorded, Holding, Writing, Active
  <2>5. QED
    BY <2>1, <2>2, <2>3, <2>4 DEF Owned, Typed
<1>5. CASE Allow(d)
  <2>1. /\ pc'[d] = "allow" /\ pc[d] = "sync directory"
        /\ \A c \in Deciders : c # d => pc'[c] = pc[c]
    BY <1>5, GotoMoves DEF Allow
  <2>2. /\ kept \subseteq kept' /\ allowed' = allowed \cup {d}
        /\ UNCHANGED <<consumed, record, synced>>
    BY <1>5 DEF Allow
  <2>3. TokenOf[d] \in kept'
    BY <1>5, <2>1 DEF Allow, Present, Owned, Recorded, Holding, Active
  <2>4. \A c \in Deciders : SoleHolder(c)'
    BY <2>1 DEF Owned, SoleHolder, Holding, Active
  <2>5. \A c \in Deciders : Recorded(c)'
    BY <2>1, <2>2, <2>3 DEF Owned, Recorded, Holding, Writing, Active
  <2>6. QED
    BY <2>1, <2>2, <2>4, <2>5 DEF Owned, Typed
<1>6. CASE Deny(d)
  <2>1. /\ pc'[d] = "deny" /\ pc[d] # "allow"
        /\ \A c \in Deciders : c # d => pc'[c] = pc[c]
    BY <1>6, GotoMoves DEF Deny
  <2>2. UNCHANGED <<consumed, record, kept, synced, allowed>>
    BY <1>6 DEF Deny
  <2>3. \A c \in Deciders : Recorded(c)' /\ SoleHolder(c)'
    BY <2>1, <2>2 DEF Owned, Recorded, SoleHolder, Holding, Writing, Active
  <2>4. QED
    BY <2>1, <2>2, <2>3 DEF Owned, Typed
<1>7. QED
  BY <1>1, <1>2, <1>3, <1>4, <1>5, <1>6 DEF Step

LEMMA NextOwned == Typed /\ Owned /\ [Next]_vars => Owned'
<1> SUFFICES ASSUME Typed, Owned, [Next]_vars PROVE Owned'
  OBVIOUS
<1>1. ASSUME NEW d \in Deciders, Step(d) PROVE Owned'
  BY <1>1, StepOwned
<1>2. CASE WriteBack
  BY <1>2 DEF WriteBack, Owned, Recorded, SoleHolder
<1>3. CASE PowerLoss
  <2>1. \A d \in Deciders : pc'[d] \in Holding => pc[d] = "allow" /\ pc'[d] = "allow"
    BY <1>3 DEF PowerLoss, Typed, Holding, Active
  <2>2. \A t \in kept \cap synced : record'[t] = record[t]
    BY <1>3 DEF PowerLoss, Typed, Owned
  <2>3. UNCHANGED <<consumed, kept, synced, allowed>>
    BY <1>3 DEF PowerLoss, Owned
  <2>4. \A d \in Deciders : pc[d] = "allow" => pc'[d] = "allow"
    BY <1>3 DEF PowerLoss, Typed
  <2>5. QED
    <3>1. \A d \in Deciders : Recorded(d)'
      BY <2>1, <2>2, <2>3, TokenOfAssumption
         DEF Owned, Recorded, Holding, Writing, Active
    <3>2. \A d \in Deciders : SoleHolder(d)'
      BY <2>1 DEF Owned, SoleHolder, Holding
    <3>3. QED
      BY <2>3, <2>4, <3>1, <3>2 DEF Owned, Typed
<1>4. CASE UNCHANGED vars
  BY <1>4 DEF vars, Owned, Recorded, SoleHolder
<1>5. QED
  BY <1>1, <1>2, <1>3, <1>4 DEF Next

LEMMA OwnedAlways == ASSUME Provisioned PROVE Spec => [](Typed /\ Owned)
  BY TypedInit, OwnedInit, NextTyped, NextOwned, PTL DEF Spec

(* AllowedStaysRecorded: in a provisioned store no race, failure or power   *)
(* loss ever takes an allowed decision's record back.                       *)
THEOREM RecordsAreDurable ==
  ASSUME Provisioned PROVE Spec => []AllowedStaysRecorded
<1>1. Typed /\ Owned => AllowedStaysRecorded
  BY DEF Typed, Owned, Recorded, AllowedStaysRecorded, Writing
<1>2. QED
  BY <1>1, OwnedAlways, PTL

(* OneAllowPerNonce: in a provisioned store a nonce allows one decision.    *)
THEOREM OneShot == ASSUME Provisioned PROVE Spec => []OneAllowPerNonce
<1>1. Typed /\ Owned => OneAllowPerNonce
  BY DEF Typed, Owned, SoleHolder, OneAllowPerNonce, Holding
<1>2. QED
  BY <1>1, OwnedAlways, PTL
=============================================================================
