---------------------------- MODULE ChecksProofs ----------------------------
(* Proofs about the checks that one call makes by itself: the chain of a     *)
(* time stamp's certificates, the authorization of a release, the dates of   *)
(* the evidence, the packing and the extraction of an archive, and the       *)
(* statistics of a benchmark.                                                *)
EXTENDS CertificateChain, Authorization, EvidenceWindow, InputArchive, Benchmark,
        FiniteSetTheorems, TLAPS

-----------------------------------------------------------------------------
(* CertificateChain: whoever vouches for the certificate that the climb is   *)
(* at vouches for the signer of the time stamp.                              *)

Climbing ==
  /\ current \in Involved
  /\ \A trusted \in SUBSET Involved :
       Closed(trusted) /\ current \in trusted => SignerCertificate \in trusted

AtTop == chain = "accepted" => current = PinnedRoot /\ PinnedRoot.valid

ChainInv == embedded \in Tokens /\ Climbing /\ AtTop

LEMMA ChainStarts == ChainInit => ChainInv
<1> SUFFICES ASSUME ChainInit
             PROVE  ChainInv
  OBVIOUS
<1>1. embedded \in Seq(Certificates) /\ embedded # <<>>
  BY CertificateAssumption DEF ChainInit
<1>2. 1 \in DOMAIN embedded
  BY <1>1
<1>3. current = SignerCertificate /\ SignerCertificate \in Involved
  BY <1>2 DEF ChainInit, SignerCertificate, Involved
<1> QED
  BY <1>3 DEF ChainInit, ChainInv, Climbing, AtTop

(* One step up: the issuer vouches for the certificate below it.             *)
LEMMA RiseKeepsClimbing ==
  ASSUME ChainInv, Rise
  PROVE  Climbing'
<1>1. PICK issuer \in Issuers : Vouches(issuer, current) /\ current' = issuer
  BY DEF Rise
<1>2. issuer \in Involved /\ current.issuer = issuer.subject
  BY <1>1 DEF Issuers, Involved
<1>3. ASSUME NEW trusted \in SUBSET Involved, Closed(trusted), issuer \in trusted
      PROVE  SignerCertificate \in trusted
  <2>1. current \in trusted
    BY <1>1, <1>2, <1>3 DEF Closed, ChainInv, Climbing
  <2> QED
    BY <2>1, <1>3 DEF ChainInv, Climbing
<1>4. UNCHANGED embedded
  BY DEF Rise
<1> QED
  BY <1>1, <1>2, <1>3, <1>4
     DEF Climbing, Involved, Closed, SignerCertificate, Vouches, SignedBy

LEMMA ChainKept == ChainInv /\ [ChainNext]_chainVars => ChainInv'
<1> SUFFICES ASSUME ChainInv, [ChainNext]_chainVars
             PROVE  ChainInv'
  OBVIOUS
<1>1. CASE Rise
  <2>1. Climbing'
    BY <1>1, RiseKeepsClimbing
  <2> QED
    BY <2>1, <1>1 DEF Rise, ChainInv, AtTop
<1>2. CASE UNCHANGED <<embedded, current>> /\ (chain' # "accepted" \/ AcceptChain \/ UNCHANGED chain)
  BY <1>2 DEF ChainInv, Climbing, AtTop, AcceptChain, AtRoot, Involved, Closed,
              SignerCertificate, Vouches, SignedBy
<1> QED
  BY <1>1, <1>2 DEF ChainNext, CheckRoot, IndexSubjects, AcceptChain, RefuseChain, chainVars

(* A time stamp is believed only if the pinned root vouches for its signer,  *)
(* whatever certificates come with it (trusted_clock.py 112-128).            *)
THEOREM ChainOfTrust == ChainSpec => []ChainSound
<1>1. ChainInv => ChainSound
  BY DEF ChainInv, ChainSound, Climbing, AtTop, Vouched, Closed
<1> QED
  BY <1>1, ChainStarts, ChainKept, PTL DEF ChainSpec

-----------------------------------------------------------------------------
(* Authorization: what the two loops have passed.                            *)

Distinct(i) ==
  \A j \in 1..(i - 1) : /\ Authorities[j].key # Authorities[i].key
                        /\ Authorities[j].custodian # Authorities[i].custodian

SignedBefore(n) ==
  \A i \in Members : i < n => [by |-> Authorities[i].key, over |-> authorization] \in signed

AuthorizationInv ==
  /\ roster \in Rosters
  /\ member \in Nat \ {0}
  /\ authorizing = "roster" => member = 1
  /\ authorizing \in {"members", "signatures", "authorized"} => Len(Authorities) >= 2
  /\ authorizing = "members" => \A i \in Members : i < member => Distinct(i)
  /\ authorizing \in {"signatures", "authorized"} =>
       /\ authorization.release = Release
       /\ \A i \in Members : Distinct(i)
  /\ authorizing = "signatures" => SignedBefore(member)
  /\ authorizing = "authorized" => \A n \in Nat : SignedBefore(n)

LEMMA MembersAreNumbers ==
  ASSUME roster \in Rosters
  PROVE  /\ Len(Authorities) \in Nat
         /\ Members = 1..Len(Authorities)
BY AuthorizationAssumption DEF Authorities, Members

LEMMA AuthorizationKept ==
  AuthorizationInv /\ [AuthorizationNext]_authorizationVars => AuthorizationInv'
<1> SUFFICES ASSUME AuthorizationInv, [AuthorizationNext]_authorizationVars
             PROVE  AuthorizationInv'
  OBVIOUS
<1>0. Len(Authorities) \in Nat /\ Members = 1..Len(Authorities)
  BY MembersAreNumbers DEF AuthorizationInv
<1> USE DEF AuthorizationInv, files, SignedBefore, Distinct, Authorities, Members
<1>1. CASE CheckRoster
  BY <1>0, <1>1 DEF CheckRoster
<1>2. CASE AdmitMember
  <2>0. member \in Nat /\ member' = member + 1 /\ \A i \in Members : i < member => Distinct(i)
    BY <1>0, <1>2 DEF AdmitMember
  <2>1. ASSUME NEW i \in Members, i < member'
        PROVE  Distinct(i)
    <3>1. CASE i < member
      BY <2>0, <3>1
    <3>2. CASE i = member
      BY <1>2, <3>2 DEF AdmitMember, Unseen
    <3> QED
      BY <1>0, <2>0, <2>1, <3>1, <3>2
  <2> QED
    BY <2>1, <1>2 DEF AdmitMember
<1>3. CASE CheckAuthorization
  <2>1. member > Len(Authorities)
    BY <1>0, <1>3 DEF CheckAuthorization
  <2>2. \A i \in Members : Distinct(i)
    BY <1>0, <1>3, <2>1 DEF CheckAuthorization
  <2> QED
    BY <1>0, <1>3, <2>2 DEF CheckAuthorization
<1>4. CASE VerifySignature
  <2>1. [by |-> Authorities[member].key, over |-> authorization] \in signed
    BY <1>4 DEF VerifySignature, SignatureVerifies
  <2>2. SignedBefore(member + 1)
    BY <1>0, <1>4, <2>1 DEF VerifySignature
  <2> QED
    BY <1>4, <2>2 DEF VerifySignature
<1>5. CASE Authorize
  <2>1. \A n \in Nat : SignedBefore(n)
    BY <1>0, <1>5 DEF Authorize
  <2> QED
    BY <1>5, <2>1 DEF Authorize
<1>6. CASE RefuseAuthorization
  BY <1>6 DEF RefuseAuthorization
<1>7. CASE UNCHANGED authorizationVars
  BY <1>7 DEF authorizationVars
<1> QED
  BY <1>1, <1>2, <1>3, <1>4, <1>5, <1>6, <1>7 DEF AuthorizationNext

(* A release is authorized only by two custodians or more, each of whom has  *)
(* signed this authorization with a key of his own (authority_bundle.py      *)
(* 71-130), for any rosters, keys and signatures that were made.             *)
THEOREM Threshold == AuthorizationSpec => []ThresholdMet
<1>1. AuthorizationInit => AuthorizationInv
  BY DEF AuthorizationInit, AuthorizationInv
<1>2. AuthorizationInv => ThresholdMet
  <2> SUFFICES ASSUME AuthorizationInv, authorizing = "authorized"
               PROVE  ThresholdMet
    BY DEF ThresholdMet
  <2>1. Len(Authorities) \in Nat /\ Members = 1..Len(Authorities) /\ Len(Authorities) >= 2
    BY MembersAreNumbers DEF AuthorizationInv
  <2>2. \A i, j \in Members :
          i # j => /\ Authorities[i].key # Authorities[j].key
                   /\ Authorities[i].custodian # Authorities[j].custodian
    BY <2>1 DEF AuthorizationInv, Distinct
  <2>3. \E i, j \in Members : Authorities[i].custodian # Authorities[j].custodian
    <3>1. 1 \in Members /\ 2 \in Members
      BY <2>1
    <3> QED
      BY <2>2, <3>1
  <2>4. \A i \in Members : [by |-> Authorities[i].key, over |-> authorization] \in signed
    <3> TAKE i \in Members
    <3>1. i + 1 \in Nat /\ i < i + 1
      BY <2>1
    <3> QED
      BY <3>1 DEF AuthorizationInv, SignedBefore
  <2> QED
    BY <2>2, <2>3, <2>4 DEF ThresholdMet, AuthorizationInv
<1> QED
  BY <1>1, <1>2, AuthorizationKept, PTL DEF AuthorizationSpec

-----------------------------------------------------------------------------
(* EvidenceWindow: what each date has been compared with.                    *)

DatesTyped ==
  /\ start \in Nat /\ end \in Nat
  /\ dispatch \in [issued : Nat, opens : Nat, closes : Nat]
  /\ results \subseteq Nat /\ evidence \subseteq Nat

WindowKnown ==
  dating \in {"results", "evidence", "allowed"} =>
    /\ dispatch.issued <= dispatch.opens
    /\ dispatch.closes - dispatch.opens <= MaxAge
    /\ start <= dispatch.closes + Skew

DatesKnown ==
  /\ \A date \in results : /\ dispatch.opens <= date
                            /\ start - MaxAge <= date /\ date <= start + Skew
  /\ \A date \in evidence : dispatch.opens <= date

WindowInv == DatesTyped /\ WindowKnown /\ DatesKnown

LEMMA WindowKept == WindowInv /\ [WindowNext]_windowVars => WindowInv'
<1> SUFFICES ASSUME WindowInv, [WindowNext]_windowVars
             PROVE  WindowInv'
  OBVIOUS
<1> USE DatesAssumption DEF WindowInv, DatesTyped, WindowKnown, DatesKnown, Dates
<1>1. CASE CheckWindow
  BY <1>1 DEF CheckWindow, WindowSound, Timely
<1>2. ASSUME NEW date \in Dates, CheckResult(date)
      PROVE  WindowInv'
  BY <1>2 DEF CheckResult, Collected
<1>3. CASE ResultsDone
  BY <1>3 DEF ResultsDone
<1>4. ASSUME NEW date \in Dates, CheckGate(date)
      PROVE  WindowInv'
  BY <1>4 DEF CheckGate, Collected
<1>5. ASSUME NEW date \in Dates, CheckEnd(date)
      PROVE  WindowInv'
  BY <1>5 DEF CheckEnd
<1>6. CASE RefuseDates
  BY <1>6 DEF RefuseDates
<1>7. CASE UNCHANGED windowVars
  BY <1>7 DEF windowVars
<1> QED
  BY <1>1, <1>2, <1>3, <1>4, <1>5, <1>6, <1>7 DEF WindowNext

(* An allowed call rests on fresh evidence (kernel.py 1229-1240, 1295-1297,  *)
(* 775-780), for any age, skew and dates: also the gates' evidence, which is *)
(* not compared with the time, but with a window that is short and not over. *)
THEOREM EvidenceIsFresh == WindowSpec => []FreshEvidence
<1>1. WindowInit => WindowInv
  BY DatesAssumption
     DEF WindowInit, WindowInv, DatesTyped, WindowKnown, DatesKnown, Dates
<1>2. WindowInv => FreshEvidence
  <2> SUFFICES ASSUME WindowInv, dating = "allowed"
               PROVE  FreshEvidence
    BY DEF FreshEvidence
  <2> USE DatesAssumption DEF WindowInv, DatesTyped, WindowKnown, DatesKnown
  <2>1. \A date \in results : /\ date >= start - MaxAge /\ date <= start + Skew
                              /\ date >= dispatch.issued
    OBVIOUS
  <2>2. \A date \in evidence : /\ date >= start - (MaxAge + Skew)
                               /\ date >= dispatch.issued
    OBVIOUS
  <2> QED
    BY <2>1, <2>2 DEF FreshEvidence
<1> QED
  BY <1>1, <1>2, WindowKept, PTL DEF WindowSpec

-----------------------------------------------------------------------------
(* InputArchive: below the destination is what the members so far say.       *)

Contents == Versions \cup Listings \cup {Directory, Nothing}

ArchiveTyped ==
  /\ tree \in [Files -> Versions \cup {Nothing}]
  /\ sums \in Listings
  /\ listing \in Listings \cup {Nothing}
  /\ archive \in Seq(Member)

LEMMA ArchiveTypedKept == ArchiveTyped /\ [ArchiveNext]_archiveVars => ArchiveTyped'
<1> SUFFICES ASSUME ArchiveTyped, [ArchiveNext]_archiveVars
             PROVE  ArchiveTyped'
  OBVIOUS
<1> USE DEF ArchiveTyped, source, building, unpacking
<1>1. CASE PackDirectory
  <2>1. PICK path : /\ FirstOf(Directories \ Written, path)
                    /\ archive' = Append(archive, DirectoryMember(path))
    BY <1>1 DEF PackDirectory
  <2>2. path \in Paths
    BY <2>1 DEF FirstOf, Paths
  <2>3. DirectoryMember(path) \in Member
    BY <2>2 DEF DirectoryMember, Member
  <2> QED
    BY <1>1, <2>1, <2>3 DEF PackDirectory
<1>2. CASE PackFile
  <2>1. PICK f \in Present \cup {SumsFile} :
          /\ FirstOf(todo, Packed(f))
          /\ archive' = Append(archive,
               FileMember(Packed(f), IF f = SumsFile THEN sums ELSE tree[f]))
    BY <1>2 DEF PackFile
  <2>2. Packed(f) \in Paths
    BY <2>1 DEF FirstOf, Paths
  <2>3. (IF f = SumsFile THEN sums ELSE tree[f]) \in Versions \cup Listings \cup {Nothing}
    BY <2>1 DEF Present
  <2>4. FileMember(Packed(f), IF f = SumsFile THEN sums ELSE tree[f]) \in Member
    BY <2>2, <2>3 DEF FileMember, Member
  <2> QED
    BY <1>2, <2>1, <2>4 DEF PackFile
<1>3. CASE PackManifest
  <2>1. FileMember(Manifest, listing) \in Member
    BY ArchiveAssumption DEF FileMember, Member
  <2> QED
    BY <1>3, <2>1 DEF PackManifest
<1>4. CASE EditTree
  BY <1>4 DEF EditTree
<1>5. CASE ParseSums
  BY <1>5 DEF ParseSums
<1>6. CASE UNCHANGED <<tree, sums, listing, archive>>
  BY <1>6
<1> QED
  BY <1>1, <1>2, <1>3, <1>4, <1>5, <1>6
     DEF ArchiveNext, Build, Extract, ReadDigest, HashFile, StartPacking, StartFiles,
         BuildFails, CallExtract, ExtractMember, ExtractReturns, RefuseArchive,
         ExtractDies, archiveVars

(* The first members of an archive make up the destination.                  *)
Extracted(members, n) ==
  /\ \A i \in 1..n : /\ destination[members[i].name] = members[i].content
                     /\ members[i].content # Nothing
  /\ \A i, j \in 1..n : i # j => members[i].name # members[j].name
  /\ \A i \in 1..n : \A path \in Paths :
       path \in Parents(members[i].name) => destination[path] = Directory
  /\ \A path \in Paths :
       \/ destination[path] = Nothing
       \/ \E i \in 1..n : path = members[i].name \/ path \in Parents(members[i].name)

ExtractInv ==
  /\ ArchiveTyped
  /\ taken \in Seq(Member)
  /\ position \in Nat \ {0}
  /\ destination \in [Paths -> Contents]
  /\ unpack = "members" => /\ exists /\ delivered = <<>>
                           /\ position <= Len(taken) + 1
                           /\ Extracted(taken, position - 1)
  /\ ~exists => destination = Empty /\ delivered = <<>>
  /\ ExtractedIsArchive

LEMMA DirectoriesArePaths ==
  ASSUME NEW path \in Paths, NEW directory \in Parents(path)
  PROVE  directory \in Paths
<1>1. PICK j \in DOMAIN PathOrder : PathOrder[j] = path
  BY DEF Paths
<1>2. PICK i \in DOMAIN PathOrder : PathOrder[i] = directory
  BY <1>1, OrderAssumption
<1> QED
  BY <1>2 DEF Paths

LEMMA MemberExtracted ==
  ASSUME ExtractInv, ExtractMember
  PROVE  /\ destination' \in [Paths -> Contents]
         /\ position' \in Nat \ {0}
         /\ position' <= Len(taken) + 1
         /\ Extracted(taken, position - 1)'
<1> DEFINE m == taken[position]
<1>0. /\ taken \in Seq(Member)
      /\ position \in DOMAIN taken
      /\ position' = position + 1
      /\ taken' = taken
  BY DEF ExtractMember, ExtractInv
<1>1. /\ position \in 1..Len(taken) /\ position \in Nat
      /\ Len(taken) \in Nat
      /\ m \in Member
      /\ m.name \in Paths /\ m.content \in Contents
  <2>1. Len(taken) \in Nat /\ DOMAIN taken = 1..Len(taken)
    BY <1>0
  <2>2. m \in Member
    BY <1>0, <2>1
  <2> QED
    BY <1>0, <2>1, <2>2 DEF Member, Contents
<1>2. /\ m.content # Nothing
      /\ \A i \in 1..(position - 1) : taken[i].name # m.name
      /\ destination[m.name] = Nothing
      /\ \A path \in Parents(m.name) : destination[path] \in {Nothing, Directory}
  BY DEF ExtractMember, Creatable, Seen
<1>3. \A path \in Paths :
        destination'[path] = IF path = m.name THEN m.content
                             ELSE IF path \in Parents(m.name) THEN Directory
                             ELSE destination[path]
  BY DEF ExtractMember
<1>4. Extracted(taken, position - 1)
  BY DEF ExtractInv, ExtractMember
<1>5. destination' \in [Paths -> Contents]
  BY <1>1 DEF ExtractMember, ExtractInv, Contents
<1>6. \A i \in 1..(position - 1) : taken[i].name \in Paths
  <2> TAKE i \in 1..(position - 1)
  <2>1. i \in 1..Len(taken)
    BY <1>1
  <2>2. taken[i] \in Member
    BY <1>0, <2>1
  <2> QED
    BY <2>2 DEF Member
<1>7. \A i \in 1..position : /\ destination'[taken[i].name] = taken[i].content
                            /\ taken[i].content # Nothing
  <2> TAKE i \in 1..position
  <2>1. CASE i = position
    BY <2>1, <1>1, <1>2, <1>3
  <2>2. CASE i \in 1..(position - 1)
    <3>1. destination[taken[i].name] = taken[i].content /\ taken[i].content # Nothing
      BY <2>2, <1>4 DEF Extracted
    <3>2. taken[i].name # m.name /\ taken[i].name \in Paths
      BY <2>2, <1>2, <1>6
    <3>3. CASE taken[i].name \in Parents(m.name)
      <4>1. taken[i].content = Directory
        BY <3>1, <3>3, <1>2
      <4> QED
        BY <4>1, <3>1, <3>2, <3>3, <1>3
    <3> QED
      BY <3>1, <3>2, <3>3, <1>3
  <2> QED
    BY <2>1, <2>2, <1>1
<1>8. \A i, j \in 1..position : i # j => taken[i].name # taken[j].name
  BY <1>1, <1>2, <1>4 DEF Extracted
<1>9. \A i \in 1..position : \A path \in Paths :
        path \in Parents(taken[i].name) => destination'[path] = Directory
  <2> TAKE i \in 1..position
  <2> TAKE path \in Paths
  <2> HAVE path \in Parents(taken[i].name)
  <2>1. CASE i = position
    <3>1. path # m.name
      BY <1>1, <2>1 DEF Parents
    <3> QED
      BY <2>1, <3>1, <1>3
  <2>2. CASE i \in 1..(position - 1)
    <3>1. destination[path] = Directory
      BY <2>2, <1>4 DEF Extracted
    <3>2. CASE path = m.name
      BY <3>1, <3>2, <1>2, ArchiveAssumption
    <3> QED
      BY <3>1, <3>2, <1>3
  <2> QED
    BY <2>1, <2>2, <1>1
<1>10. \A path \in Paths :
         \/ destination'[path] = Nothing
         \/ \E i \in 1..position : path = taken[i].name \/ path \in Parents(taken[i].name)
  <2> TAKE path \in Paths
  <2>1. position \in 1..position /\ \A i \in 1..(position - 1) : i \in 1..position
    BY <1>1
  <2>2. CASE path = m.name \/ path \in Parents(m.name)
    BY <2>1, <2>2
  <2>3. CASE path # m.name /\ path \notin Parents(m.name)
    BY <2>1, <2>3, <1>3, <1>4 DEF Extracted
  <2> QED
    BY <2>2, <2>3
<1> QED
  <2>1. position' - 1 = position
    BY <1>0, <1>1
  <2> QED
    BY <1>0, <1>1, <1>5, <1>7, <1>8, <1>9, <1>10, <2>1 DEF Extracted

(* An extraction that reaches the end has extracted the whole archive.       *)
LEMMA WholeExtracted ==
  ASSUME ExtractInv, ExtractReturns
  PROVE  destination = TreeOf(taken)
<1>1. /\ taken \in Seq(Member)
      /\ position = Len(taken) + 1
      /\ Extracted(taken, position - 1)
  BY DEF ExtractInv, ExtractReturns
<1>2. DOMAIN taken = 1..Len(taken) /\ position - 1 = Len(taken)
  BY <1>1
<1>3. Extracted(taken, Len(taken))
  BY <1>1, <1>2
<1>4. ASSUME NEW path \in Paths
      PROVE  destination[path] = TreeOf(taken)[path]
  <2>1. CASE \E i \in DOMAIN taken : taken[i].name = path
    <3> DEFINE first == CHOOSE i \in DOMAIN taken : taken[i].name = path
    <3>1. first \in DOMAIN taken /\ taken[first].name = path
      BY <2>1
    <3>2. destination[path] = taken[first].content
      BY <3>1, <1>2, <1>3 DEF Extracted
    <3> QED
      BY <2>1, <3>2 DEF TreeOf
  <2>2. CASE /\ ~\E i \in DOMAIN taken : taken[i].name = path
             /\ \E i \in DOMAIN taken : path \in Parents(taken[i].name)
    <3>1. destination[path] = Directory
      BY <2>2, <1>2, <1>3 DEF Extracted
    <3> QED
      BY <2>2, <3>1 DEF TreeOf
  <2>3. CASE /\ ~\E i \in DOMAIN taken : taken[i].name = path
             /\ ~\E i \in DOMAIN taken : path \in Parents(taken[i].name)
    <3>1. destination[path] = Nothing
      BY <2>3, <1>2, <1>3 DEF Extracted
    <3> QED
      BY <2>3, <3>1 DEF TreeOf
  <2> QED
    BY <2>1, <2>2, <2>3
<1>5. destination = [path \in Paths |-> destination[path]]
  BY DEF ExtractInv
<1> QED
  BY <1>4, <1>5 DEF TreeOf

LEMMA ExtractKept == ExtractInv /\ [ArchiveNext]_archiveVars => ExtractInv'
<1> SUFFICES ASSUME ExtractInv, [ArchiveNext]_archiveVars
             PROVE  ExtractInv'
  OBVIOUS
<1>0. ArchiveTyped'
  BY ArchiveTypedKept DEF ExtractInv
<1>1. CASE CallExtract
  <2>1. taken' \in Seq(Member)
    BY <1>1, ArchiveAssumption DEF CallExtract, Available, ExtractInv, ArchiveTyped
  <2>2. CASE Fresh
    <3>1. /\ destination' = Empty /\ delivered' = <<>>
          /\ position' = 1 /\ exists' /\ unpack' = "members"
      BY <1>1, <2>2 DEF CallExtract, Fresh, ExtractInv
    <3>2. Len(taken') \in Nat
      BY <2>1
    <3>3. \A path \in Paths : destination'[path] = Nothing
      BY <3>1 DEF Empty
    <3>4. Extracted(taken, position - 1)'
      BY <3>1, <3>3 DEF Extracted
    <3>5. destination' \in [Paths -> Contents]
      BY <3>1 DEF Empty, Contents
    <3> QED
      BY <1>0, <2>1, <3>1, <3>2, <3>4, <3>5 DEF ExtractInv, ExtractedIsArchive
  <2>3. CASE ~Fresh
    BY <1>0, <1>1, <2>1, <2>3 DEF CallExtract, Fresh, ExtractInv, ExtractedIsArchive
  <2> QED
    BY <2>2, <2>3
<1>2. CASE ExtractMember
  <2>1. /\ destination' \in [Paths -> Contents]
        /\ position' \in Nat \ {0}
        /\ position' <= Len(taken) + 1
        /\ Extracted(taken, position - 1)'
    BY <1>2, MemberExtracted
  <2>2. /\ taken' = taken /\ unpack' = unpack /\ exists' = exists /\ delivered' = delivered
        /\ exists /\ delivered = <<>>
    BY <1>2 DEF ExtractMember, ExtractInv
  <2> QED
    BY <1>0, <2>1, <2>2 DEF ExtractInv, ExtractedIsArchive
<1>3. CASE ExtractReturns
  <2>1. destination = TreeOf(taken)
    BY <1>3, WholeExtracted
  <2>2. destination' = TreeOf(delivered)'
    BY <1>3, <2>1 DEF ExtractReturns, TreeOf
  <2> QED
    BY <1>0, <1>3, <2>2 DEF ExtractReturns, ExtractInv, ExtractedIsArchive
<1>4. CASE RefuseArchive
  <2>1. Empty \in [Paths -> Contents]
    BY DEF Empty, Contents
  <2> QED
    BY <1>0, <1>4, <2>1 DEF RefuseArchive, ExtractInv, ExtractedIsArchive, Empty
<1>5. CASE ExtractDies
  BY <1>0, <1>5 DEF ExtractDies, ExtractInv, ExtractedIsArchive, TreeOf, Empty
<1>6. CASE UNCHANGED unpacking
  BY <1>0, <1>6 DEF unpacking, ExtractInv, ExtractedIsArchive, Extracted, TreeOf, Empty
<1> QED
  BY <1>1, <1>2, <1>3, <1>4, <1>5, <1>6
     DEF ArchiveNext, Build, Extract, EditTree, ReadDigest, ParseSums, HashFile,
         StartPacking, PackDirectory, StartFiles, PackFile, PackManifest, BuildFails,
         archiveVars

LEMMA ExtractStarts == ArchiveInit => ExtractInv
<1> SUFFICES ASSUME ArchiveInit
             PROVE  ExtractInv
  OBVIOUS
<1>1. destination = Empty /\ destination \in [Paths -> Contents]
  BY DEF ArchiveInit, Empty, Contents
<1>2. <<>> \in Seq(Member)
  OBVIOUS
<1> QED
  BY <1>1, <1>2 DEF ArchiveInit, ExtractInv, ArchiveTyped, ExtractedIsArchive

(* Whatever archives are extracted, however often a call dies, is refused or *)
(* is made again: what a call that returned has left is its whole archive    *)
(* and nothing else (safe_extract_tar.py 12-59).                             *)
THEOREM ExtractionExact == ArchiveSpec => []ExtractedIsArchive
<1>1. ExtractInv => ExtractedIsArchive
  BY DEF ExtractInv
<1> QED
  BY <1>1, ExtractStarts, ExtractKept, PTL DEF ArchiveSpec

-----------------------------------------------------------------------------
(* InputArchive: an archive that was packed can be unpacked, and holds what  *)
(* was reviewed if nobody edited the candidate meanwhile.                    *)

Sources == Files \cup {SumsFile}

(* Members that can be created one after the other: regular and of different *)
(* names, each below directories that came before it.                        *)
Sound(members) ==
  /\ \A i \in DOMAIN members :
       members[i].kind \in {"directory", "file"} /\ members[i].content # Nothing
  /\ \A i, j \in DOMAIN members : i # j => members[i].name # members[j].name
  /\ \A i \in DOMAIN members : \A directory \in Parents(members[i].name) :
       \E j \in 1..(i - 1) : members[j] = DirectoryMember(directory)

Reviewed(f) == IF f = SumsFile THEN sums ELSE tree[f]

InArchive(m) == \E i \in DOMAIN archive : archive[i] = m

(* The members so far, and what is still to be packed. *)
PackingInv ==
  /\ Sound(archive)
  /\ build \in {"digest", "parse", "hash"} => archive = <<>>
  /\ build = "hash" => todo \subseteq Files
  /\ build \in {"hash", "directories", "files", "done"} => listing \in Listings
  /\ build = "directories" =>
       /\ todo # {}
       /\ todo \subseteq {Packed(f) : f \in Sources}
       /\ \A i \in DOMAIN archive : /\ archive[i].name \in Directories
                                    /\ archive[i] = DirectoryMember(archive[i].name)
  /\ build = "files" =>
       /\ todo \subseteq {Packed(f) : f \in Sources}
       /\ todo \cap Written = {}
       /\ \A path \in todo : \A directory \in Parents(path) :
            InArchive(DirectoryMember(directory))
       /\ Manifest \notin Written
  /\ build = "done" => archive # <<>>

(* What was reviewed, parsed, hashed and packed is what is in the tree. *)
SteadyInv ==
  /\ build \in {"parse", "hash", "directories", "files", "done"} => reviewed = sums
  /\ build \in {"hash", "directories", "files", "done"} => listing = sums
  /\ build = "hash" =>
       /\ DOMAIN hashed = Present
       /\ \A f \in Present \ todo : hashed[f] = tree[f]
  /\ build \in {"directories", "files", "done"} => tree = sums
  /\ build = "directories" => todo = {Packed(f) : f \in Sources}
  /\ build = "files" =>
       \A f \in Sources : Packed(f) \in todo \/ InArchive(FileMember(Packed(f), Reviewed(f)))
  /\ build = "done" =>
       /\ \A f \in Sources : InArchive(FileMember(Packed(f), Reviewed(f)))
       /\ InArchive(FileMember(Manifest, sums))

BuildInv ==
  /\ ExtractInv
  /\ PackingInv
  /\ steady => SteadyInv
  /\ unpack = "refused" => ~(taken # <<>> /\ Sound(taken))

LEMMA ParentsOfParents ==
  ASSUME NEW path \in Paths, NEW d \in Parents(path), NEW e \in Parents(d)
  PROVE  e \in Parents(path)
<1>1. path \in Seq(Names)
  BY LayoutAssumption
<1>2. PICK n \in 1..(Len(path) - 1) : d = SubSeq(path, 1, n)
  BY DEF Parents
<1>3. Len(path) \in Nat /\ n \in Nat /\ Len(d) = n /\ d \in Seq(Names)
  BY <1>1, <1>2
<1>4. PICK m \in 1..(n - 1) : e = SubSeq(d, 1, m)
  BY <1>3 DEF Parents
<1>5. e = SubSeq(path, 1, m)
  BY <1>1, <1>2, <1>3, <1>4
<1>6. m \in 1..(Len(path) - 1)
  BY <1>3
<1>7. QED
  BY <1>5, <1>6 DEF Parents

(* One more member is sound if it is new and its directories are there. *)
LEMMA SoundWithOneMore ==
  ASSUME NEW members \in Seq(Member), Sound(members),
         NEW m \in Member, m.kind \in {"directory", "file"}, m.content # Nothing,
         \A i \in DOMAIN members : members[i].name # m.name,
         \A d \in Parents(m.name) : \E j \in DOMAIN members : members[j] = DirectoryMember(d)
  PROVE  Sound(Append(members, m))
<1> DEFINE n == Len(members)
           all == Append(members, m)
<1>1. /\ n \in Nat /\ DOMAIN members = 1..n /\ DOMAIN all = 1..(n + 1)
      /\ \A i \in 1..n : all[i] = members[i]
      /\ all[n + 1] = m
  OBVIOUS
<1> HIDE DEF n, all
<1>2. \A i \in 1..(n + 1) : i = n + 1 \/ i \in 1..n
  BY <1>1
<1>3. \A i \in DOMAIN all : all[i].kind \in {"directory", "file"} /\ all[i].content # Nothing
  BY <1>1, <1>2 DEF Sound
<1>4. \A i, j \in DOMAIN all : i # j => all[i].name # all[j].name
  BY <1>1, <1>2 DEF Sound
<1>5. ASSUME NEW i \in DOMAIN all, NEW d \in Parents(all[i].name)
      PROVE  \E j \in 1..(i - 1) : all[j] = DirectoryMember(d)
  <2>1. CASE i = n + 1
    <3>1. PICK j \in 1..n : members[j] = DirectoryMember(d)
      BY <1>1, <2>1
    <3>2. j \in 1..(i - 1)
      BY <1>1, <2>1
    <3>3. QED
      BY <1>1, <3>1, <3>2
  <2>2. CASE i \in 1..n
    <3>1. PICK j \in 1..(i - 1) : members[j] = DirectoryMember(d)
      BY <1>1, <2>2 DEF Sound
    <3>2. j \in 1..n
      BY <1>1, <2>2
    <3>3. QED
      BY <1>1, <3>1, <3>2
  <2>3. QED
    BY <1>1, <1>2, <2>1, <2>2
<1>6. QED
  BY <1>3, <1>4, <1>5 DEF Sound, all

(* What is sound is not refused. *)
LEMMA SoundIsCreatable ==
  ASSUME ExtractInv, unpack = "members", Sound(taken), position \in DOMAIN taken
  PROVE  Creatable(taken[position])
<1> DEFINE m == taken[position]
           n == position - 1
<1>1. /\ taken \in Seq(Member) /\ position \in Nat \ {0} /\ Extracted(taken, n)
      /\ DOMAIN taken = 1..Len(taken) /\ Len(taken) \in Nat /\ position \in 1..Len(taken)
  BY DEF ExtractInv
<1>2. m \in Member /\ m.name \in Paths
  <2>1. m \in Member
    BY <1>1
  <2>2. QED
    BY <2>1 DEF Member
<1>3. \A i \in 1..n : i \in DOMAIN taken /\ i # position /\ i < position
  BY <1>1
<1>4. m.kind \in {"directory", "file"} /\ m.content # Nothing
  BY DEF Sound
<1>5. ~Seen(m)
  BY <1>3 DEF Sound, Seen
<1>6. \A i \in 1..n : m.name \notin Parents(taken[i].name)
  <2> SUFFICES ASSUME NEW i \in 1..n, m.name \in Parents(taken[i].name) PROVE FALSE
    OBVIOUS
  <2>1. PICK j \in 1..(i - 1) : taken[j] = DirectoryMember(m.name)
    BY <1>3 DEF Sound
  <2>2. j \in DOMAIN taken /\ j # position /\ taken[j].name = m.name
    BY <1>1, <2>1 DEF DirectoryMember
  <2>3. QED
    BY <2>2 DEF Sound
<1>7. destination[m.name] = Nothing
  BY <1>1, <1>2, <1>3, <1>6 DEF Extracted, Sound
<1>8. ASSUME NEW path \in Parents(m.name)
      PROVE  destination[path] \in {Nothing, Directory}
  <2>1. path \in Paths
    BY <1>2, DirectoriesArePaths
  <2>2. PICK j \in 1..(position - 1) : taken[j] = DirectoryMember(path)
    BY DEF Sound
  <2>3. destination[path] = Directory
    BY <1>1, <2>2 DEF Extracted, DirectoryMember
  <2>4. QED
    BY <2>3
<1>9. QED
  BY <1>4, <1>5, <1>7, <1>8 DEF Creatable

-----------------------------------------------------------------------------
LEMMA BuildStarts == ArchiveInit => BuildInv
<1> SUFFICES ASSUME ArchiveInit PROVE BuildInv
  OBVIOUS
<1>1. archive = <<>> /\ build = "digest" /\ unpack = "idle"
  BY DEF ArchiveInit
<1>2. Sound(archive)
  BY <1>1 DEF Sound
<1>3. PackingInv
  BY <1>1, <1>2 DEF PackingInv
<1>4. SteadyInv
  BY <1>1 DEF SteadyInv
<1>5. ExtractInv
  BY ExtractStarts
<1>6. QED
  BY <1>1, <1>3, <1>4, <1>5 DEF BuildInv

(* What is written is no longer changed. *)
LEMMA OneMoreMember ==
  ASSUME archive \in Seq(Member), NEW m \in Member, archive' = Append(archive, m)
  PROVE  /\ Written' = Written \cup {m.name}
         /\ InArchive(m)'
         /\ \A x : InArchive(x) => InArchive(x)'
         /\ \A i \in DOMAIN archive' :
              archive'[i] = m \/ \E j \in DOMAIN archive : archive'[i] = archive[j]
<1> DEFINE n == Len(archive)
<1>1. /\ n \in Nat /\ DOMAIN archive = 1..n /\ DOMAIN archive' = 1..(n + 1)
      /\ \A i \in 1..n : archive'[i] = archive[i]
      /\ archive'[n + 1] = m
  OBVIOUS
<1> HIDE DEF n
<1>2. \A i \in 1..(n + 1) : i = n + 1 \/ i \in 1..n
  BY <1>1
<1>3. n + 1 \in 1..(n + 1) /\ \A i \in 1..n : i \in 1..(n + 1)
  BY <1>1
<1>4. Written' = Written \cup {m.name}
  BY <1>1, <1>2, <1>3 DEF Written
<1>5. \A x : InArchive(x) => InArchive(x)'
  BY <1>1, <1>3 DEF InArchive
<1>6. InArchive(m)'
  BY <1>1, <1>3 DEF InArchive
<1>7. QED
  BY <1>1, <1>2, <1>4, <1>5, <1>6

(* Directories of what is packed are no files that are packed. *)
LEMMA DirectoriesApart ==
  ASSUME todo \subseteq {Packed(f) : f \in Sources}
  PROVE  /\ Manifest \notin Directories
         /\ todo \cap Directories = {}
<1>1. SumsFile \in Sources
  BY DEF Sources
<1>2. \A f \in Sources : /\ Prefix \in Parents(Packed(f))
                         /\ Manifest \notin Parents(Packed(f))
                         /\ \A g \in Sources : Packed(f) \notin Parents(Packed(g))
  BY LayoutAssumption DEF Sources
<1>3. Manifest \notin Directories
  BY <1>1, <1>2 DEF Directories
<1>4. ASSUME NEW f \in Sources, Packed(f) \in Directories
      PROVE  FALSE
  <2>1. Packed(f) # Prefix
    BY <1>2
  <2>2. PICK g \in Sources : Packed(f) \in Parents(Packed(g))
    BY <1>4, <2>1 DEF Directories
  <2>3. QED
    BY <1>2, <2>2
<1>5. QED
  BY <1>3, <1>4

(* The first directory that is not written has its own directories written. *)
LEMMA DirectoryKept ==
  ASSUME archive \in Seq(Member), PackingInv, PackDirectory
  PROVE  PackingInv'
<1>1. PICK path \in Directories : /\ FirstOf(Directories \ Written, path)
                                  /\ archive' = Append(archive, DirectoryMember(path))
  BY DEF PackDirectory
<1>2. /\ build = "directories" /\ build' = build /\ todo' = todo /\ listing' = listing
      /\ listing \in Listings
      /\ todo # {} /\ todo \subseteq {Packed(f) : f \in Sources}
      /\ Sound(archive)
      /\ \A i \in DOMAIN archive : /\ archive[i].name \in Directories
                                   /\ archive[i] = DirectoryMember(archive[i].name)
  BY DEF PackDirectory, PackingInv
<1>3. path \in Paths /\ path \notin Written
  BY <1>1 DEF FirstOf, Paths
<1>4. PICK t \in todo : path \in Parents(t)
  <2>1. \A f \in Sources : Prefix \in Parents(Packed(f))
    BY LayoutAssumption DEF Sources
  <2>2. QED
    BY <1>2, <2>1 DEF Directories
<1>5. t \in Paths
  BY <1>2, LayoutAssumption DEF Sources
<1>6. ASSUME NEW d \in Parents(path)
      PROVE  \E j \in DOMAIN archive : archive[j] = DirectoryMember(d)
  <2>1. d \in Directories
    BY <1>4, <1>5, ParentsOfParents DEF Directories
  <2>2. PICK i \in DOMAIN PathOrder :
          PathOrder[i] = path /\ \A j \in 1..(i - 1) : PathOrder[j] \notin Directories \ Written
    BY <1>1 DEF FirstOf
  <2>3. PICK j \in DOMAIN PathOrder : j < i /\ PathOrder[j] = d
    BY <2>2, OrderAssumption
  <2>4. DOMAIN PathOrder = 1..Len(PathOrder) /\ Len(PathOrder) \in Nat
    BY OrderAssumption
  <2>5. j \in 1..(i - 1)
    BY <2>3, <2>4
  <2>6. d \in Written
    BY <2>1, <2>2, <2>3, <2>5
  <2>7. QED
    BY <1>2, <2>6 DEF Written
<1> DEFINE m == DirectoryMember(path)
<1>7. /\ m \in Member /\ m.kind = "directory" /\ m.content # Nothing /\ m.name = path
  BY <1>3, ArchiveAssumption DEF DirectoryMember, Member
<1>8. Sound(archive')
  <2>1. \A i \in DOMAIN archive : archive[i].name # m.name
    BY <1>3, <1>7 DEF Written
  <2>2. QED
    BY <1>1, <1>2, <1>6, <1>7, <2>1, SoundWithOneMore
<1>9. Directories' = Directories
  BY <1>2 DEF Directories
<1>10. \A i \in DOMAIN archive' :
         archive'[i] = m \/ \E j \in DOMAIN archive : archive'[i] = archive[j]
  BY <1>1, <1>7, OneMoreMember
<1>11. \A i \in DOMAIN archive' : /\ archive'[i].name \in Directories
                                  /\ archive'[i] = DirectoryMember(archive'[i].name)
  BY <1>2, <1>7, <1>10
<1>12. QED
  BY <1>2, <1>8, <1>9, <1>11 DEF PackingInv, Sound

LEMMA FilesStart ==
  ASSUME archive \in Seq(Member), PackingInv, StartFiles
  PROVE  PackingInv'
<1>1. /\ build = "directories" /\ build' = "files"
      /\ todo' = todo /\ listing' = listing /\ archive' = archive
      /\ Directories \subseteq Written
      /\ listing \in Listings
      /\ todo \subseteq {Packed(f) : f \in Sources}
      /\ Sound(archive)
      /\ \A i \in DOMAIN archive : /\ archive[i].name \in Directories
                                   /\ archive[i] = DirectoryMember(archive[i].name)
  BY DEF StartFiles, PackingInv
<1>2. Written = Directories
  BY <1>1 DEF Written
<1>3. todo \cap Written = {} /\ Manifest \notin Written
  BY <1>1, <1>2, DirectoriesApart
<1>4. ASSUME NEW path \in todo, NEW directory \in Parents(path)
      PROVE  InArchive(DirectoryMember(directory))
  <2>1. directory \in Written
    BY <1>2 DEF Directories
  <2>2. QED
    BY <1>1, <2>1 DEF Written, InArchive
<1>5. QED
  BY <1>1, <1>3, <1>4 DEF PackingInv, Written, InArchive, Sound

LEMMA FileKept ==
  ASSUME ArchiveTyped, PackingInv, steady => SteadyInv, PackFile
  PROVE  PackingInv' /\ (steady => SteadyInv')
<1>1. PICK f \in Present \cup {SumsFile} :
        /\ FirstOf(todo, Packed(f))
        /\ archive' = Append(archive, FileMember(Packed(f), Reviewed(f)))
        /\ todo' = todo \ {Packed(f)}
  BY DEF PackFile, Reviewed
<1>2. /\ build = "files" /\ build' = "files" /\ listing' = listing
      /\ tree' = tree /\ sums' = sums /\ reviewed' = reviewed
      /\ archive \in Seq(Member) /\ sums \in Listings /\ listing \in Listings
      /\ Sound(archive)
      /\ todo \subseteq {Packed(g) : g \in Sources}
      /\ todo \cap Written = {}
      /\ \A path \in todo : \A directory \in Parents(path) :
           InArchive(DirectoryMember(directory))
      /\ Manifest \notin Written
  BY DEF PackFile, source, PackingInv, ArchiveTyped
<1>3. f \in Sources /\ Packed(f) \in todo /\ Packed(f) \in Paths
  BY <1>1, LayoutAssumption DEF FirstOf, Sources, Present
<1>4. Reviewed(f) \in Versions \cup Listings
  <2>1. CASE f = SumsFile
    BY <1>2, <2>1 DEF Reviewed
  <2>2. CASE f # SumsFile
    <3>1. f \in Files /\ tree[f] # Nothing
      BY <2>2 DEF Present
    <3>2. tree[f] \in Versions
      BY <3>1 DEF ArchiveTyped
    <3>3. QED
      BY <2>2, <3>2 DEF Reviewed
  <2>3. QED
    BY <2>1, <2>2
<1> DEFINE m == FileMember(Packed(f), Reviewed(f))
<1>5. m \in Member /\ m.kind = "file" /\ m.content # Nothing /\ m.name = Packed(f)
  BY <1>3, <1>4, LayoutAssumption DEF FileMember, Member
<1>6. Sound(archive')
  <2>1. \A i \in DOMAIN archive : archive[i].name # m.name
    BY <1>2, <1>3, <1>5 DEF Written
  <2>2. \A d \in Parents(m.name) : \E j \in DOMAIN archive : archive[j] = DirectoryMember(d)
    BY <1>2, <1>3, <1>5 DEF InArchive
  <2>3. QED
    BY <1>1, <1>2, <1>5, <2>1, <2>2, SoundWithOneMore
<1>7. /\ Written' = Written \cup {Packed(f)}
      /\ \E i \in DOMAIN archive' : archive'[i] = m
      /\ \A x : InArchive(x) => InArchive(x)'
  BY <1>1, <1>2, <1>5, OneMoreMember DEF InArchive
<1>8. Manifest # Packed(f)
  BY <1>3, LayoutAssumption DEF Sources
<1>9. todo' \subseteq todo /\ todo' \cap Written' = {} /\ Manifest \notin Written'
  BY <1>1, <1>2, <1>7, <1>8
<1>10. PackingInv'
  <2>1. \A path \in todo' : \A directory \in Parents(path) :
          InArchive(DirectoryMember(directory))'
    BY <1>2, <1>7, <1>9
  <2>2. Sound(archive)'
    BY <1>6 DEF Sound
  <2>3. /\ build' = "files" /\ listing' \in Listings
        /\ todo' \subseteq {Packed(g) : g \in Sources}
    BY <1>2, <1>9
  <2>4. QED
    BY <1>9, <2>1, <2>2, <2>3 DEF PackingInv, DirectoryMember
<1>11. ASSUME steady
       PROVE  SteadyInv'
  <2>1. /\ reviewed = sums /\ listing = sums /\ tree = sums
        /\ \A g \in Sources : Packed(g) \in todo \/ InArchive(FileMember(Packed(g), Reviewed(g)))
    BY <1>2, <1>11 DEF SteadyInv
  <2>2. \A g \in Sources : Reviewed(g)' = Reviewed(g)
    BY <1>2 DEF Reviewed
  <2>3. ASSUME NEW g \in Sources
        PROVE  Packed(g) \in todo' \/ InArchive(FileMember(Packed(g), Reviewed(g)))'
    <3>1. CASE g = f
      BY <1>7, <2>2, <3>1 DEF InArchive, FileMember
    <3>2. CASE g # f
      <4>1. Packed(g) # Packed(f)
        BY <1>3, <3>2, LayoutAssumption DEF Sources
      <4>2. CASE Packed(g) \in todo
        BY <1>1, <4>1, <4>2
      <4>3. CASE InArchive(FileMember(Packed(g), Reviewed(g)))
        BY <1>7, <2>2, <4>3 DEF InArchive, FileMember
      <4>4. QED
        BY <2>1, <4>2, <4>3
    <3>3. QED
      BY <3>1, <3>2
  <2>4. QED
    BY <1>2, <2>1, <2>3 DEF SteadyInv
<1>12. QED
  BY <1>10, <1>11

LEMMA ManifestKept ==
  ASSUME ArchiveTyped, PackingInv, steady => SteadyInv, PackManifest
  PROVE  PackingInv' /\ (steady => SteadyInv')
<1> DEFINE m == FileMember(Manifest, listing)
<1>1. /\ build = "files" /\ build' = "done" /\ listing' = listing
      /\ todo = {} /\ archive' = Append(archive, m)
      /\ tree' = tree /\ sums' = sums /\ reviewed' = reviewed
      /\ archive \in Seq(Member) /\ sums \in Listings /\ listing \in Listings
      /\ Sound(archive) /\ Manifest \notin Written
  BY DEF PackManifest, source, PackingInv, ArchiveTyped
<1>2. m \in Member /\ m.kind = "file" /\ m.content # Nothing /\ m.name = Manifest
  BY <1>1, ArchiveAssumption, LayoutAssumption DEF FileMember, Member
<1>3. Sound(archive')
  <2>1. \A i \in DOMAIN archive : archive[i].name # m.name
    BY <1>1, <1>2 DEF Written
  <2>2. Parents(m.name) = {}
    BY <1>2, LayoutAssumption
  <2>3. QED
    BY <1>1, <1>2, <2>1, <2>2, SoundWithOneMore
<1>4. InArchive(m)' /\ \A x : InArchive(x) => InArchive(x)'
  BY <1>1, <1>2, OneMoreMember
<1>5. PackingInv'
  <2>1. Sound(archive)'
    BY <1>3 DEF Sound
  <2>2. archive' # <<>>
    BY <1>1
  <2>3. QED
    BY <1>1, <2>1, <2>2 DEF PackingInv
<1>6. ASSUME steady
      PROVE  SteadyInv'
  <2>1. /\ reviewed = sums /\ listing = sums /\ tree = sums
        /\ \A g \in Sources : InArchive(FileMember(Packed(g), Reviewed(g)))
    BY <1>1, <1>6 DEF SteadyInv
  <2>2. \A g \in Sources : Reviewed(g)' = Reviewed(g)
    BY <1>1 DEF Reviewed
  <2>3. \A g \in Sources : InArchive(FileMember(Packed(g), Reviewed(g)))'
    BY <1>4, <2>1, <2>2 DEF InArchive, FileMember
  <2>4. InArchive(FileMember(Manifest, sums))'
    BY <1>1, <1>4, <2>1 DEF InArchive, FileMember
  <2>5. QED
    BY <1>1, <2>1, <2>3, <2>4 DEF SteadyInv
<1>7. QED
  BY <1>5, <1>6

LEMMA PackingStarts ==
  ASSUME ArchiveTyped, PackingInv, steady => SteadyInv, StartPacking
  PROVE  PackingInv' /\ (steady => SteadyInv')
<1>1. /\ build = "hash" /\ build' = "directories" /\ listing' = listing /\ archive' = archive
      /\ todo = {} /\ todo' = {Packed(f) : f \in Present \cup {SumsFile}}
      /\ hashed = listing
      /\ tree' = tree /\ sums' = sums /\ reviewed' = reviewed
      /\ listing \in Listings /\ archive = <<>>
  BY DEF StartPacking, source, PackingInv, ArchiveTyped
<1>2. PackingInv'
  <2>1. todo' # {} /\ todo' \subseteq {Packed(f) : f \in Sources}
    BY <1>1 DEF Present, Sources
  <2>2. Sound(archive)'
    BY <1>1 DEF Sound
  <2>3. QED
    BY <1>1, <2>1, <2>2 DEF PackingInv
<1>3. ASSUME steady
      PROVE  SteadyInv'
  <2>1. /\ reviewed = sums /\ listing = sums
        /\ DOMAIN hashed = Present
        /\ \A f \in Present : hashed[f] = tree[f]
    BY <1>1, <1>3 DEF SteadyInv
  <2>2. DOMAIN listing = Files
    BY <1>1 DEF Listings
  <2>3. Present = Files
    BY <1>1, <2>1, <2>2
  <2>4. tree = listing
    <3>1. tree = [f \in Files |-> tree[f]]
      BY DEF ArchiveTyped
    <3>2. listing = [f \in Files |-> listing[f]]
      BY <1>1 DEF Listings
    <3>3. \A f \in Files : tree[f] = listing[f]
      BY <1>1, <2>1, <2>3
    <3>4. QED
      BY <3>1, <3>2, <3>3
  <2>5. todo' = {Packed(f) : f \in Sources}
    BY <1>1, <2>3 DEF Sources
  <2>6. QED
    BY <1>1, <2>1, <2>4, <2>5 DEF SteadyInv
<1>4. QED
  BY <1>2, <1>3

(* Reading the candidate and hashing it. *)
LEMMA ReadingKept ==
  ASSUME ArchiveTyped, PackingInv, steady => SteadyInv,
         ReadDigest \/ ParseSums \/ HashFile
  PROVE  PackingInv' /\ (steady => SteadyInv')
<1>1. /\ archive' = archive /\ archive = <<>> /\ tree' = tree /\ sums' = sums
      /\ sums \in Listings /\ Sound(archive)
  BY DEF ReadDigest, ParseSums, HashFile, source, PackingInv, ArchiveTyped
<1>2. Sound(archive)' /\ Present' = Present
  BY <1>1 DEF Sound, Present
<1>3. CASE ReadDigest
  BY <1>1, <1>2, <1>3 DEF ReadDigest, PackingInv, SteadyInv
<1>4. CASE ParseSums
  <2>1. /\ build = "parse" /\ build' = "hash" /\ listing' = sums /\ todo' = Present
        /\ reviewed' = reviewed
        /\ DOMAIN hashed' = Present
    BY <1>4 DEF ParseSums
  <2>2. PackingInv'
    BY <1>1, <1>2, <2>1 DEF PackingInv, Present
  <2>3. ASSUME steady PROVE SteadyInv'
    BY <1>1, <1>2, <2>1, <2>3 DEF SteadyInv
  <2>4. QED
    BY <2>2, <2>3
<1>5. CASE HashFile
  <2>1. PICK f \in Present : /\ FirstOf(todo, f)
                             /\ hashed' = [hashed EXCEPT ![f] = tree[f]]
                             /\ todo' = todo \ {f}
    BY <1>5 DEF HashFile
  <2>2. /\ build = "hash" /\ build' = "hash" /\ listing' = listing /\ reviewed' = reviewed
        /\ todo \subseteq Files /\ listing \in Listings
    BY <1>5 DEF HashFile, PackingInv
  <2>3. PackingInv'
    BY <1>1, <1>2, <2>1, <2>2 DEF PackingInv
  <2>4. ASSUME steady PROVE SteadyInv'
    <3>1. /\ reviewed = sums /\ listing = sums
          /\ DOMAIN hashed = Present
          /\ \A g \in Present \ todo : hashed[g] = tree[g]
      BY <2>2, <2>4 DEF SteadyInv
    <3>2. DOMAIN hashed' = Present
      BY <2>1, <3>1
    <3>3. \A g \in Present \ todo' : hashed'[g] = tree[g]
      BY <2>1, <3>1
    <3>4. QED
      BY <1>1, <1>2, <2>2, <3>1, <3>2, <3>3 DEF SteadyInv
  <2>5. QED
    BY <2>3, <2>4
<1>6. QED
  BY <1>3, <1>4, <1>5

LEMMA BuildKept == BuildInv /\ [ArchiveNext]_archiveVars => BuildInv'
<1> SUFFICES ASSUME BuildInv, [ArchiveNext]_archiveVars
             PROVE  BuildInv'
  OBVIOUS
<1>1. ExtractInv'
  BY ExtractKept DEF BuildInv
<1>2. /\ ArchiveTyped /\ archive \in Seq(Member) /\ PackingInv /\ (steady => SteadyInv)
      /\ unpack = "refused" => ~(taken # <<>> /\ Sound(taken))
  BY DEF BuildInv, ExtractInv, ArchiveTyped
<1>3. CASE Build
  <2>1. UNCHANGED <<steady, unpack, taken>>
    BY <1>3 DEF Build, ReadDigest, ParseSums, HashFile, StartPacking, PackDirectory,
                StartFiles, PackFile, PackManifest, BuildFails, unpacking
  <2>2. unpack' = "refused" => ~(taken' # <<>> /\ Sound(taken)')
    BY <1>2, <2>1 DEF Sound
  <2>3. PackingInv' /\ (steady => SteadyInv')
    <3>1. CASE ReadDigest \/ ParseSums \/ HashFile
      BY <1>2, <3>1, ReadingKept
    <3>2. CASE StartPacking
      BY <1>2, <3>2, PackingStarts
    <3>3. CASE PackDirectory
      <4>1. PackingInv'
        BY <1>2, <3>3, DirectoryKept
      <4>2. steady => SteadyInv'
        BY <1>2, <3>3 DEF PackDirectory, source, SteadyInv
      <4>3. QED
        BY <4>1, <4>2
    <3>4. CASE StartFiles
      <4>1. PackingInv'
        BY <1>2, <3>4, FilesStart
      <4>2. steady => SteadyInv'
        BY <1>2, <3>4 DEF StartFiles, source, SteadyInv
      <4>3. QED
        BY <4>1, <4>2
    <3>5. CASE PackFile
      BY <1>2, <3>5, FileKept
    <3>6. CASE PackManifest
      BY <1>2, <3>6, ManifestKept
    <3>7. CASE BuildFails
      <4>1. /\ build' = "failed" /\ archive' = archive /\ Sound(archive)
        BY <1>2, <3>7 DEF BuildFails, PackingInv
      <4>2. Sound(archive)'
        BY <4>1 DEF Sound
      <4>3. QED
        BY <4>1, <4>2 DEF PackingInv, SteadyInv
    <3>8. QED
      BY <1>3, <3>1, <3>2, <3>3, <3>4, <3>5, <3>6, <3>7 DEF Build
  <2>4. QED
    BY <1>1, <2>1, <2>2, <2>3 DEF BuildInv
<1>4. CASE EditTree
  <2>1. /\ UNCHANGED <<building, unpacking>> /\ steady' = FALSE
    BY <1>4 DEF EditTree
  <2>2. PackingInv'
    BY <1>2, <2>1 DEF building, PackingInv, Sound, Directories, Written, InArchive
  <2>3. unpack' = "refused" => ~(taken' # <<>> /\ Sound(taken)')
    BY <1>2, <2>1 DEF unpacking, Sound
  <2>4. QED
    BY <1>1, <2>1, <2>2, <2>3 DEF BuildInv
<1>5. ASSUME UNCHANGED <<source, building, steady>>
      PROVE  PackingInv' /\ (steady' => SteadyInv')
  <2>1. PackingInv'
    BY <1>2, <1>5 DEF building, PackingInv, Sound, Directories, Written, InArchive
  <2>2. steady' => SteadyInv'
    BY <1>2, <1>5 DEF source, building, SteadyInv, Present, InArchive, Reviewed
  <2>3. QED
    BY <2>1, <2>2
<1>6. CASE Extract
  <2>1. UNCHANGED <<source, building, steady>>
    BY <1>6 DEF Extract, CallExtract, ExtractMember, ExtractReturns, RefuseArchive, ExtractDies
  <2>2. CASE RefuseArchive
    <3>1. ASSUME taken # <<>>, Sound(taken) PROVE FALSE
      BY <2>2, <3>1, SoundIsCreatable DEF RefuseArchive, BuildInv
    <3>2. taken' = taken
      BY <2>2 DEF RefuseArchive
    <3>3. ~(taken' # <<>> /\ Sound(taken)')
      BY <3>1, <3>2 DEF Sound
    <3>4. QED
      BY <1>1, <1>5, <2>1, <3>3 DEF BuildInv
  <2>3. CASE ~RefuseArchive
    <3>1. unpack' # "refused"
      BY <1>6, <2>3 DEF Extract, CallExtract, ExtractMember, ExtractReturns, ExtractDies
    <3>2. QED
      BY <1>1, <1>5, <2>1, <3>1 DEF BuildInv
  <2>4. QED
    BY <2>2, <2>3
<1>7. CASE UNCHANGED archiveVars
  <2>1. UNCHANGED <<source, building, steady, unpack, taken>>
    BY <1>7 DEF archiveVars, unpacking
  <2>2. unpack' = "refused" => ~(taken' # <<>> /\ Sound(taken)')
    BY <1>2, <2>1 DEF Sound
  <2>3. QED
    BY <1>1, <1>5, <2>1, <2>2 DEF BuildInv
<1>8. QED
  BY <1>3, <1>4, <1>6, <1>7 DEF ArchiveNext

(* What is in a sound archive is below the destination it was unpacked to. *)
LEMMA MemberDelivered ==
  ASSUME NEW members \in Seq(Member), Sound(members), destination = TreeOf(members),
         NEW i \in DOMAIN members
  PROVE  destination[members[i].name] = members[i].content
<1> DEFINE path == members[i].name
           first == CHOOSE j \in DOMAIN members : members[j].name = path
<1>1. members[i] \in Member
  OBVIOUS
<1>2. path \in Paths
  BY <1>1 DEF Member
<1>3. first \in DOMAIN members /\ members[first].name = path
  OBVIOUS
<1>4. first = i
  BY <1>3 DEF Sound
<1>5. destination[path] = members[first].content
  BY <1>2 DEF TreeOf
<1>6. QED
  BY <1>4, <1>5

LEMMA BuildAccepted == BuildInv => UndisturbedBuildAccepted
<1> SUFFICES ASSUME BuildInv, build = "done" 
             PROVE  /\ ~(unpack = "refused" /\ taken = archive)
                    /\ steady /\ delivered = archive =>
                         /\ destination[Manifest] = reviewed
                         /\ Content(SumsFile) = reviewed
                         /\ \A f \in Files : Content(f) = reviewed[f]
  BY DEF UndisturbedBuildAccepted
<1>1. Sound(archive) /\ archive # <<>> /\ archive \in Seq(Member)
  BY DEF BuildInv, PackingInv, ExtractInv, ArchiveTyped
<1>2. ~(unpack = "refused" /\ taken = archive)
  BY <1>1 DEF BuildInv
<1>3. ASSUME steady, delivered = archive
      PROVE  /\ destination[Manifest] = reviewed
             /\ Content(SumsFile) = reviewed
             /\ \A f \in Files : Content(f) = reviewed[f]
  <2>1. destination = TreeOf(archive)
    BY <1>1, <1>3 DEF BuildInv, ExtractInv, ExtractedIsArchive
  <2>2. /\ reviewed = sums /\ tree = sums
        /\ \A f \in Sources : InArchive(FileMember(Packed(f), Reviewed(f)))
        /\ InArchive(FileMember(Manifest, sums))
    BY <1>3 DEF BuildInv, SteadyInv
  <2>3. ASSUME NEW path, NEW content, InArchive(FileMember(path, content))
        PROVE  destination[path] = content
    <3>1. PICK i \in DOMAIN archive : archive[i] = FileMember(path, content)
      BY <2>3 DEF InArchive
    <3>2. destination[archive[i].name] = archive[i].content
      BY <1>1, <2>1, MemberDelivered
    <3>3. QED
      BY <3>1, <3>2 DEF FileMember
  <2>4. destination[Manifest] = reviewed
    BY <2>2, <2>3
  <2>5. \A f \in Sources : Content(f) = Reviewed(f)
    BY <2>2, <2>3 DEF Content
  <2>6. Content(SumsFile) = reviewed
    BY <2>2, <2>5 DEF Sources, Reviewed
  <2>7. \A f \in Files : Content(f) = reviewed[f]
    BY <2>2, <2>5, LayoutAssumption DEF Sources, Reviewed
  <2>8. QED
    BY <2>4, <2>6, <2>7
<1>4. QED
  BY <1>2, <1>3

(* What build_candidate has packed is never refused by safe_extract, and if  *)
(* nobody edited the candidate meanwhile, what was unpacked is what the      *)
(* checksum file lists whose digest was reviewed (build_immutable_inputs.py  *)
(* 92-134, safe_extract_tar.py 12-59).                                       *)
THEOREM UndisturbedBuild == ArchiveSpec => []UndisturbedBuildAccepted
  BY BuildStarts, BuildKept, BuildAccepted, PTL DEF ArchiveSpec

-----------------------------------------------------------------------------
(* Every set of naturals that is not empty has a least one: what induction   *)
(* over the naturals comes to here.                                          *)
LEMMA Least ==
  ASSUME NEW T \in SUBSET Nat, T # {}
  PROVE  \E x \in T : \A y \in T : x <= y
<1> DEFINE R == OpToRel(<, Nat)
<1>1. IsWellFoundedOn(R, Nat)
  BY NatLessThanWellFounded
<1>2. \A x, y \in Nat : x < y => <<x, y>> \in R
  BY DEF OpToRel
<1> HIDE DEF R
<1>3. \E x \in T : \A y \in T : ~(<<y, x>> \in R)
  BY <1>1, WFMin
<1>4. PICK x \in T : \A y \in T : ~(<<y, x>> \in R)
  BY <1>3
<1>5. \A y \in T : ~(y < x)
  BY <1>2, <1>4
<1>6. \A y \in T : x <= y
  BY <1>5
<1>7. QED
  BY <1>6

-----------------------------------------------------------------------------
(* Benchmark: sequences in order of size, and counting in them.               *)

LEMMA LeastValue ==
  ASSUME NEW a \in Nat, NEW b \in Nat, a <= b, NEW g, \A i \in a..b : g[i] \in Int
  PROVE  \E i \in a..b : \A j \in a..b : g[i] <= g[j]
<1> DEFINE Has(c) == \E i \in a..c : \A j \in a..c : g[i] <= g[j]
           Bad == {c \in a..b : ~Has(c)}
<1>1. Bad = {}
  <2> SUFFICES ASSUME Bad # {} PROVE FALSE
    OBVIOUS
  <2>1. PICK c \in Bad : \A d \in Bad : c <= d
    <3>1. Bad \in SUBSET Nat
      OBVIOUS
    <3> HIDE DEF Bad
    <3>2. QED
      BY <3>1, Least
  <2>2. c # a
    <3>1. Has(a)
      OBVIOUS
    <3>2. QED
      BY <3>1
  <2>3. c \in Nat /\ c - 1 \in a..b /\ c <= b /\ ~Has(c)
    BY <2>2
  <2>4. Has(c - 1)
    <3>1. c - 1 \notin Bad
      <4> HIDE DEF Bad
      <4>1. QED
        BY <2>1, <2>3
    <3>2. QED
      BY <2>3, <3>1
  <2>5. PICK i \in a..(c - 1) : \A j \in a..(c - 1) : g[i] <= g[j]
    BY <2>4
  <2>6. i \in a..c /\ c \in a..c /\ \A j \in a..c : j = c \/ j \in a..(c - 1)
    BY <2>3
  <2>7. g[i] \in Int /\ g[c] \in Int /\ \A j \in a..c : g[j] \in Int
    BY <2>3, <2>6
  <2>8. CASE g[i] <= g[c]
    <3>1. \A j \in a..c : g[i] <= g[j]
      BY <2>5, <2>6, <2>8
    <3>2. QED
      BY <2>3, <2>6, <3>1
  <2>9. CASE ~(g[i] <= g[c])
    <3>1. ASSUME NEW j \in a..c PROVE g[c] <= g[j]
      <4>1. g[j] \in Int /\ g[c] < g[i]
        BY <2>6, <2>7, <2>9
      <4>2. j = c \/ g[i] <= g[j]
        BY <2>5, <2>6
      <4>3. QED
        BY <2>6, <2>7, <4>1, <4>2
    <3>2. QED
      BY <2>3, <2>6, <3>1
  <2>10. QED
    BY <2>8, <2>9
<1>2. b \in a..b
  OBVIOUS
<1> HIDE DEF Has
<1>3. Has(b)
  BY <1>1, <1>2
<1>4. QED
  BY <1>3 DEF Has

(* Values of which the first k are in their order and no larger than the     *)
(* rest, can be rearranged so that this is so of one more.                   *)
Ordered(v, p, n, k) ==
  \A i, j \in 1..n : i < j /\ i <= k => v[p[i]] <= v[p[j]]

LEMMA OneMoreInOrder ==
  ASSUME NEW n \in Nat, NEW v \in [1..n -> Int], NEW k \in Nat, k < n,
         NEW p \in Bijection(1..n, 1..n), Ordered(v, p, n, k)
  PROVE  \E q \in Bijection(1..n, 1..n) : Ordered(v, q, n, k + 1)
<1> DEFINE g == [i \in 1..n |-> v[p[i]]]
<1>1. p \in [1..n -> 1..n] /\ IsInjective(p) /\ \A t \in 1..n : \E s \in 1..n : p[s] = t
  BY DEF Bijection, Injection, Surjection
<1>2. PICK m \in (k + 1)..n : \A j \in (k + 1)..n : g[m] <= g[j]
  <2>1. \A i \in (k + 1)..n : g[i] \in Int
    BY <1>1
  <2> HIDE DEF g
  <2>2. k + 1 \in Nat /\ k + 1 <= n
    OBVIOUS
  <2>3. QED
    BY <2>1, <2>2, LeastValue
<1> DEFINE q == [i \in 1..n |-> IF i = k + 1 THEN p[m] ELSE IF i = m THEN p[k + 1] ELSE p[i]]
<1>3. m \in 1..n /\ k + 1 \in 1..n /\ m \in Nat
  OBVIOUS
<1>4. q \in Bijection(1..n, 1..n)
  <2>1. q \in [1..n -> 1..n]
    BY <1>1, <1>3
  <2>2. IsInjective(q)
    <3> SUFFICES ASSUME NEW a \in 1..n, NEW b \in 1..n, q[a] = q[b] PROVE a = b
      BY DEF IsInjective
    <3>1. \A x, y \in 1..n : p[x] = p[y] => x = y
      BY <1>1 DEF IsInjective
    <3>2. QED
      BY <1>3, <3>1
  <2>3. ASSUME NEW t \in 1..n PROVE \E s \in 1..n : q[s] = t
    <3>1. PICK s \in 1..n : p[s] = t
      BY <1>1
    <3>2. q[IF s = m THEN k + 1 ELSE IF s = k + 1 THEN m ELSE s] = t
      BY <1>3, <3>1
    <3>3. QED
      BY <1>3, <3>2
  <2>4. QED
    BY <2>1, <2>2, <2>3 DEF Bijection, Injection, Surjection
<1>5. Ordered(v, q, n, k + 1)
  <2> SUFFICES ASSUME NEW i \in 1..n, NEW j \in 1..n, i < j, i <= k + 1
               PROVE  v[q[i]] <= v[q[j]]
    BY DEF Ordered
  <2>1. PICK h \in 1..n : p[h] = q[j] /\ (i <= k => i < h) /\ (i = k + 1 => h >= k + 1)
    <3>1. q[j] = p[IF j = k + 1 THEN m ELSE IF j = m THEN k + 1 ELSE j]
      OBVIOUS
    <3> DEFINE h == IF j = k + 1 THEN m ELSE IF j = m THEN k + 1 ELSE j
    <3>2. h \in 1..n /\ (i <= k => i < h) /\ (i = k + 1 => h >= k + 1)
      BY <1>3
    <3> HIDE DEF h
    <3>3. QED
      BY <3>1, <3>2 DEF h
  <2>2. CASE i <= k
    <3>1. i # k + 1 /\ i # m
      BY <2>2, <1>3
    <3>2. q[i] = p[i]
      BY <3>1
    <3> HIDE DEF q, g
    <3>3. v[p[i]] <= v[p[h]]
      BY <2>1, <2>2 DEF Ordered
    <3>4. QED
      BY <2>1, <3>2, <3>3
  <2>3. CASE i = k + 1
    <3>1. q[i] = p[m]
      BY <2>3
    <3>2. g[m] <= g[h]
      <4>1. h \in (k + 1)..n
        BY <2>1, <2>3
      <4> HIDE DEF g, q
      <4>2. QED
        BY <1>2, <4>1
    <3>3. g[m] = v[p[m]] /\ g[h] = v[p[h]]
      BY <1>3
    <3> HIDE DEF q, g
    <3>4. QED
      BY <2>1, <3>1, <3>2, <3>3
  <2>4. QED
    BY <2>2, <2>3
<1>6. QED
  BY <1>4, <1>5

LEMMA CanBeOrdered ==
  ASSUME NEW n \in Nat, NEW v \in [1..n -> Int]
  PROVE  \E p \in Bijection(1..n, 1..n) : Ordered(v, p, n, n)
<1> DEFINE Can(k) == \E p \in Bijection(1..n, 1..n) : Ordered(v, p, n, k)
           Bad == {k \in 0..n : ~Can(k)}
<1>1. Can(0)
  <2> DEFINE p == [i \in 1..n |-> i]
  <2>1. p \in Bijection(1..n, 1..n)
    BY DEF Bijection, Injection, Surjection, IsInjective
  <2>2. Ordered(v, p, n, 0)
    BY DEF Ordered
  <2>3. QED
    BY <2>1, <2>2
<1>2. Bad = {}
  <2> SUFFICES ASSUME Bad # {} PROVE FALSE
    OBVIOUS
  <2> HIDE DEF Can
  <2>1. PICK k \in Bad : \A d \in Bad : k <= d
    <3>1. Bad \in SUBSET Nat
      OBVIOUS
    <3> HIDE DEF Bad
    <3>2. QED
      BY <3>1, Least
  <2>2. k # 0 /\ k \in 0..n /\ ~Can(k)
    BY <1>1
  <2>3. k - 1 \in Nat /\ k - 1 \in 0..n /\ k - 1 < n /\ (k - 1) + 1 = k /\ ~(k <= k - 1)
    BY <2>2
  <2>4. Can(k - 1)
    <3>1. k - 1 \notin Bad
      <4> HIDE DEF Bad
      <4>1. QED
        BY <2>1, <2>3
    <3>2. QED
      BY <2>3, <3>1
  <2>5. Can((k - 1) + 1)
    BY <2>3, <2>4, OneMoreInOrder DEF Can
  <2>6. QED
    BY <2>2, <2>3, <2>5
<1>3. n \in 0..n
  OBVIOUS
<1> HIDE DEF Can
<1>4. Can(n)
  BY <1>2, <1>3
<1>5. QED
  BY <1>4 DEF Can

(* What sorted returns: a rearrangement in the order of size. *)
LEMMA InOrderIsSorted ==
  ASSUME NEW n \in Nat, NEW v \in [1..n -> Int]
  PROVE  /\ InOrder(v) \in [1..n -> Int]
         /\ \A i, j \in 1..n : i <= j => InOrder(v)[i] <= InOrder(v)[j]
         /\ \E p \in Bijection(1..n, 1..n) : \A i \in 1..n : InOrder(v)[i] = v[p[i]]
<1> DEFINE Fits(p) == \A j, k \in 1..n : j < k => v[p[j]] <= v[p[k]]
           order == CHOOSE p \in Bijection(1..n, 1..n) : Fits(p)
<1>1. \E p \in Bijection(1..n, 1..n) : Fits(p)
  BY CanBeOrdered DEF Ordered
<1>2. order \in Bijection(1..n, 1..n) /\ Fits(order)
  <2> HIDE DEF Fits
  <2>1. QED
    BY <1>1
<1>3. DOMAIN v = 1..n
  OBVIOUS
<1>4. InOrder(v) = [k \in 1..n |-> v[order[k]]]
  BY <1>3 DEF InOrder
<1> HIDE DEF order
<1>5. order \in [1..n -> 1..n]
  BY <1>2 DEF Bijection, Injection
<1>6. ASSUME NEW i \in 1..n, NEW j \in 1..n, i <= j PROVE InOrder(v)[i] <= InOrder(v)[j]
  <2>1. InOrder(v)[i] = v[order[i]] /\ InOrder(v)[j] = v[order[j]] /\ v[order[i]] \in Int
    BY <1>4, <1>5
  <2>2. CASE i = j
    BY <2>1, <2>2
  <2>3. CASE i < j
    BY <1>2, <2>1, <2>3
  <2>4. QED
    BY <1>6, <2>2, <2>3
<1>7. QED
  BY <1>2, <1>4, <1>5, <1>6

LEMMA SmallerLarger ==
  ASSUME NEW a \in Int, NEW b \in Int, a <= b
  PROVE  Min({a, b}) = a /\ Max({a, b}) = b
BY DEF Min, Max

(* The place of the nearest rank, counted from one. *)
RankOf(n, numerator, denominator) == (numerator * n + denominator - 1) \div denominator

LEMMA RankBounds ==
  ASSUME NEW n \in Nat \ {0}, NEW d \in Nat, NEW m \in 1..d
  PROVE  /\ RankOf(n, m, d) \in 1..n
         /\ RankOf(n, m, d) * d >= m * n
         /\ (RankOf(n, m, d) - 1) * d < m * n
<1> DEFINE c == RankOf(n, m, d)
           x == m * n
<1>1. x \in Nat /\ x >= 1 /\ x <= d * n /\ d > 0
  <2>1. m * n >= 1 * n
    BY SMT
  <2>2. m * n <= d * n
    BY SMT
  <2>3. QED
    BY <2>1, <2>2
<1>2. c = (x + d - 1) \div d
  BY DEF RankOf
<1> HIDE DEF c, x
<1>3. c \in Int /\ c * d <= x + d - 1 /\ x + d - 1 < (c + 1) * d
  BY <1>1, <1>2
<1>4. c * d >= x /\ (c - 1) * d < x
  <2>1. (c + 1) * d = c * d + d /\ (c - 1) * d = c * d - d /\ c * d \in Int
    BY <1>3
  <2>2. QED
    BY <1>1, <1>3, <2>1
<1>5. c >= 1
  <2>1. c <= 0 => c * d <= 0
    BY <1>1, <1>3
  <2>2. c * d \in Int
    BY <1>3
  <2>3. QED
    BY <1>1, <1>3, <1>4, <2>1, <2>2
<1>6. c <= n
  <2>1. c - 1 >= n => (c - 1) * d >= n * d
    BY <1>1, <1>3
  <2>2. (c - 1) * d \in Int /\ n * d \in Int /\ n * d = d * n
    BY <1>3
  <2>3. QED
    BY <1>1, <1>3, <1>4, <2>1, <2>2
<1>7. QED
  BY <1>3, <1>4, <1>5, <1>6 DEF c, x

LEMMA NearestRankIs ==
  ASSUME NEW n \in Nat \ {0}, NEW v \in [1..n -> Int], NEW d \in Nat, NEW m \in 1..d
  PROVE  NearestRank(v, m, d) = InOrder(v)[RankOf(n, m, d)]
<1> DEFINE c == RankOf(n, m, d)
<1>1. Len(v) = n
  OBVIOUS
<1>2. c \in 1..n
  BY RankBounds
<1>3. NearestRank(v, m, d) = InOrder(v)[1 + Max({0, Min({c - 1, n - 1})})]
  BY <1>1 DEF NearestRank, RankOf
<1> HIDE DEF c
<1>4. Min({c - 1, n - 1}) = c - 1
  BY <1>2, SmallerLarger
<1>5. Max({0, c - 1}) = c - 1
  <2>1. 0 \in Int /\ c - 1 \in Int /\ 0 <= c - 1
    BY <1>2
  <2> DEFINE z == c - 1
  <2> HIDE DEF z
  <2>2. Max({0, z}) = z
    BY <2>1, SmallerLarger DEF z
  <2>3. QED
    BY <2>2 DEF z
<1>6. 1 + (c - 1) = c
  BY <1>2
<1>7. NearestRank(v, m, d) = InOrder(v)[c]
  BY <1>3, <1>4, <1>5, <1>6
<1>8. QED
  BY <1>7 DEF c

(* The positions of the values from place a to place b: as many as places. *)
Places(p, a, b) == {p[i] : i \in a..b}

LEMMA PlacesCounted ==
  ASSUME NEW n \in Nat, NEW p \in Bijection(1..n, 1..n),
         NEW a \in Nat \ {0}, NEW b \in Nat, b <= n, a <= b + 1
  PROVE  /\ Places(p, a, b) \subseteq 1..n
         /\ IsFiniteSet(Places(p, a, b))
         /\ Cardinality(Places(p, a, b)) = b - a + 1
<1> DEFINE T == {p[i] : i \in a..b}
           f == [i \in a..b |-> p[i]]
<1>1. p \in [1..n -> 1..n] /\ \A i, j \in 1..n : p[i] = p[j] => i = j
  BY DEF Bijection, Injection, IsInjective
<1>2. a..b \subseteq 1..n
  OBVIOUS
<1>3. T \subseteq 1..n
  BY <1>1, <1>2
<1>4. f \in Surjection(a..b, T)
  BY DEF Surjection
<1>5. f \in Injection(a..b, T)
  BY <1>1, <1>2 DEF Injection, IsInjective
<1>6. IsFiniteSet(a..b) /\ Cardinality(a..b) = b - a + 1
  <2>1. a > b => b - a + 1 = 0
    OBVIOUS
  <2>2. QED
    BY <2>1, FS_Interval
<1> HIDE DEF T, f
<1>7. IsFiniteSet(T) /\ Cardinality(T) = Cardinality(a..b)
  BY <1>4, <1>5, <1>6, FS_Surjection
<1>8. QED
  BY <1>3, <1>6, <1>7 DEF T, Places

(* At least as many values as its place do not exceed a value; fewer do not *)
(* exceed a smaller one.                                                     *)
LEMMA CountedUpTo ==
  ASSUME NEW n \in Nat \ {0}, NEW v \in [1..n -> Int], NEW r \in 1..n
  PROVE  /\ AtMost(v, InOrder(v)[r]) \in Nat /\ AtMost(v, InOrder(v)[r]) >= r
         /\ \A x \in Int : x < InOrder(v)[r] =>
              AtMost(v, x) \in Nat /\ AtMost(v, x) <= r - 1
<1> DEFINE o == InOrder(v)
           Up(x) == {i \in 1..n : v[i] <= x}
<1>1. /\ o \in [1..n -> Int]
      /\ \A i, j \in 1..n : i <= j => o[i] <= o[j]
  BY InOrderIsSorted
<1>2. PICK p \in Bijection(1..n, 1..n) : \A i \in 1..n : o[i] = v[p[i]]
  BY InOrderIsSorted
<1>3. p \in [1..n -> 1..n] /\ \A t \in 1..n : \E i \in 1..n : p[i] = t
  BY DEF Bijection, Injection, Surjection
<1>4. \A x : AtMost(v, x) = Cardinality(Up(x))
  BY DEF AtMost
<1> HIDE DEF o
<1>5. \A x \in Int : IsFiniteSet(Up(x)) /\ Cardinality(Up(x)) \in Nat
  <2>1. IsFiniteSet(1..n)
    BY FS_Interval
  <2>2. QED
    BY <2>1, FS_Subset, FS_CardinalityType
<1>6. Cardinality(Up(o[r])) >= r
  <2> DEFINE T == Places(p, 1, r)
  <2>1. T \subseteq Up(o[r])
    <3> SUFFICES ASSUME NEW i \in 1..r PROVE p[i] \in Up(o[r])
      BY DEF Places
    <3>1. i \in 1..n /\ i <= r
      OBVIOUS
    <3>2. QED
      BY <1>1, <1>2, <1>3, <3>1
  <2>2. Cardinality(T) = r
    <3>1. r \in Nat /\ r <= n /\ 1 <= r + 1 /\ 1 \in Nat \ {0} /\ r - 1 + 1 = r
      OBVIOUS
    <3>2. QED
      BY <3>1, PlacesCounted
  <2>3. o[r] \in Int
    BY <1>1
  <2> HIDE DEF T, Up
  <2>4. Cardinality(T) <= Cardinality(Up(o[r]))
    BY <1>5, <2>1, <2>3, FS_Subset
  <2>5. QED
    BY <2>2, <2>4
<1>7. ASSUME NEW x \in Int, x < o[r] PROVE Cardinality(Up(x)) <= r - 1
  <2> DEFINE T == Places(p, 1, r - 1)
  <2>1. Up(x) \subseteq T
    <3> SUFFICES ASSUME NEW t \in Up(x) PROVE t \in T
      OBVIOUS
    <3>1. PICK i \in 1..n : p[i] = t
      BY <1>3
    <3>2. o[i] <= x
      BY <1>2, <3>1
    <3>3. ~(r <= i)
      BY <1>1, <1>7, <3>2
    <3>4. i \in 1..(r - 1)
      BY <3>3
    <3>5. QED
      BY <3>1, <3>4 DEF Places
  <2>2. IsFiniteSet(T) /\ Cardinality(T) = r - 1
    <3>1. r - 1 \in Nat /\ r - 1 <= n /\ 1 <= (r - 1) + 1 /\ 1 \in Nat \ {0} /\ (r - 1) - 1 + 1 = r - 1
      OBVIOUS
    <3>2. QED
      BY <3>1, PlacesCounted
  <2> HIDE DEF T, Up
  <2>3. Cardinality(Up(x)) <= Cardinality(T)
    BY <2>1, <2>2, FS_Subset
  <2>4. QED
    BY <2>2, <2>3
<1>8. QED
  BY <1>1, <1>4, <1>5, <1>6, <1>7 DEF o

LEMMA LeastIs ==
  ASSUME NEW S \in SUBSET Int, NEW x \in S, \A y \in S : x <= y
  PROVE  Min(S) = x
<1>1. Min(S) \in S /\ \A y \in S : Min(S) <= y
  BY DEF Min
<1>2. Min(S) <= x /\ x <= Min(S) /\ Min(S) \in Int /\ x \in Int
  BY <1>1
<1>3. QED
  BY <1>2

LEMMA GreatestIs ==
  ASSUME NEW S \in SUBSET Int, NEW x \in S, \A y \in S : y <= x
  PROVE  Max(S) = x
<1>1. \A y \in S : x >= y
  OBVIOUS
<1>2. Max(S) \in S /\ \A y \in S : Max(S) >= y
  BY <1>1 DEF Max
<1>3. Max(S) >= x /\ x >= Max(S) /\ Max(S) \in Int /\ x \in Int
  BY <1>1, <1>2
<1>4. QED
  BY <1>3

(* The nearest rank is the least value that enough values do not exceed. *)
LEMMA NearestIsLeast ==
  ASSUME NEW n \in Nat \ {0}, NEW v \in [1..n -> Int], NEW d \in Nat, NEW m \in 1..d
  PROVE  NearestRank(v, m, d) =
           Min({x \in {v[i] : i \in 1..n} : AtMost(v, x) * d >= m * n})
<1> DEFINE r == RankOf(n, m, d)
           x == InOrder(v)[r]
           Reached == {y \in {v[i] : i \in 1..n} : AtMost(v, y) * d >= m * n}
<1>1. r \in 1..n /\ r * d >= m * n /\ (r - 1) * d < m * n
  BY RankBounds
<1>2. NearestRank(v, m, d) = x
  BY NearestRankIs
<1>3. InOrder(v) \in [1..n -> Int]
      /\ \E p \in Bijection(1..n, 1..n) : \A i \in 1..n : InOrder(v)[i] = v[p[i]]
  BY InOrderIsSorted
<1> HIDE DEF r
<1>4. x \in {v[i] : i \in 1..n}
  BY <1>1, <1>3 DEF Bijection, Injection
<1>5. AtMost(v, x) \in Nat /\ AtMost(v, x) >= r
      /\ \A y \in Int : y < x => AtMost(v, y) \in Nat /\ AtMost(v, y) <= r - 1
  BY <1>1, CountedUpTo
<1>6. x \in Int /\ Reached \in SUBSET Int
  BY <1>1, <1>3
<1> HIDE DEF x
<1>7. x \in Reached
  <2> DEFINE a == AtMost(v, x)
  <2>1. a * d >= r * d
    <3>1. a \in Nat /\ a >= r /\ r \in Nat /\ d \in Nat
      BY <1>1, <1>5
    <3> HIDE DEF a
    <3>2. QED
      BY <3>1
  <2>2. a * d \in Int /\ r * d \in Int /\ m * n \in Int
    BY <1>1, <1>5
  <2>3. a * d >= m * n
    BY <1>1, <2>1, <2>2
  <2>4. QED
    BY <1>4, <2>3
<1>8. ASSUME NEW y \in Reached PROVE x <= y
  <2> SUFFICES ASSUME y < x PROVE FALSE
    BY <1>6, <1>8
  <2> DEFINE a == AtMost(v, y)
  <2>1. y \in Int /\ a \in Nat /\ a <= r - 1 /\ a * d >= m * n
    BY <1>5, <1>6
  <2> HIDE DEF a
  <2>2. a * d <= (r - 1) * d
    BY <1>1, <2>1
  <2>3. a * d \in Int /\ (r - 1) * d \in Int /\ m * n \in Int
    BY <1>1, <2>1
  <2>4. QED
    BY <1>1, <2>1, <2>2, <2>3
<1> HIDE DEF Reached
<1>9. Min(Reached) = x
  BY <1>6, <1>7, <1>8, LeastIs
<1>10. QED
  BY <1>2, <1>9 DEF Reached

(* Of two sequences, some position holds a value up to the one place of the *)
(* first and from the same place of the second: there are not enough others.*)
LEMMA PlacesMeet ==
  ASSUME NEW n \in Nat \ {0}, NEW u \in [1..n -> Int], NEW v \in [1..n -> Int], NEW r \in 1..n
  PROVE  \E i \in 1..n : u[i] <= InOrder(u)[r] /\ InOrder(v)[r] <= v[i]
<1>1. PICK p \in Bijection(1..n, 1..n) : \A i \in 1..n : InOrder(u)[i] = u[p[i]]
  BY InOrderIsSorted
<1>2. PICK q \in Bijection(1..n, 1..n) : \A i \in 1..n : InOrder(v)[i] = v[q[i]]
  BY InOrderIsSorted
<1> DEFINE A == Places(p, 1, r)
           B == Places(q, r, n)
<1>3. A \subseteq 1..n /\ IsFiniteSet(A) /\ Cardinality(A) = r
  <2>1. r \in Nat /\ r <= n /\ 1 <= r + 1 /\ 1 \in Nat \ {0} /\ r - 1 + 1 = r
    OBVIOUS
  <2>2. QED
    BY <2>1, PlacesCounted
<1>4. B \subseteq 1..n /\ IsFiniteSet(B) /\ Cardinality(B) = n - r + 1
  <2>1. r \in Nat \ {0} /\ n \in Nat /\ r <= n + 1 /\ n <= n
    OBVIOUS
  <2>2. QED
    BY <2>1, PlacesCounted
<1> HIDE DEF A, B
<1>5. A \cap B # {}
  <2> SUFFICES ASSUME A \cap B = {} PROVE FALSE
    OBVIOUS
  <2>1. Cardinality(A \cap B) = 0
    BY FS_EmptySet
  <2>2. Cardinality(A \cup B) = r + (n - r + 1) - 0
    BY <1>3, <1>4, <2>1, FS_Union
  <2>3. IsFiniteSet(1..n) /\ Cardinality(1..n) = n
    BY FS_Interval
  <2>4. A \cup B \in SUBSET (1..n)
    BY <1>3, <1>4
  <2>5. Cardinality(A \cup B) <= n
    BY <2>3, <2>4, FS_Subset
  <2>6. QED
    BY <2>2, <2>5
<1>6. PICK t \in 1..n : t \in A /\ t \in B
  BY <1>3, <1>5
<1>7. PICK i \in 1..r : t = p[i]
  BY <1>6 DEF A, Places
<1>8. PICK j \in r..n : t = q[j]
  BY <1>6 DEF B, Places
<1>9. i \in 1..n /\ j \in 1..n /\ i <= r /\ r <= j
  OBVIOUS
<1>10. u[t] <= InOrder(u)[r]
  <2>1. InOrder(u)[i] <= InOrder(u)[r]
    BY <1>9, InOrderIsSorted
  <2>2. QED
    BY <1>1, <1>7, <1>9, <2>1
<1>11. InOrder(v)[r] <= v[t]
  <2>1. InOrder(v)[r] <= InOrder(v)[j]
    BY <1>9, InOrderIsSorted
  <2>2. QED
    BY <1>2, <1>8, <1>9, <2>1
<1>12. QED
  BY <1>10, <1>11

(* A quicker candidate or a slower comparator is no smaller improvement. *)
LEMMA ImprovementGrows ==
  ASSUME NEW c \in Nat \ {0}, NEW k \in Nat \ {0},
         NEW d \in Nat \ {0}, NEW l \in Nat \ {0}, d <= c, k <= l,
         Scale \in Nat \ {0}
  PROVE  Improvement(c, k) <= Improvement(d, l)
<1> DEFINE a == Improvement(c, k)
           b == Improvement(d, l)
           s == Scale
<1>1. a = ((k - c) * s) \div k /\ b = ((l - d) * s) \div l /\ s \in Nat \ {0}
  BY DEF Improvement
<1> HIDE DEF a, b, s
<1>2. a \in Int /\ a * k <= (k - c) * s
  BY <1>1
<1>3. b \in Int /\ (l - d) * s < (b + 1) * l
  BY <1>1
<1>4. c * s <= k * (s - a)
  BY <1>1, <1>2
<1>5. c * s > 0
  BY <1>1
<1>6. s - a > 0
  <2>1. s - a <= 0 => k * (s - a) <= 0
    BY <1>1, <1>2
  <2>2. k * (s - a) \in Int /\ c * s \in Int
    BY <1>1, <1>2
  <2>3. QED
    BY <1>1, <1>2, <1>4, <1>5, <2>1, <2>2
<1>7. k * (s - a) <= l * (s - a)
  BY <1>1, <1>2, <1>6
<1>8. d * s <= c * s
  BY <1>1
<1>9. d * s <= l * (s - a)
  <2>1. d * s \in Int /\ c * s \in Int /\ k * (s - a) \in Int /\ l * (s - a) \in Int
    BY <1>1, <1>2
  <2>2. QED
    BY <1>4, <1>7, <1>8, <2>1
<1>10. a * l < (b + 1) * l
  BY <1>1, <1>2, <1>3, <1>9
<1>11. a < b + 1
  <2>1. b + 1 <= a => (b + 1) * l <= a * l
    BY <1>2, <1>3
  <2>2. (b + 1) * l \in Int /\ a * l \in Int
    BY <1>2, <1>3
  <2>3. QED
    BY <1>2, <1>3, <1>10, <2>1, <2>2
<1>12. QED
  BY <1>2, <1>3, <1>11 DEF a, b

(* The values over an interval have a least and a greatest one. *)
LEMMA MinAndMax ==
  ASSUME NEW n \in Nat \ {0}, NEW g, \A i \in 1..n : g[i] \in Int
  PROVE  LET S == {g[i] : i \in 1..n}
         IN  /\ Min(S) \in Int /\ Max(S) \in Int
             /\ \A i \in 1..n : Min(S) <= g[i] /\ g[i] <= Max(S)
<1> DEFINE S == {g[i] : i \in 1..n}
           h == [i \in 1..n |-> -g[i]]
<1>1. S \in SUBSET Int /\ 1 \in Nat /\ 1 <= n /\ n \in Nat
  OBVIOUS
<1>2. PICK a \in 1..n : \A j \in 1..n : g[a] <= g[j]
  BY <1>1, LeastValue
<1>3. PICK b \in 1..n : \A j \in 1..n : g[j] <= g[b]
  <2>1. \A i \in 1..n : h[i] \in Int
    OBVIOUS
  <2>2. PICK b \in 1..n : \A j \in 1..n : h[b] <= h[j]
    <3> HIDE DEF h
    <3>1. QED
      BY <1>1, <2>1, LeastValue
  <2>3. ASSUME NEW j \in 1..n PROVE g[j] <= g[b]
    BY <2>2
  <2>4. QED
    BY <2>3
<1>4. g[a] \in S /\ g[b] \in S /\ (\A y \in S : g[a] <= y) /\ (\A y \in S : y <= g[b])
  BY <1>2, <1>3
<1>5. \A i \in 1..n : g[i] \in S
  OBVIOUS
<1> HIDE DEF S
<1>6. Min(S) = g[a] /\ Max(S) = g[b]
  BY <1>1, <1>4, LeastIs, GreatestIs
<1>7. Min(S) \in Int /\ Max(S) \in Int /\ \A i \in 1..n : Min(S) <= g[i] /\ g[i] <= Max(S)
  BY <1>1, <1>4, <1>5, <1>6
<1>8. QED
  BY <1>7 DEF S

(* The place that a percentile starts from, and how far it is from there. *)
PlaceOf(n, m, d) == 1 + (m * (n - 1)) \div d
PartOf(n, m, d) == (m * (n - 1)) % d

LEMMA PlaceBounds ==
  ASSUME NEW n \in Nat \ {0}, NEW d \in Nat \ {0}, NEW m \in 0..d
  PROVE  PlaceOf(n, m, d) \in 1..n /\ PartOf(n, m, d) \in 0..(d - 1)
<1> DEFINE x == m * (n - 1)
           q == x \div d
<1>1. x \in Nat /\ x <= d * (n - 1)
  BY SMT
<1> HIDE DEF x
<1>2. q \in Nat /\ q * d <= x /\ x % d \in 0..(d - 1)
  BY <1>1
<1> HIDE DEF q
<1>3. q <= n - 1
  <2>1. q >= n => q * d >= n * d
    BY <1>2
  <2>2. n * d = d * (n - 1) + d /\ d * (n - 1) \in Int /\ q * d \in Int
    BY <1>2
  <2>3. QED
    BY <1>1, <1>2, <2>1, <2>2
<1>4. 1 + q \in 1..n
  BY <1>2, <1>3
<1>5. QED
  BY <1>2, <1>4 DEF x, q, PlaceOf, PartOf

LEMMA SharePart ==
  ASSUME NEW g \in Nat, NEW d \in Nat \ {0}, NEW r \in 0..(d - 1)
  PROVE  (g * r) \div d \in Int /\ 0 <= (g * r) \div d /\ (g * r) \div d <= g
<1> DEFINE x == g * r
           q == x \div d
<1>1. x \in Nat /\ x <= g * d
  BY SMT
<1> HIDE DEF x
<1>2. q \in Nat /\ q * d <= x
  BY <1>1
<1> HIDE DEF q
<1>3. q <= g
  <2>1. q >= g + 1 => q * d >= (g + 1) * d
    BY <1>2
  <2>2. (g + 1) * d = g * d + d /\ g * d \in Int /\ q * d \in Int
    BY <1>2
  <2>3. QED
    BY <1>1, <1>2, <2>1, <2>2
<1>4. QED
  BY <1>2, <1>3 DEF x, q

LEMMA ShareGrows ==
  ASSUME NEW g \in Nat, NEW d \in Nat \ {0}, NEW r \in Nat, NEW t \in Nat, r <= t
  PROVE  (g * r) \div d <= (g * t) \div d
<1> DEFINE x == g * r
           y == g * t
<1>1. x \in Nat /\ y \in Nat /\ x <= y
  BY SMT
<1> HIDE DEF x, y
<1>2. x \div d <= y \div d
  <2> DEFINE p == x \div d
             q == y \div d
  <2>1. p \in Nat /\ q \in Nat /\ p * d <= x /\ y < (q + 1) * d
    BY <1>1
  <2> HIDE DEF p, q
  <2>2. p >= q + 1 => p * d >= (q + 1) * d
    BY <2>1
  <2>3. p * d \in Int /\ (q + 1) * d \in Int
    BY <2>1
  <2>4. p <= q
    BY <1>1, <2>1, <2>2, <2>3
  <2>5. QED
    BY <2>4 DEF p, q
<1>3. QED
  BY <1>2 DEF x, y

LEMMA PercentileForm ==
  ASSUME NEW n \in Nat \ {0}, NEW v \in [1..n -> Int],
         NEW d \in Nat \ {0}, NEW m \in 0..d
  PROVE  LET o == InOrder(v)
             a == PlaceOf(n, m, d)
         IN  PercentileLinear(v, m, d) =
               IF a = n THEN o[a]
               ELSE o[a] + ((o[a + 1] - o[a]) * PartOf(n, m, d)) \div d
<1> DEFINE o == InOrder(v)
           a == PlaceOf(n, m, d)
           t == PartOf(n, m, d)
<1>1. Len(v) = n
  OBVIOUS
<1>2. PercentileLinear(v, m, d) =
        IF t = 0 \/ a = n THEN o[a] ELSE o[a] + ((o[a + 1] - o[a]) * t) \div d
  BY <1>1 DEF PercentileLinear, PlaceOf, PartOf
<1>3. o \in [1..n -> Int] /\ a \in 1..n
  BY InOrderIsSorted, PlaceBounds
<1> HIDE DEF o, a, t
<1>4. ASSUME t = 0, a # n PROVE o[a] + ((o[a + 1] - o[a]) * t) \div d = o[a]
  <2>1. o[a] \in Int /\ o[a + 1] \in Int
    BY <1>3, <1>4
  <2>2. (o[a + 1] - o[a]) * t = 0
    BY <1>4, <2>1
  <2>3. 0 \div d = 0
    OBVIOUS
  <2>4. QED
    BY <2>1, <2>2, <2>3
<1>5. QED
  BY <1>2, <1>4 DEF o, a, t

(* A percentile lies between the two values it is interpolated from. *)
LEMMA PercentileBetween ==
  ASSUME NEW n \in Nat \ {0}, NEW v \in [1..n -> Int],
         NEW d \in Nat \ {0}, NEW m \in 0..d
  PROVE  LET o == InOrder(v)
             a == PlaceOf(n, m, d)
         IN  /\ PercentileLinear(v, m, d) \in Int
             /\ o[a] <= PercentileLinear(v, m, d)
             /\ PercentileLinear(v, m, d) <= o[IF a = n THEN n ELSE a + 1]
<1> DEFINE o == InOrder(v)
           a == PlaceOf(n, m, d)
           t == PartOf(n, m, d)
           x == PercentileLinear(v, m, d)
<1>1. o \in [1..n -> Int] /\ \A i, j \in 1..n : i <= j => o[i] <= o[j]
  BY InOrderIsSorted
<1>2. a \in 1..n /\ t \in 0..(d - 1)
  BY PlaceBounds
<1>3. x = IF a = n THEN o[a] ELSE o[a] + ((o[a + 1] - o[a]) * t) \div d
  BY PercentileForm
<1> HIDE DEF o, a, t, x
<1>4. CASE a = n
  <2>1. o[n] \in Int
    BY <1>1
  <2>2. QED
    BY <1>3, <1>4, <2>1 DEF o, a, x
<1>5. CASE a # n
  <2>1. a + 1 \in 1..n /\ a <= a + 1 /\ o[a] \in Int /\ o[a + 1] \in Int
    BY <1>1, <1>2, <1>5
  <2>2. o[a + 1] - o[a] \in Nat
    BY <1>1, <1>2, <2>1
  <2> DEFINE y == ((o[a + 1] - o[a]) * t) \div d
  <2>3. y \in Int /\ 0 <= y /\ y <= o[a + 1] - o[a]
    BY <1>2, <2>2, SharePart
  <2>4. x = o[a] + y
    BY <1>3, <1>5
  <2> HIDE DEF y
  <2>5. x \in Int /\ o[a] <= x /\ x <= o[a + 1]
    BY <2>1, <2>3, <2>4
  <2>6. QED
    BY <1>5, <2>5 DEF o, a, x
<1>6. QED
  BY <1>4, <1>5

LEMMA Division ==
  ASSUME NEW x \in Nat, NEW d \in Nat \ {0}
  PROVE  /\ x \div d \in Nat /\ x % d \in 0..(d - 1)
         /\ (x \div d) * d \in Nat /\ x = (x \div d) * d + (x % d)
<1> DEFINE q == x \div d
<1>1. q \in Nat
  OBVIOUS
<1>2. x % d \in 0..(d - 1)
  OBVIOUS
<1>3. x = q * d + (x % d)
  OBVIOUS
<1> HIDE DEF q
<1>4. q * d \in Nat
  BY <1>1
<1>5. QED
  BY <1>1, <1>2, <1>3, <1>4 DEF q

LEMMA PercentilesOrdered ==
  ASSUME NEW n \in Nat \ {0}, NEW v \in [1..n -> Int],
         NEW d \in Nat \ {0}, NEW m \in 0..d, NEW k \in 0..d, m <= k
  PROVE  PercentileLinear(v, m, d) <= PercentileLinear(v, k, d)
<1> DEFINE o == InOrder(v)
           a == PlaceOf(n, m, d)
           b == PlaceOf(n, k, d)
           s == PartOf(n, m, d)
           t == PartOf(n, k, d)
           x == PercentileLinear(v, m, d)
           y == PercentileLinear(v, k, d)
<1>1. o \in [1..n -> Int] /\ \A i, j \in 1..n : i <= j => o[i] <= o[j]
  BY InOrderIsSorted
<1>2. a \in 1..n /\ s \in 0..(d - 1) /\ b \in 1..n /\ t \in 0..(d - 1)
  BY PlaceBounds
<1>3. /\ x = IF a = n THEN o[a] ELSE o[a] + ((o[a + 1] - o[a]) * s) \div d
      /\ y = IF b = n THEN o[b] ELSE o[b] + ((o[b + 1] - o[b]) * t) \div d
  BY PercentileForm
<1>4. /\ x \in Int /\ o[a] <= x /\ x <= o[IF a = n THEN n ELSE a + 1]
      /\ y \in Int /\ o[b] <= y /\ y <= o[IF b = n THEN n ELSE b + 1]
  BY PercentileBetween
<1>5. a <= b /\ (a = b => s <= t)
  <2> DEFINE p == m * (n - 1)
             q == k * (n - 1)
  <2>1. p \in Nat /\ q \in Nat /\ p <= q
    BY SMT
  <2>2. a = 1 + p \div d /\ b = 1 + q \div d /\ s = p % d /\ t = q % d
    BY DEF PlaceOf, PartOf
  <2> HIDE DEF p, q, a, b, s, t
  <2> DEFINE e == p \div d
             f == q \div d
  <2>3. e \in Nat /\ f \in Nat /\ p = e * d + (p % d) /\ q = f * d + (q % d)
        /\ p % d \in 0..(d - 1) /\ q % d \in 0..(d - 1)
        /\ e * d \in Nat /\ f * d \in Nat
    BY <2>1, Division
  <2> HIDE DEF e, f
  <2>4. e <= f
    <3>1. e >= f + 1 => e * d >= (f + 1) * d
      BY <2>3
    <3>2. (f + 1) * d = f * d + d /\ f * d \in Int /\ e * d \in Int
      BY <2>3
    <3>3. e * d <= p /\ q < f * d + d
      BY <2>1, <2>3
    <3> DEFINE g == e * d
               h == f * d
    <3>4. (e >= f + 1 => g >= h + d) /\ g <= p /\ q < h + d /\ g \in Int /\ h \in Int
      BY <3>1, <3>2, <3>3
    <3> HIDE DEF g, h
    <3>5. QED
      BY <2>1, <2>3, <3>4
  <2>5. e = f => p % d <= q % d
    <3>1. f * d \in Int
      BY <2>3
    <3>2. QED
      BY <2>1, <2>3, <3>1
  <2>6. a = 1 + e /\ b = 1 + f
    BY <2>2 DEF e, f
  <2>7. a <= b /\ (a = b => e = f)
    BY <2>3, <2>4, <2>6
  <2>8. s <= t <=> p % d <= q % d
    BY <2>2
  <2>9. QED
    BY <2>5, <2>7, <2>8
<1> HIDE DEF o, a, b, s, t, x, y
<1>6. CASE a < b
  <2>1. a # n /\ a + 1 \in 1..n /\ a + 1 <= b
    BY <1>2, <1>6
  <2>2. x <= o[a + 1] /\ o[a + 1] <= o[b] /\ o[a + 1] \in Int /\ o[b] \in Int
    BY <1>1, <1>2, <1>4, <2>1
  <2>3. x <= y
    BY <1>4, <2>2
  <2>4. QED
    BY <2>3 DEF x, y
<1>7. CASE a = b
  <2>1. CASE a = n
    <3>1. x = y
      BY <1>3, <1>7, <2>1
    <3>2. QED
      BY <1>4, <3>1 DEF x, y
  <2>2. CASE a # n
    <3>1. a + 1 \in 1..n /\ o[a] \in Int /\ o[a + 1] \in Int /\ o[a + 1] - o[a] \in Nat
      BY <1>1, <1>2, <2>2
    <3> DEFINE g == o[a + 1] - o[a]
    <3>2. x = o[a] + (g * s) \div d /\ y = o[a] + (g * t) \div d
      BY <1>3, <1>7, <2>2
    <3>3. s \in Nat /\ t \in Nat /\ s <= t /\ g \in Nat
      BY <1>2, <1>5, <1>7, <3>1
    <3> HIDE DEF g
    <3>4. (g * s) \div d <= (g * t) \div d
      BY <3>3, ShareGrows
    <3>5. (g * s) \div d \in Int /\ (g * t) \div d \in Int
      BY <1>2, <3>3, SharePart
    <3>6. x <= y
      BY <3>1, <3>2, <3>4, <3>5
    <3>7. QED
      BY <3>6 DEF x, y
  <2>3. QED
    BY <2>1, <2>2
<1>8. QED
  BY <1>2, <1>5, <1>6, <1>7

(***************************************************************************)
(* The benchmark's invariant: each improvement lies between those of two   *)
(* pairs of trials.                                                        *)
(***************************************************************************)

Pair(i) == Improvement(trials["candidate"][i], trials["comparator"][i])

Within(x) ==
  /\ \E i \in DOMAIN trials["candidate"] : Pair(i) <= x
  /\ \E i \in DOMAIN trials["candidate"] : x <= Pair(i)

BenchmarkInv ==
  /\ trials \in [Sides -> Trials]
  /\ benchmark \in {"resampling", "interval", "accepted"} => p95 = Ranks
  /\ improvements \in Seq(Int)
  /\ improvements # <<>> => Paired
  /\ \A i \in DOMAIN improvements : Within(improvements[i])
  /\ IntervalWithinPairs

LEMMA TrialTypes ==
  ASSUME trials \in [Sides -> Trials]
  PROVE  \A s \in Sides :
           /\ Len(trials[s]) \in Nat \ {0} /\ DOMAIN trials[s] = 1..Len(trials[s])
           /\ trials[s] \in [1..Len(trials[s]) -> Latencies]
           /\ trials[s] \in [1..Len(trials[s]) -> Int]
<1> SUFFICES ASSUME NEW s \in Sides
             PROVE  /\ Len(trials[s]) \in Nat \ {0} /\ DOMAIN trials[s] = 1..Len(trials[s])
                    /\ trials[s] \in [1..Len(trials[s]) -> Latencies]
                    /\ trials[s] \in [1..Len(trials[s]) -> Int]
  OBVIOUS
<1>1. trials[s] \in Trials
  OBVIOUS
<1>2. PICK n \in 1..MaxTrials : trials[s] \in [1..n -> Latencies]
  BY <1>1 DEF Trials
<1>3. Len(trials[s]) = n /\ n \in Nat \ {0}
  BY <1>2
<1>4. Latencies \subseteq Int
  BY BenchmarkAssumption DEF BenchmarkAssumption
<1>5. QED
  BY <1>2, <1>3, <1>4

(* What a percentile of a sequence of latencies is among its values. *)
LEMMA RankIsLatency ==
  ASSUME NEW n \in Nat \ {0}, NEW v \in [1..n -> Latencies], NEW r \in 1..n
  PROVE  InOrder(v)[r] \in Latencies
<1>1. v \in [1..n -> Int]
  <2>1. Latencies \subseteq Int
    BY BenchmarkAssumption DEF BenchmarkAssumption
  <2>2. QED
    BY <2>1
<1>2. PICK p \in Bijection(1..n, 1..n) : \A i \in 1..n : InOrder(v)[i] = v[p[i]]
  BY <1>1, InOrderIsSorted
<1>3. p[r] \in 1..n
  BY DEF Bijection, Injection
<1>4. QED
  BY <1>2, <1>3

LEMMA ResampleWithin ==
  ASSUME trials \in [Sides -> Trials], Paired, NEW draw \in Draws
  PROVE  LET x == Improvement(P95(Sample(trials["candidate"], draw)),
                              P95(Sample(trials["comparator"], draw)))
         IN  x \in Int /\ Within(x)
<1> DEFINE n == Len(trials["candidate"])
           u == Sample(trials["candidate"], draw)
           v == Sample(trials["comparator"], draw)
           r == RankOf(n, RankNumerator, RankDenominator)
           c == InOrder(u)[r]
           k == InOrder(v)[r]
<1>1. /\ n \in Nat \ {0} /\ DOMAIN trials["candidate"] = 1..n
      /\ trials["candidate"] \in [1..n -> Latencies]
      /\ trials["comparator"] \in [1..n -> Latencies]
  BY TrialTypes DEF Paired, Sides
<1>2. draw \in [1..n -> 1..n]
  BY <1>1 DEF Draws
<1>3. /\ u \in [1..n -> Latencies] /\ v \in [1..n -> Latencies]
      /\ \A i \in 1..n : u[i] = trials["candidate"][draw[i]] /\ v[i] = trials["comparator"][draw[i]]
  BY <1>1, <1>2 DEF Sample
<1> HIDE DEF n, u, v
<1>4. /\ RankNumerator \in 1..RankDenominator /\ RankDenominator \in Nat
      /\ Scale \in Nat \ {0} /\ Latencies \subseteq Nat \ {0}
  BY BenchmarkAssumption DEF BenchmarkAssumption
<1>5. u \in [1..n -> Int] /\ v \in [1..n -> Int]
  <2>1. Latencies \subseteq Int
    BY <1>4
  <2>2. QED
    BY <1>3, <2>1
<1>6. P95(u) = c /\ P95(v) = k /\ r \in 1..n
  BY <1>1, <1>4, <1>5, NearestRankIs, RankBounds DEF P95
<1> HIDE DEF r
<1>7. c \in Latencies /\ k \in Latencies
  BY <1>1, <1>3, <1>6, RankIsLatency
<1>8. PICK i \in 1..n : u[i] <= c /\ k <= v[i]
  BY <1>1, <1>5, <1>6, PlacesMeet
<1>9. PICK j \in 1..n : v[j] <= k /\ c <= u[j]
  BY <1>1, <1>5, <1>6, PlacesMeet
<1> HIDE DEF c, k
<1>10. /\ u[i] \in Nat \ {0} /\ v[i] \in Nat \ {0} /\ u[j] \in Nat \ {0} /\ v[j] \in Nat \ {0}
       /\ c \in Nat \ {0} /\ k \in Nat \ {0}
  BY <1>3, <1>4, <1>7
<1>11. Improvement(c, k) <= Improvement(u[i], v[i])
  BY <1>4, <1>8, <1>10, ImprovementGrows
<1>12. Improvement(u[j], v[j]) <= Improvement(c, k)
  BY <1>4, <1>9, <1>10, ImprovementGrows
<1>13. Improvement(u[i], v[i]) = Pair(draw[i]) /\ Improvement(u[j], v[j]) = Pair(draw[j])
       /\ draw[i] \in 1..n /\ draw[j] \in 1..n
  BY <1>2, <1>3 DEF Pair
<1>14. Improvement(c, k) \in Int
  BY <1>4, <1>10 DEF Improvement
<1>15. Within(Improvement(c, k))
  BY <1>1, <1>11, <1>12, <1>13 DEF Within
<1>16. QED
  BY <1>6, <1>14, <1>15 DEF u, v

(* Sorting changes only the order of the improvements. *)
LEMMA SortedWithin ==
  ASSUME NEW s \in Seq(Int), NEW i \in DOMAIN InOrder(s)
  PROVE  /\ InOrder(s) \in Seq(Int) /\ Len(InOrder(s)) = Len(s)
         /\ \E j \in DOMAIN s : InOrder(s)[i] = s[j]
<1> DEFINE n == Len(s)
<1>1. n \in Nat /\ s \in [1..n -> Int] /\ DOMAIN s = 1..n
  OBVIOUS
<1> HIDE DEF n
<1>2. InOrder(s) \in [1..n -> Int]
      /\ \E p \in Bijection(1..n, 1..n) : \A k \in 1..n : InOrder(s)[k] = s[p[k]]
  BY <1>1, InOrderIsSorted
<1>3. InOrder(s) \in Seq(Int) /\ Len(InOrder(s)) = n
  BY <1>1, <1>2
<1>4. PICK p \in Bijection(1..n, 1..n) : \A k \in 1..n : InOrder(s)[k] = s[p[k]]
  BY <1>2
<1>5. i \in 1..n /\ p[i] \in 1..n
  BY <1>2 DEF Bijection, Injection
<1>6. QED
  BY <1>1, <1>3, <1>4, <1>5 DEF n

LEMMA BenchmarkStarts == BenchmarkInit => BenchmarkInv
BY DEF BenchmarkInit, BenchmarkInv, IntervalWithinPairs

LEMMA SummariseKeeps ==
  ASSUME BenchmarkInv, Summarise
  PROVE  BenchmarkInv'
BY DEF BenchmarkInv, Summarise, IntervalWithinPairs, Within, Pair, Paired, Ranks

LEMMA ResampleKeeps ==
  ASSUME BenchmarkInv, Resample
  PROVE  BenchmarkInv'
<1>1. PICK draw \in Draws : Resampled(draw, draw)
  BY DEF Resample
<1> DEFINE x == Improvement(P95(Sample(trials["candidate"], draw)),
                            P95(Sample(trials["comparator"], draw)))
           s == Append(improvements, x)
<1>2. /\ improvements' = InOrder(s) /\ trials' = trials /\ p95' = p95
      /\ interval' = interval /\ benchmark' = benchmark /\ Paired
  BY <1>1 DEF Resampled
<1>3. x \in Int /\ Within(x)
  BY <1>1, <1>2, ResampleWithin DEF BenchmarkInv
<1> HIDE DEF x
<1>4. s \in Seq(Int) /\ \A j \in DOMAIN s : Within(s[j])
  <2>1. improvements \in Seq(Int)
    BY DEF BenchmarkInv
  <2>2. s \in Seq(Int) /\ Len(s) = Len(improvements) + 1
    BY <1>3, <2>1
  <2>3. ASSUME NEW j \in DOMAIN s PROVE Within(s[j])
    <3>1. (j \in DOMAIN improvements /\ s[j] = improvements[j]) \/ s[j] = x
      BY <1>3, <2>1, <2>2
    <3>2. QED
      BY <1>3, <3>1 DEF BenchmarkInv
  <2>4. QED
    BY <2>2, <2>3
<1> HIDE DEF s
<1>5. InOrder(s) \in Seq(Int)
  <2>1. Len(s) \in Nat /\ s \in [1..Len(s) -> Int]
    BY <1>4
  <2>2. InOrder(s) \in [1..Len(s) -> Int]
    BY <2>1, InOrderIsSorted
  <2>3. QED
    BY <2>1, <2>2
<1>6. \A i \in DOMAIN InOrder(s) : Within(InOrder(s)[i])
  BY <1>4, SortedWithin
<1>8. /\ \A i \in DOMAIN improvements' : Within(improvements[i])'
      /\ improvements' \in Seq(Int)
  <2>1. ASSUME NEW i \in DOMAIN improvements' PROVE Within(improvements[i])'
    <3>1. Within(InOrder(s)[i]) /\ improvements'[i] = InOrder(s)[i]
      BY <1>2, <1>6
    <3>2. trials' = trials
      BY <1>2
    <3>3. QED
      BY <3>1, <3>2 DEF Within, Pair
  <2>2. QED
    BY <1>2, <1>5, <2>1
<1>9. Paired' /\ IntervalWithinPairs' /\ Ranks' = Ranks
  BY <1>2 DEF Paired, IntervalWithinPairs, BenchmarkInv, Ranks
<1>10. QED
  BY <1>2, <1>8, <1>9 DEF BenchmarkInv

LEMMA ConcludeKeeps ==
  ASSUME BenchmarkInv, Conclude
  PROVE  BenchmarkInv'
<1> DEFINE n == Len(improvements)
           d == TailDenominator
           o == InOrder(improvements)
           low == PercentileLinear(improvements, LowNumerator, d)
           high == PercentileLinear(improvements, HighNumerator, d)
           l == Len(trials["candidate"])
           pairs == {Pair(i) : i \in 1..l}
<1>1. /\ trials' = trials /\ p95' = p95 /\ improvements' = improvements
      /\ interval' = <<low, high>> /\ benchmark = "resampling" /\ benchmark' = "interval"
  BY DEF Conclude
<1>2. n \in Nat \ {0} /\ improvements \in [1..n -> Int] /\ improvements \in Seq(Int)
      /\ DOMAIN improvements = 1..n
  BY BenchmarkAssumption DEF Conclude, BenchmarkInv, BenchmarkAssumption
<1>3. Paired /\ \A i \in 1..n : Within(improvements[i])
  <2>1. improvements # <<>>
    BY <1>2
  <2>2. QED
    BY <1>2, <2>1 DEF BenchmarkInv
<1>4. l \in Nat \ {0} /\ DOMAIN trials["candidate"] = 1..l
      /\ \A i \in 1..l : Pair(i) \in Int
  <2>1. /\ l \in Nat \ {0} /\ DOMAIN trials["candidate"] = 1..l
        /\ trials["candidate"] \in [1..l -> Latencies]
        /\ trials["comparator"] \in [1..l -> Latencies]
    BY <1>3, TrialTypes DEF Paired, Sides, BenchmarkInv
  <2>2. Latencies \subseteq Nat \ {0} /\ Scale \in Nat
    BY BenchmarkAssumption DEF BenchmarkAssumption
  <2> HIDE DEF l
  <2>3. ASSUME NEW i \in 1..l PROVE Pair(i) \in Int
    <3>1. trials["candidate"][i] \in Nat \ {0} /\ trials["comparator"][i] \in Nat \ {0}
      BY <2>1, <2>2
    <3>2. QED
      BY <2>2, <3>1 DEF Pair, Improvement
  <2>4. QED
    BY <2>1, <2>3
<1>5. /\ LowNumerator \in 0..d /\ HighNumerator \in 0..d /\ LowNumerator <= HighNumerator
      /\ d \in Nat \ {0}
  BY BenchmarkAssumption DEF BenchmarkAssumption
<1> HIDE DEF n, d, l
<1>6. low <= high
  BY <1>2, <1>5, PercentilesOrdered
<1>7. PICK a \in 1..n : o[a] <= low /\ low \in Int
  BY <1>2, <1>5, PercentileBetween, PlaceBounds
<1>8. PICK b \in 1..n : high <= o[b] /\ high \in Int
  <2> DEFINE e == PlaceOf(n, HighNumerator, d)
  <2>1. e \in 1..n
    BY <1>2, <1>5, PlaceBounds
  <2>2. high \in Int /\ high <= o[IF e = n THEN n ELSE e + 1]
    BY <1>2, <1>5, PercentileBetween
  <2> HIDE DEF e, o, high
  <2>3. (IF e = n THEN n ELSE e + 1) \in 1..n
    BY <1>2, <2>1
  <2>4. QED
    BY <2>2, <2>3
<1>9. /\ o \in [1..n -> Int]
      /\ \A i \in 1..n : \E j \in 1..n : o[i] = improvements[j]
  <2>1. o \in [1..n -> Int]
    BY <1>2, InOrderIsSorted
  <2>2. QED
    BY <1>2, <2>1, SortedWithin
<1> HIDE DEF o, low, high
<1>10. PICK i \in 1..l : Pair(i) <= o[a]
  BY <1>3, <1>4, <1>9 DEF Within
<1>11. PICK j \in 1..l : o[b] <= Pair(j)
  BY <1>3, <1>4, <1>9 DEF Within
<1>12. Min(pairs) \in Int /\ Max(pairs) \in Int
       /\ \A k \in 1..l : Min(pairs) <= Pair(k) /\ Pair(k) <= Max(pairs)
  <2> DEFINE g == [k \in 1..l |-> Pair(k)]
  <2>1. pairs = {g[k] : k \in 1..l}
    OBVIOUS
  <2>2. \A k \in 1..l : g[k] \in Int
    BY <1>4
  <2>3. \A k \in 1..l : g[k] = Pair(k)
    OBVIOUS
  <2> HIDE DEF g
  <2>4. LET S == {g[k] : k \in 1..l}
        IN  /\ Min(S) \in Int /\ Max(S) \in Int
            /\ \A k \in 1..l : Min(S) <= g[k] /\ g[k] <= Max(S)
    BY <1>4, <2>2, MinAndMax
  <2> HIDE DEF pairs
  <2>5. QED
    BY <2>1, <2>3, <2>4
<1>13. Min(pairs) <= low /\ low <= high /\ high <= Max(pairs)
  <2>1. o[a] \in Int /\ o[b] \in Int /\ Pair(i) \in Int /\ Pair(j) \in Int
    BY <1>4, <1>9
  <2> HIDE DEF pairs
  <2>2. QED
    BY <1>6, <1>7, <1>8, <1>10, <1>11, <1>12, <2>1
<1>14. IntervalWithinPairs'
  <2>1. pairs = {Improvement(trials["candidate"][t], trials["comparator"][t]) :
                   t \in DOMAIN trials["candidate"]}
    BY <1>4 DEF Pair
  <2> HIDE DEF pairs
  <2>2. interval'[1] = low /\ interval'[2] = high
    BY <1>1
  <2>3. QED
    BY <1>1, <1>13, <2>1, <2>2 DEF IntervalWithinPairs
<1>15. \A y : Within(y)' <=> Within(y)
  BY <1>1 DEF Within, Pair
<1>16. QED
  BY <1>1, <1>14, <1>15 DEF BenchmarkInv, Paired, Ranks

LEMMA BenchmarkKept == BenchmarkInv /\ [BenchmarkNext]_benchmarkVars => BenchmarkInv'
<1> SUFFICES ASSUME BenchmarkInv, [BenchmarkNext]_benchmarkVars PROVE BenchmarkInv'
  OBVIOUS
<1>1. CASE Judge
  BY <1>1 DEF Judge, BenchmarkInv, IntervalWithinPairs, Within, Pair, Paired, Ranks
<1>2. CASE RefuseBenchmark
  BY <1>2 DEF RefuseBenchmark, BenchmarkInv, IntervalWithinPairs, Within, Pair, Paired, Ranks
<1>3. CASE UNCHANGED benchmarkVars
  BY <1>3 DEF benchmarkVars, BenchmarkInv, IntervalWithinPairs, Within, Pair, Paired, Ranks
<1>4. QED
  BY <1>1, <1>2, <1>3, SummariseKeeps, ResampleKeeps, ConcludeKeeps DEF BenchmarkNext

(* percentile_nearest_rank returns the least of the trials that the stated   *)
(* share of them does not exceed, for samples of every size and every rank.  *)
THEOREM NearestRanks == BenchmarkSpec => []RankIsNearest
<1>1. BenchmarkInv => RankIsNearest
  <2> SUFFICES ASSUME BenchmarkInv, benchmark \in {"resampling", "interval", "accepted"},
                      NEW s \in Sides
               PROVE  p95[s] = Min({v \in {trials[s][i] : i \in DOMAIN trials[s]} :
                        AtMost(trials[s], v) * RankDenominator >= RankNumerator * Len(trials[s])})
    BY DEF RankIsNearest
  <2>1. p95[s] = NearestRank(trials[s], RankNumerator, RankDenominator)
    BY DEF BenchmarkInv, Ranks, P95
  <2>2. /\ Len(trials[s]) \in Nat \ {0} /\ DOMAIN trials[s] = 1..Len(trials[s])
        /\ trials[s] \in [1..Len(trials[s]) -> Int]
    BY TrialTypes DEF BenchmarkInv
  <2>3. RankNumerator \in 1..RankDenominator /\ RankDenominator \in Nat
    BY BenchmarkAssumption DEF BenchmarkAssumption
  <2> DEFINE n == Len(trials[s])
             v == trials[s]
  <2>4. NearestRank(v, RankNumerator, RankDenominator) =
          Min({x \in {v[i] : i \in 1..n} :
                 AtMost(v, x) * RankDenominator >= RankNumerator * n})
    <3> HIDE DEF n, v
    <3>1. n \in Nat \ {0} /\ v \in [1..n -> Int]
      BY <2>2 DEF n, v
    <3>2. QED
      BY <2>3, <3>1, NearestIsLeast
  <2>5. QED
    BY <2>1, <2>2, <2>4
<1>2. QED
  BY <1>1, BenchmarkStarts, BenchmarkKept, PTL DEF BenchmarkSpec

(* The bootstrap interval is ordered and lies between the improvements of    *)
(* the worst and of the best pair of trials, whatever is drawn and however   *)
(* many resamples and trials there are.                                      *)
THEOREM IntervalOfPairs == BenchmarkSpec => []IntervalWithinPairs
<1>1. BenchmarkInv => IntervalWithinPairs
  BY DEF BenchmarkInv
<1>2. QED
  BY <1>1, BenchmarkStarts, BenchmarkKept, PTL DEF BenchmarkSpec
=============================================================================
