------------------------- MODULE MCSequentialChecks -------------------------
(* The checks that one call makes by itself, for TLC: one of them runs, and *)
(* the others have returned.                                                *)
EXTENDS InclusionProof, ConsistencyProof, Benchmark, CertificateChain,
        Authorization, EvidenceWindow, InputArchive

CONSTANTS v1, v2  \* versions of a file

(* Split by halves is that of RFC 6962: the largest power of two below n.     *)
ASSUME SplitAssumption ==
  \A n \in 2..MaxSize :
    Split(n) = CHOOSE k \in 1..(n - 1) : (\E e \in 0..n : k = 2^e) /\ 2 * k >= n

-----------------------------------------------------------------------------
(* Consistency proofs.  The old tree is the beginning of the new one or has  *)
(* another leaf f, as after a rollback and a different consumption (with     *)
(* f = MaxSize none is), or its root is that of some other tree or subtree.  *)

Forked == [f \in 0..MaxSize |->
  Roots([i \in 0..(MaxSize - 1) |-> IF i = f THEN MaxSize + i ELSE i])]

(* A path with one element dropped, repeated or replaced, and the path. *)
Near(path, hashes) ==
  {path} \cup {RemoveAt(path, k) : k \in DOMAIN path}
         \cup {[path EXCEPT ![k] = h] : k \in DOMAIN path, h \in hashes}
         \cup {InsertAt(path, k, h) : k \in 1..(Len(path) + 1), h \in hashes}

Presented(root, m, n) == IF m < n THEN ConsistencyPath(root, m, n) ELSE <<>>

(* Proofs from either tree, right and nearly right; sizes in any order. *)
ForkedGrowths(m, n, f) ==
  [old : {m}, new : {n}, root : {Forked[f][<<0, m>>]},
   path : UNION {Near(Presented(root, m, n), Subtrees(Root, n) \cup Subtrees(Forked[f], m))
                 : root \in {Root, Forked[f]}}]

(* A foreign root, with the proof of any size. *)
ForeignGrowths(m, n) ==
  [old : {m}, new : {n}, root : Subtrees(Root, n),
   path : {Presented(Root, k, n) : k \in 1..MaxSize}]

MCGrowths ==
  UNION {UNION {ForkedGrowths(m, n, f) : f \in 0..(m - 1) \cup {MaxSize}} \cup ForeignGrowths(m, n)
         : m \in 1..MaxSize, n \in 1..MaxSize}

-----------------------------------------------------------------------------
(* Certificates: of the signer, of two CAs, and under the name of the root.  *)

MCRoot == [subject |-> "root", key |-> "keyOfRoot", issuer |-> "root",
           signer |-> "keyOfRoot", ca |-> TRUE, valid |-> TRUE]

Issued(subjects, key, flaws) ==
  {[subject |-> s, key |-> key, issuer |-> i, signer |-> g,
    ca |-> f # "no CA", valid |-> f # "expired"] :
     s \in subjects, i \in {"a", "b", "root"},
     g \in {"keyOfA", "keyOfB", "keyOfRoot"}, f \in flaws}

Flaws == {"none", "no CA", "expired"}
OfSigner == Issued({"tsa"}, "keyOfTsa", {"no CA", "expired"})
OfA == Issued({"a"}, "keyOfA", Flaws)
OfOthers == Issued({"a", "b", "root"}, "keyOfB", {"none", "no CA"}) \cup {MCRoot}

MCCertificates == OfSigner \cup OfA \cup OfOthers
MCTokens ==
  {<<c>> : c \in OfSigner \cup {MCRoot}} \cup (OfSigner \X OfA)
    \cup (OfSigner \X OfA \X OfOthers)

-----------------------------------------------------------------------------
(* Rosters of one to three authorities, which may share what they must not.  *)

Custodian(id, key, custodian) == [id |-> id, key |-> key, custodian |-> custodian]
SomeCustodians == {Custodian(i, k, c) : i \in {1, 2}, k \in {"k1", "k2"}, c \in {"c1", "c2"}}
MCRosters ==
  {[threshold |-> n, authorities |-> <<a, b>>] : n \in {1, 2}, a, b \in SomeCustodians}
    \cup {[threshold |-> 1, authorities |-> <<a>>] : a \in SomeCustodians}
    \cup {[threshold |-> 3, authorities |->
             <<Custodian(1, "k1", "c1"), Custodian(2, "k2", "c2"), Custodian(3, k, c)>>] :
           k \in {"k1", "k3"}, c \in {"c2", "c3"}}

MCAuthorizations ==
  {[release |-> "this", nonce |-> 1], [release |-> "other", nonce |-> 2]}

-----------------------------------------------------------------------------
(* Archives of the candidate and of another maker.                           *)

MCFiles == {<<"d", "f">>, <<"g">>}
MCPrefix == <<"candidate">>
MCSumsFile == <<"SHA256SUMS.txt">>
MCManifest == <<"execution-manifest.json">>
MCPathOrder ==
  <<<<"candidate">>, <<"candidate", "SHA256SUMS.txt">>, <<"candidate", "d">>,
    <<"candidate", "d", "f">>, <<"candidate", "g">>, <<"d">>, <<"d", "f">>,
    <<"execution-manifest.json">>, <<"g">>>>

Of(path) == FileMember(path, v1)
InCandidate(path) == Of(MCPrefix \o path)
MCForeign ==
  {<<>>,
   <<InCandidate(<<"g">>)>>,
   <<InCandidate(<<"g">>), DirectoryMember(MCPrefix)>>,
   <<InCandidate(<<"d">>), InCandidate(<<"d", "f">>)>>,
   <<Of(MCManifest), Of(MCManifest)>>}

-----------------------------------------------------------------------------
InclusionReturned ==
  /\ proof = [record |-> 0, index |-> 0, size |-> 1, path |-> <<>>]
  /\ index = 0 /\ last = 0 /\ consumed = 0
  /\ node = LeafHash(0)
  /\ verdict = "accepted"

ConsistencyReturned ==
  /\ growth = [old |-> 1, new |-> 1, root |-> LeafHash(0), path |-> <<>>]
  /\ fn = 0 /\ sn = 0 /\ used = 0
  /\ fr = LeafHash(0) /\ sr = LeafHash(0)
  /\ outcome = "accepted"

BenchmarkReturned ==
  /\ trials = [s \in Sides |-> <<MinImprovement>>]
  /\ p95 = [s \in Sides |-> 0]
  /\ improvements = <<>> /\ interval = <<>>
  /\ benchmark = "refused"

ChainReturned ==
  embedded = <<MCRoot>> /\ current = MCRoot /\ visited = {} /\ chain = "accepted"

AuthorizationReturned ==
  /\ roster = [threshold |-> 1, authorities |-> <<Custodian(1, "k1", "c1")>>]
  /\ authorization = [release |-> "other", nonce |-> 1]
  /\ signed = {}
  /\ member = 1
  /\ authorizing = "refused"

DatesReturned ==
  /\ start = 0 /\ end = 0
  /\ dispatch = [issued |-> 0, opens |-> 0, closes |-> 0]
  /\ results = {} /\ evidence = {}
  /\ dating = "refused"

ArchiveReturned ==
  /\ tree = [f \in Files |-> v1] /\ sums = [f \in Files |-> v1] /\ edits = MaxEdits
  /\ reviewed = Nothing /\ listing = Nothing /\ hashed = <<>>
  /\ todo = {} /\ archive = <<>> /\ build = "failed"
  /\ steady = FALSE
  /\ exists = FALSE /\ destination = Empty
  /\ taken = <<>> /\ position = 1 /\ calls = MaxCalls
  /\ unpack = "refused" /\ delivered = <<>>

-----------------------------------------------------------------------------
Parts == {"inclusion", "consistency", "benchmark", "chain", "authorization",
          "dates", "archive"}

MCInit ==
  \E part \in Parts :
    /\ IF part = "inclusion" THEN Init ELSE InclusionReturned
    /\ IF part = "consistency" THEN GrowthInit ELSE ConsistencyReturned
    /\ IF part = "benchmark" THEN BenchmarkInit ELSE BenchmarkReturned
    /\ IF part = "chain" THEN ChainInit ELSE ChainReturned
    /\ IF part = "authorization" THEN AuthorizationInit ELSE AuthorizationReturned
    /\ IF part = "dates" THEN WindowInit ELSE DatesReturned
    /\ IF part = "archive" THEN ArchiveInit ELSE ArchiveReturned

Rest == <<benchmarkVars, chainVars, authorizationVars, windowVars, archiveVars>>
Verifiers == <<vars, growthVars>>

MCNext ==
  \/ Next /\ UNCHANGED <<growthVars, Rest>>
  \/ GrowthNext /\ UNCHANGED <<vars, Rest>>
  \/ BenchmarkNext /\ UNCHANGED <<Verifiers, chainVars, authorizationVars, windowVars, archiveVars>>
  \/ ChainNext /\ UNCHANGED <<Verifiers, benchmarkVars, authorizationVars, windowVars, archiveVars>>
  \/ AuthorizationNext /\ UNCHANGED <<Verifiers, benchmarkVars, chainVars, windowVars, archiveVars>>
  \/ WindowNext /\ UNCHANGED <<Verifiers, benchmarkVars, chainVars, authorizationVars, archiveVars>>
  \/ ArchiveNext /\ UNCHANGED <<Verifiers, benchmarkVars, chainVars, authorizationVars, windowVars>>

MCSpec ==
  /\ MCInit /\ [][MCNext]_<<Verifiers, Rest>>
  /\ WF_vars(Next) /\ WF_growthVars(GrowthNext) /\ WF_chainVars(ChainNext)
=============================================================================
