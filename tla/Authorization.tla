---------------------------- MODULE Authorization ----------------------------
(* verify_threshold_authorization (authority_bundle.py): the roster of the    *)
(* custodians, the authorization of a release, and one signature of each.     *)
(*                                                                            *)
(* A signature is known by the key that made it and the authorization it was  *)
(* made over.  The files that are supplied as a custodian's key and signature *)
(* may be anybody's, but no signature is in them that nobody has made.  The   *)
(* roster is the one whose digest the verifier carries; any other file is     *)
(* refused before.                                                            *)
EXTENDS Integers, Sequences

CONSTANTS
  KeyIds,          \* naturals, which stand for their order as strings
  Keys,
  Custodians,
  Authorizations,  \* each with the release it binds and its nonce
  Release,         \* expected manifest, pin, target and the roster's digest
  Rosters          \* each with its threshold and its authorities

Signatures == [by : Keys, over : Authorizations]
Authority == [id : KeyIds, key : Keys, custodian : Custodians]

ASSUME AuthorizationAssumption ==
  /\ KeyIds \subseteq Nat
  /\ Rosters \subseteq [threshold : Nat, authorities : Seq(Authority)]

VARIABLES
  roster,         \* the roster
  authorization,  \* the authorization
  signed,         \* the signatures that were made
  member,         \* the authority the present loop is at
  authorizing     \* where the verifier is

files == <<roster, authorization, signed>>
authorizationVars == <<files, member, authorizing>>

AuthorizationInit ==
  /\ roster \in Rosters
  /\ authorization \in Authorizations
  /\ signed \in SUBSET Signatures
  /\ member = 1
  /\ authorizing = "roster"

Authorities == roster.authorities
Members == DOMAIN Authorities

CheckRoster ==
  /\ authorizing = "roster"
  /\ Len(Authorities) >= 2
  /\ roster.threshold = Len(Authorities)
  /\ authorizing' = "members"
  /\ UNCHANGED <<files, member>>

(* Broken variant: two custodians may share a key. *)
NewIdOnly(i) ==
  \A j \in 1..(i - 1) : /\ Authorities[j].id # Authorities[i].id
                        /\ Authorities[j].custodian # Authorities[i].custodian

(* Not in seen_ids, seen_keys or seen_custodians. *)
Unseen(i) ==
  \A j \in 1..(i - 1) : /\ Authorities[j].id # Authorities[i].id
                        /\ Authorities[j].key # Authorities[i].key
                        /\ Authorities[j].custodian # Authorities[i].custodian

AdmitMember ==
  /\ authorizing = "members"
  /\ member \in Members
  /\ Unseen(member)
  /\ member' = member + 1
  /\ UNCHANGED <<files, authorizing>>

SortedById == \A i, j \in Members : i < j => Authorities[i].id <= Authorities[j].id

CheckAuthorization ==
  /\ authorizing = "members"
  /\ member \notin Members
  /\ SortedById
  /\ authorization.release = Release
  /\ member' = 1
  /\ authorizing' = "signatures"
  /\ UNCHANGED files

(* The key file has the roster's digest, and the signature file is a         *)
(* signature of that key over the authorization.                             *)
SignatureVerifies(publicKey, signature) ==
  /\ publicKey = Authorities[member].key
  /\ signature = [by |-> publicKey, over |-> authorization]

VerifySignature ==
  /\ authorizing = "signatures"
  /\ member \in Members
  /\ \E publicKey \in Keys, signature \in signed : SignatureVerifies(publicKey, signature)
  /\ member' = member + 1
  /\ UNCHANGED <<files, authorizing>>

Authorize ==
  /\ authorizing = "signatures"
  /\ member \notin Members
  /\ authorizing' = "authorized"
  /\ UNCHANGED <<files, member>>

(* ValueError: one of the guards above is false, or another file is read.    *)
RefuseAuthorization ==
  /\ \/ /\ authorizing = "roster"
        /\ Len(Authorities) < 2 \/ roster.threshold # Len(Authorities)
     \/ /\ authorizing = "members"
        /\ IF member \in Members THEN ~Unseen(member)
           ELSE ~SortedById \/ authorization.release # Release
     \/ authorizing = "signatures" /\ member \in Members
  /\ authorizing' = "refused"
  /\ UNCHANGED <<files, member>>

AuthorizationNext ==
  \/ CheckRoster \/ AdmitMember \/ CheckAuthorization
  \/ VerifySignature \/ Authorize \/ RefuseAuthorization

AuthorizationSpec == AuthorizationInit /\ [][AuthorizationNext]_authorizationVars

-----------------------------------------------------------------------------
(* A release is authorized only by two custodians or more, each of whom has  *)
(* signed this very authorization with a key that no other of them has: one  *)
(* custodian cannot stand for two, whatever key and signature files are      *)
(* supplied (authority_bundle.py 71-130).                                    *)
ThresholdMet ==
  authorizing = "authorized" =>
    /\ authorization.release = Release
    /\ \E i, j \in Members : Authorities[i].custodian # Authorities[j].custodian
    /\ \A i \in Members : [by |-> Authorities[i].key, over |-> authorization] \in signed
    /\ \A i, j \in Members :
         i # j => /\ Authorities[i].key # Authorities[j].key
                  /\ Authorities[i].custodian # Authorities[j].custodian
=============================================================================
