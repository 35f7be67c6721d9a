-------------------------- MODULE CertificateChain --------------------------
(* _validate_chain (trusted_clock.py): from the certificate that signed a    *)
(* time stamp to the pinned root, over the certificates that came with the   *)
(* token.  Names are not keys: a certificate may bear any name, and several  *)
(* may name one another as issuers.                                          *)
(*                                                                           *)
(* Two certificates are the same exactly when their fingerprints are, so     *)
(* equality stands for equal fingerprints.  The time stamp itself, signed by *)
(* the first certificate over the fresh challenge, is taken as verified.     *)
EXTENDS Sequences

CONSTANTS
  Certificates,  \* each with its subject and its key, the issuer's name, the key
                 \* that signed it, if it is a CA, and if the time is in its validity
  PinnedRoot,          \* the pinned root
  Tokens         \* the certificates of the tokens, the signer's first

ASSUME CertificateAssumption ==
  /\ PinnedRoot \in Certificates
  /\ \A token \in Tokens : token \in Seq(Certificates) /\ token # <<>>

VARIABLES
  embedded,  \* certificates of the token
  current,   \* current
  visited,   \* visited
  chain      \* where _validate_chain is

chainVars == <<embedded, current, visited, chain>>

ChainInit ==
  /\ embedded \in Tokens
  /\ current = embedded[1]
  /\ visited = {}
  /\ chain = "root"

SignerCertificate == embedded[1]

SignedBy(certificate, issuer) == certificate.signer = issuer.key

(* A trust anchor is a self-signed CA. *)
CheckRoot ==
  /\ chain = "root"
  /\ PinnedRoot.ca
  /\ PinnedRoot.subject = PinnedRoot.issuer
  /\ SignedBy(PinnedRoot, PinnedRoot)
  /\ chain' = "index"
  /\ UNCHANGED <<embedded, current, visited>>

Homonyms ==
  \E i, j \in DOMAIN embedded : i # j /\ embedded[i].subject = embedded[j].subject

IndexSubjects ==
  /\ chain = "index"
  /\ ~Homonyms
  /\ chain' = "climb"
  /\ UNCHANGED <<embedded, current, visited>>

(* Broken variant: the root is known by its name. *)
AtRootName == current.subject = PinnedRoot.subject

AtRoot == current = PinnedRoot

(* Broken variant: no certificate is remembered. *)
NeverInLoop == FALSE

InLoop == current \in visited

(* by_subject.get, and the root where no embedded certificate has the name.  *)
Issuers ==
  LET named == {i \in DOMAIN embedded : embedded[i].subject = current.issuer}
  IN IF named # {} THEN {embedded[i] : i \in named}
     ELSE {c \in {PinnedRoot} : c.subject = current.issuer}

Vouches(issuer, certificate) ==
  issuer.ca /\ certificate.valid /\ SignedBy(certificate, issuer)

Rise ==
  /\ chain = "climb"
  /\ ~AtRoot
  /\ ~InLoop
  /\ \E issuer \in Issuers :
       /\ Vouches(issuer, current)
       /\ current' = issuer
  /\ visited' = visited \cup {current}
  /\ UNCHANGED <<embedded, chain>>

AcceptChain ==
  /\ chain = "climb"
  /\ AtRoot
  /\ PinnedRoot.valid
  /\ chain' = "accepted"
  /\ UNCHANGED <<embedded, current, visited>>

(* An exception: one of the guards above is false. *)
RefuseChain ==
  /\ \/ chain = "root" /\ ~(PinnedRoot.ca /\ PinnedRoot.subject = PinnedRoot.issuer /\ SignedBy(PinnedRoot, PinnedRoot))
     \/ chain = "index" /\ Homonyms
     \/ /\ chain = "climb" /\ ~AtRoot
        /\ InLoop \/ \A issuer \in Issuers : ~Vouches(issuer, current)
     \/ chain = "climb" /\ AtRoot /\ ~PinnedRoot.valid
  /\ chain' = "refused"
  /\ UNCHANGED <<embedded, current, visited>>

ChainNext == CheckRoot \/ IndexSubjects \/ Rise \/ AcceptChain \/ RefuseChain

ChainSpec == ChainInit /\ [][ChainNext]_chainVars /\ WF_chainVars(ChainNext)

-----------------------------------------------------------------------------
Involved == {embedded[i] : i \in DOMAIN embedded} \cup {PinnedRoot}

(* What X.509 lets a root vouch for: itself while it is valid, and whatever  *)
(* names and is signed by a CA it vouches for.                               *)
Closed(trusted) ==
  /\ PinnedRoot.valid => PinnedRoot \in trusted
  /\ \A issuer \in trusted, c \in Involved :
       c.issuer = issuer.subject /\ Vouches(issuer, c) => c \in trusted

Vouched == \A trusted \in SUBSET Involved : Closed(trusted) => SignerCertificate \in trusted

(* A time stamp is believed only if the pinned root vouches for its signer,  *)
(* whatever certificates come with it: certificates under the root's name,   *)
(* cross certificates, loops (trusted_clock.py 112-128).                     *)
ChainSound == chain = "accepted" => Vouched

(* Where no two certificates bear one name, and none but the root the        *)
(* root's, there is one way up; elsewhere the loop may take another than the *)
(* one that leads to the root.                                               *)
Unambiguous == ~Homonyms /\ \A c \in Involved : c.subject = PinnedRoot.subject => c = PinnedRoot

(* The climb ends on every token, also where certificates issue each other   *)
(* (trusted_clock.py 114-117), and it finds the one way up if there is one.  *)
ChainDecides ==
  <>(/\ chain \in {"accepted", "refused"}
     /\ Unambiguous /\ Vouched => chain = "accepted")
=============================================================================
