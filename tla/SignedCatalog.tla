--------------------------- MODULE SignedCatalog ---------------------------
(***************************************************************************)
(* The parts of a catalog that trust depends on, and what package validate *)
(* says of them without fetching anything: validateEntryTrust,             *)
(* validateSignature and checkManifestProfile.  Everything else Validate   *)
(* checks is one Boolean of the document, clean.                           *)
(***************************************************************************)
EXTENDS Integers, Sequences

CONSTANTS
  DIDs,       \* the root did:web DIDs
  URIs,       \* absolute URIs that are not root did:web DIDs
  Fragments,  \* the names of keys
  Keys,       \* usable ES256 public keys
  Digests,    \* the digests of contents
  Absent,     \* a member that is missing or empty
  Bad,        \* a member that is present and malformed
  Horizon     \* the last instant of the clock

Instants == 0..Horizon

ASSUME HorizonAssumption == Horizon \in Nat

(* What is missing or malformed is not mistaken for what is there. *)
ASSUME SentinelAssumption ==
  /\ Absent # Bad
  /\ \A missing \in {Absent, Bad} :
       missing \notin Keys /\ missing \notin Digests /\ missing \notin Instants

Timestamps == Instants \cup {Absent, Bad}

(* Absolute URIs, or missing: the errors for other strings do not occur.    *)
Parties == DIDs \cup URIs \cup {Absent}
KeyID   == [did : Parties, frag : Fragments \cup {Absent}]

(* A JWS: seal is the key that made its signature over the bytes as served, *)
(* or Bad when none did.                                                    *)
JWS == [form : {"detached", "attached", "malformed", "absent"},
        alg : {"ES256", "none", "other"}, typ : {"catalog", "manifest"},
        members : SUBSET {"key-source", "b64", "crit"}, kid : KeyID, seal : Keys \cup {Bad}]

Signature == [signer : Parties, profile : {"did-web-v1", "other", Absent},
              issuedAt : Timestamps, expiresAt : Timestamps, jws : JWS]

(* complete: identifier and type are present.  agrees: those present, and   *)
(* the version, are the entry's.                                            *)
Subject == [complete : BOOLEAN, agrees : BOOLEAN, digest : Digests \cup {Absent, Bad}]

Manifest == [contributor : Parties, subject : Subject \cup {Absent},
             signature : Signature \cup {Absent}]

(* publisher: the DID of the publisher the urn:air identifier names, if any. *)
(* data: the digest of the canonical inline data, for a source "inline".     *)
Entry == [publisher : DIDs \cup {Absent}, digest : Digests \cup {Absent, Bad},
          source : {"inline", "https", "other", "unresolvable"},
          data : Digests \cup {Bad}, manifests : Seq(Manifest)]

Document == [clean : BOOLEAN, host : BOOLEAN, signature : Signature \cup {Absent},
             entries : Seq(Entry)]

-----------------------------------------------------------------------------
RootDIDWeb(party) == party \in DIDs

(* The kid is the signer followed by a fragment. *)
namesKeyOf(jws, signer) == jws.kid.did = signer /\ jws.kid.frag # Absent

instant(t) == t \in Instants

MutantExpiryInclusive(sig, t) == instant(sig.expiresAt) /\ sig.expiresAt < t

futureAt(sig, t) == instant(sig.issuedAt) /\ sig.issuedAt > t

expiredAt(sig, t) == instant(sig.expiresAt) /\ sig.expiresAt <= t

isPublisher(entry, signer) == entry.publisher # Absent /\ signer = entry.publisher

(* Where a subject differs from its entry. *)
subjectMismatches(entry, subject) ==
  \/ ~subject.agrees
  \/ /\ subject.digest # Absent
     /\ entry.digest # Absent
     /\ subject.digest # entry.digest

(* The errors of a signature object, each under the code that names it. *)
signatureErrors(sig, typ) ==
  LET jws == sig.jws IN
  {c \in {"signature-member-missing", "timestamp-invalid", "signature-expiry-order",
          "signature-form", "signature-malformed", "signature-algorithm-forbidden",
          "signature-b64", "signature-type"} :
     \/ c = "signature-member-missing" /\ Absent \in {sig.signer, sig.profile, sig.issuedAt}
     \/ c = "signature-member-missing" /\ jws.form = "absent"
     \/ c = "timestamp-invalid" /\ Bad \in {sig.issuedAt, sig.expiresAt}
     \/ c = "signature-expiry-order" /\ instant(sig.issuedAt) /\ expiredAt(sig, sig.issuedAt)
     \/ c = "signature-form" /\ jws.form = "attached"
     \/ c = "signature-malformed" /\ jws.form = "malformed"
     \/ /\ jws.form = "detached"
        /\ \/ c = "signature-algorithm-forbidden" /\ jws.alg = "none"
           \/ c = "signature-b64" /\ "b64" \in jws.members
           \/ c = "signature-type" /\ jws.typ # typ}

MutantUnboundSubject(entry, man) ==
  LET sig == man.signature IN
  (IF sig = Absent THEN {} ELSE signatureErrors(sig, "manifest"))
  \cup {c \in {"manifest-signer-mismatch"} :
          sig # Absent /\ sig.signer \notin {Absent, man.contributor}}

(* The errors of one trust manifest of an entry that concern its signature. *)
manifestErrors(entry, man) ==
  LET sig == man.signature  subject == man.subject IN
  (IF sig = Absent THEN {} ELSE signatureErrors(sig, "manifest"))
  \cup {c \in {"manifest-contributor-missing", "manifest-member-missing",
               "manifest-signer-mismatch", "subject-member-missing", "subject-mismatch",
               "digest-invalid"} :
     \/ c = "manifest-contributor-missing" /\ man.contributor = Absent
     \/ /\ sig # Absent
        /\ \/ c = "manifest-member-missing" /\ subject = Absent
           \/ c = "manifest-signer-mismatch" /\ sig.signer \notin {Absent, man.contributor}
     \/ /\ subject # Absent
        /\ \/ c = "subject-member-missing" /\ (~subject.complete \/ subject.digest = Absent)
           \/ c = "subject-mismatch" /\ subjectMismatches(entry, subject)
           \/ c = "digest-invalid" /\ subject.digest = Bad}

(* The errors of validateEntryTrust. *)
entryErrors(entry) ==
  (UNION {manifestErrors(entry, entry.manifests[k]) : k \in DOMAIN entry.manifests})
  \cup {c \in {"entry-digest-missing", "digest-invalid"} :
     \/ c = "digest-invalid" /\ entry.digest = Bad
     \/ /\ c = "entry-digest-missing"
        /\ entry.digest = Absent
        /\ \E k \in DOMAIN entry.manifests : entry.manifests[k].signature # Absent}

profileCodes == {"profile-signer", "profile-algorithm", "profile-key-id", "profile-header-member"}

(* checkSignerProfile: what the did:web profile has to say of a header. *)
signerProfileWarnings(sig) ==
  {c \in profileCodes :
     \/ c = "profile-signer" /\ ~RootDIDWeb(sig.signer)
     \/ c = "profile-algorithm" /\ sig.jws.alg = "other"
     \/ c = "profile-key-id" /\ ~namesKeyOf(sig.jws, sig.signer)
     \/ c = "profile-header-member" /\ "key-source" \in sig.jws.members}

(* checkManifestProfile: those, and a validity window the clock is not in. *)
manifestWarnings(man, t) ==
  LET sig == man.signature IN
  IF sig = Absent \/ sig.profile # "did-web-v1" \/ sig.jws.form # "detached"
  THEN {}
  ELSE signerProfileWarnings(sig)
       \cup {c \in {"signature-not-yet-valid", "signature-expired"} :
               \/ c = "signature-not-yet-valid" /\ futureAt(sig, t)
               \/ c = "signature-expired" /\ expiredAt(sig, t)}

documentErrors(doc) ==
  (IF doc.signature = Absent THEN {} ELSE signatureErrors(doc.signature, "catalog"))
  \cup UNION {entryErrors(doc.entries[k]) : k \in DOMAIN doc.entries}

(* The level Validate reports: at most "discoverable". *)
validationLevel(doc) ==
  IF doc.clean /\ doc.host /\ documentErrors(doc) = {} THEN "discoverable" ELSE "minimal"
=============================================================================
