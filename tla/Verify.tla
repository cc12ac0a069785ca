------------------------------- MODULE Verify -------------------------------
(***************************************************************************)
(* One call of validate.Verify: it validates the document, reads the clock *)
(* once more, and checks the catalog signature and then, entry by entry,   *)
(* every trust manifest and the artifact.  Each check may fetch, and time  *)
(* passes meanwhile.  A fetch fails, or returns any of the documents its   *)
(* address may hold at that moment: keys rotate, servers come and go, and  *)
(* a context that is done shows as fetches that fail.                      *)
(***************************************************************************)
EXTENDS DIDDocument, Functions

CONSTANTS
  Documents,     \* the documents a call may be given
  DIDDocuments,  \* what a DID document's address may answer
  Operators      \* WithAuthorizedOperators

ASSUME DocumentsAssumption == Documents \subseteq Document

ASSUME DIDDocumentsAssumption == DIDDocuments \subseteq DIDDoc /\ Absent \notin DIDDocuments

VARIABLES
  doc,                \* the document
  clock,              \* the time
  validatedAt,        \* the time Validate read
  now,                \* the time the verifier read
  pc,                 \* where the call stands
  manifests,          \* the ManifestTrusts of the entry at hand, so far
  entries,            \* the EntryTrusts so far
  catalogSignature,   \* the outcome of the catalog signature
  catalogAuthorized,
  level,              \* ConformanceLevel; Absent until the call returns
  evidence            \* history: what each fetch returned, and for which check

vars == <<doc, clock, validatedAt, now, pc, manifests, entries,
          catalogSignature, catalogAuthorized, level, evidence>>

Statuses      == {"verified", "failed", "unverifiable"}
Levels        == {"minimal", "discoverable", "trusted"}
ManifestTrust == [signature : Statuses \cup {Absent}, release : {"verified", "failed", Absent},
                  publisher : BOOLEAN]
EntryTrust    == [manifests : Seq(ManifestTrust), artifact : Statuses \cup {Absent},
                  publisherEndorsed : BOOLEAN, publisherFailed : BOOLEAN]

ASSUME OutcomeAssumption == Absent \notin Statuses \cup Levels

(* answer: a DID document or, for an artifact, the digest of its content;    *)
(* Absent when the fetch failed.  manifest 0 is the artifact of the entry,   *)
(* entry 0 the catalog.                                                      *)
Evidence == [entry : Nat, manifest : Nat, answer : DIDDocuments \cup Digests \cup {Absent}]

-----------------------------------------------------------------------------
(* Definitions named Mutant... are plausible mistakes in the definition they *)
(* precede; the properties are tested by putting them in its place.          *)

checkHeader(sig, typ) ==
  /\ sig.jws.form = "detached"
  /\ sig.jws.alg = "ES256"
  /\ sig.jws.typ = typ
  /\ "key-source" \notin sig.jws.members
  /\ RootDIDWeb(sig.signer)
  /\ namesKeyOf(sig.jws, sig.signer)

checkTime(sig, t) ==
  /\ instant(sig.issuedAt) /\ ~futureAt(sig, t)
  /\ sig.expiresAt = Absent \/ (instant(sig.expiresAt) /\ ~expiredAt(sig, t))

(* trust.VerifyES256: two header members are refused, the rest is the key's. *)
verifyES256(jws, key) == jws.members \cap {"b64", "crit"} = {} /\ jws.seal = key

MutantProfileIgnored(sig, typ, t) == sig.profile = "did-web-v1" /\ checkTime(sig, t)

(* Whether a check gets as far as fetching the DID document. *)
fetchesKey(sig, typ, t) ==
  sig.profile = "did-web-v1" /\ checkHeader(sig, typ) /\ checkTime(sig, t)

MutantUndeclaredStatus(sig, typ, t, answer) ==
  IF sig.profile # "did-web-v1" THEN "unsupported"
  ELSE IF ~fetchesKey(sig, typ, t) THEN "failed"
  ELSE "unverifiable"

MutantOutageFails(sig, typ, t, answer) ==
  IF sig.profile # "did-web-v1" THEN "unverifiable"
  ELSE IF ~fetchesKey(sig, typ, t) \/ answer = Absent THEN "failed"
  ELSE LET key == selectKey(answer, sig.signer, sig.jws.kid)
       IN  IF key # Bad /\ verifyES256(sig.jws, key) THEN "verified" ELSE "failed"

(* The outcome of checkSignature, given what the fetch returned. *)
checkSignature(sig, typ, t, answer) ==
  IF sig.profile # "did-web-v1" THEN "unverifiable"
  ELSE IF ~fetchesKey(sig, typ, t) THEN "failed"
  ELSE IF answer = Absent THEN "unverifiable"
  ELSE LET key == selectKey(answer, sig.signer, sig.jws.kid)
       IN  IF key # Bad /\ verifyES256(sig.jws, key) THEN "verified" ELSE "failed"

(* Entry Release Coverage. *)
release(entry, man) ==
  IF \/ man.signature.signer # man.contributor
     \/ entry.digest = Absent
     \/ man.subject = Absent
     \/ ~man.subject.complete
     \/ man.subject.digest = Absent
     \/ subjectMismatches(entry, man.subject)
  THEN "failed" ELSE "verified"

fetchesArtifact(entry) == entry.source = "https"

(* The outcome of checkArtifact, given the digest of what was fetched. *)
checkArtifact(entry, answer) ==
  LET content == IF entry.source = "inline" THEN entry.data ELSE answer
  IN  IF entry.source = "unresolvable" THEN "failed"
      ELSE IF entry.source = "other" \/ (entry.source = "https" /\ answer = Absent)
           THEN "unverifiable"
      ELSE IF content \in Digests /\ entry.digest = content THEN "verified" ELSE "failed"

accepted(m) == m.signature = "verified" /\ m.release = "verified"
failed(m)   == "failed" \in {m.signature, m.release}

MutantAssessorsCount(ms, artifact) ==
  [manifests |-> ms, artifact |-> artifact,
   publisherEndorsed |-> /\ \E k \in DOMAIN ms : ms[k].publisher /\ accepted(ms[k])
                         /\ artifact = "verified",
   publisherFailed |-> (\E k \in DOMAIN ms : failed(ms[k])) \/ artifact = "failed"]

(* The trust of an entry whose manifests and artifact have been checked. *)
entryTrust(ms, artifact) ==
  LET publisherAccepted == \E k \in DOMAIN ms : ms[k].publisher /\ accepted(ms[k])
  IN  [manifests |-> ms, artifact |-> artifact,
       publisherEndorsed |-> publisherAccepted /\ artifact = "verified",
       publisherFailed |-> \/ \E k \in DOMAIN ms : ms[k].publisher /\ failed(ms[k])
                           \/ publisherAccepted /\ artifact = "failed"]

-----------------------------------------------------------------------------
e     == Len(entries) + 1
m     == Len(manifests) + 1
entry == doc.entries[e]
man   == entry.manifests[m]

Init ==
  /\ doc \in Documents
  /\ clock = 0
  /\ validatedAt = Absent
  /\ now = Absent
  /\ pc = "validate"
  /\ manifests = <<>>
  /\ entries = <<>>
  /\ catalogSignature = Absent
  /\ catalogAuthorized = FALSE
  /\ level = Absent
  /\ evidence = {}

Tick ==
  /\ pc # "done"
  /\ clock < Horizon
  /\ clock' = clock + 1
  /\ UNCHANGED <<doc, validatedAt, now, pc, manifests, entries,
                 catalogSignature, catalogAuthorized, level, evidence>>

(* Validate reads the clock and judges the whole document by it. *)
ValidateDocument ==
  /\ pc = "validate"
  /\ validatedAt' = clock
  /\ pc' = "clock"
  /\ UNCHANGED <<doc, clock, now, manifests, entries,
                 catalogSignature, catalogAuthorized, level, evidence>>

(* The verifier reads it again, once for all signatures. *)
ReadClock ==
  /\ pc = "clock"
  /\ now' = clock
  /\ pc' = "catalog"
  /\ UNCHANGED <<doc, clock, validatedAt, manifests, entries,
                 catalogSignature, catalogAuthorized, level, evidence>>

(* What a fetch may return, if there is one, and the history of it. *)
Answers(fetches, values) == IF fetches THEN values \cup {Absent} ELSE {Absent}

Record(fetches, at, k, answer) ==
  evidence' = IF fetches
              THEN evidence \cup {[entry |-> at, manifest |-> k, answer |-> answer]}
              ELSE evidence

CheckCatalogSignature ==
  /\ pc = "catalog"
  /\ pc' = "entries"
  /\ LET sig == doc.signature IN
     IF sig = Absent THEN UNCHANGED <<catalogSignature, catalogAuthorized, evidence>>
     ELSE LET fetches == fetchesKey(sig, "catalog", now) IN
          \E answer \in Answers(fetches, DIDDocuments) :
            /\ catalogSignature' = checkSignature(sig, "catalog", now, answer)
            /\ catalogAuthorized' = (catalogSignature' = "verified" /\ sig.signer \in Operators)
            /\ Record(fetches, 0, 0, answer)
  /\ UNCHANGED <<doc, clock, validatedAt, now, manifests, entries, level>>

CheckManifest ==
  /\ pc = "entries"
  /\ e \in DOMAIN doc.entries
  /\ m \in DOMAIN entry.manifests
  /\ LET sig == man.signature IN
     IF sig = Absent
     THEN /\ manifests' = Append(manifests, [signature |-> Absent, release |-> Absent,
                                             publisher |-> FALSE])
          /\ UNCHANGED evidence
     ELSE LET fetches == fetchesKey(sig, "manifest", now) IN
          \E answer \in Answers(fetches, DIDDocuments) :
            /\ manifests' = Append(manifests,
                 [signature |-> checkSignature(sig, "manifest", now, answer),
                  release |-> release(entry, man),
                  publisher |-> isPublisher(entry, sig.signer)])
            /\ Record(fetches, e, m, answer)
  /\ UNCHANGED <<doc, clock, validatedAt, now, pc, entries,
                 catalogSignature, catalogAuthorized, level>>

(* The artifact is checked only when a manifest vouches for it. *)
FinishEntry ==
  /\ pc = "entries"
  /\ e \in DOMAIN doc.entries
  /\ m > Len(entry.manifests)
  /\ manifests' = <<>>
  /\ IF \E k \in DOMAIN manifests : accepted(manifests[k])
     THEN \E answer \in Answers(fetchesArtifact(entry), Digests) :
            /\ entries' = Append(entries, entryTrust(manifests, checkArtifact(entry, answer)))
            /\ Record(fetchesArtifact(entry), e, 0, answer)
     ELSE /\ entries' = Append(entries, entryTrust(manifests, Absent))
          /\ UNCHANGED evidence
  /\ UNCHANGED <<doc, clock, validatedAt, now, pc,
                 catalogSignature, catalogAuthorized, level>>

MutantLastEntrySkipped ==
  /\ pc = "entries"
  /\ e >= Len(doc.entries)
  /\ pc' = "done"
  /\ level' = validationLevel(doc)
  /\ UNCHANGED <<doc, clock, validatedAt, now, manifests, entries,
                 catalogSignature, catalogAuthorized, evidence>>

Conclude ==
  /\ pc = "entries"
  /\ e > Len(doc.entries)
  /\ pc' = "done"
  /\ level' = IF /\ \E k \in DOMAIN entries : entries[k].publisherEndorsed
                 /\ \A k \in DOMAIN entries : ~entries[k].publisherFailed
                 /\ validationLevel(doc) = "discoverable"
              THEN "trusted" ELSE validationLevel(doc)
  /\ UNCHANGED <<doc, clock, validatedAt, now, manifests, entries,
                 catalogSignature, catalogAuthorized, evidence>>

Step == \/ ValidateDocument \/ ReadClock \/ CheckCatalogSignature
        \/ CheckManifest \/ FinishEntry \/ Conclude

Next == Tick \/ Step

Spec == Init /\ [][Next]_vars

(* A call runs on; the fetcher it is given must have a time limit. *)
FairSpec == Spec /\ WF_vars(Step)
-----------------------------------------------------------------------------
(* Every variable stays in its set. *)
TypeOK ==
  /\ doc \in Documents
  /\ clock \in Instants
  /\ validatedAt \in Instants \cup {Absent}
  /\ now \in Instants \cup {Absent}
  /\ pc \in {"validate", "clock", "catalog", "entries", "done"}
  /\ manifests \in Seq(ManifestTrust)
  /\ entries \in Seq(EntryTrust)
  /\ catalogSignature \in Statuses \cup {Absent}
  /\ catalogAuthorized \in BOOLEAN
  /\ level \in Levels \cup {Absent}
  /\ evidence \subseteq Evidence

(* A DID document vouches for a signature: under the signer's id, a method   *)
(* the signer controls holds the key that made it, and an assertion names    *)
(* the key's id.                                                             *)
Attests(body, sig) ==
  LET names(id) == resolveKey(id, sig.signer) = sig.jws.kid
      suits(method) == /\ names(method.id)
                       /\ method.controller = sig.signer
                       /\ method.jwk = sig.jws.seal
  IN  /\ body # Absent
      /\ body.id = sig.signer
      /\ \/ \E j \in DOMAIN body.methods : suits(body.methods[j])
         \/ \E j \in DOMAIN body.assertions :
              body.assertions[j].kind = "embedded" /\ suits(body.assertions[j].method)
      /\ \E j \in DOMAIN body.assertions :
           \/ body.assertions[j].kind = "reference" /\ names(body.assertions[j].id)
           \/ body.assertions[j].kind = "embedded" /\ names(body.assertions[j].method.id)

Signed == UNION {{<<a, b>> : b \in {k \in DOMAIN doc.entries[a].manifests :
                                    doc.entries[a].manifests[k].signature # Absent}} :
                   a \in DOMAIN doc.entries}
ManifestAt(at) == doc.entries[at[1]].manifests[at[2]]
ResultAt(at)   == entries[at[1]].manifests[at[2]]
Checked        == {at \in Signed : at[1] \in DOMAIN entries}
AnswersTo(at)  == {x.answer : x \in {y \in evidence : y.entry = at[1] /\ y.manifest = at[2]}}

(* "Trusted" is earned (README.md:175): the publisher of some entry signed a *)
(* manifest that names the entry's digest, within its validity window, with  *)
(* a key its own DID document held when it was fetched, and the artifact     *)
(* that was served has that digest.                                          *)
TrustedIsEarned ==
  level = "trusted" =>
    /\ doc.clean /\ doc.host
    /\ \E at \in Signed :
         LET mt == ManifestAt(at)  sig == mt.signature  en == doc.entries[at[1]] IN
         /\ en.publisher = sig.signer /\ mt.contributor = sig.signer
         /\ mt.subject.digest = en.digest
         /\ sig.issuedAt <= now
         /\ sig.expiresAt = Absent \/ now < sig.expiresAt
         /\ \E body \in AnswersTo(at) : Attests(body, sig)
         /\ IF en.source = "inline" THEN en.data = en.digest
                                    ELSE en.digest \in AnswersTo(<<at[1], 0>>)

(* "and no publisher-signed manifest fails" (README.md:175): in a trusted    *)
(* catalog no DID document that was fetched for a publisher's signature, on  *)
(* any entry, refuses it, and no such signature is out of its window.        *)
TrustedHasNoFailure ==
  level = "trusted" =>
    \A at \in Signed :
      LET sig == ManifestAt(at).signature IN
      sig.signer = doc.entries[at[1]].publisher /\ sig.profile = "did-web-v1" =>
        /\ sig.issuedAt <= now
        /\ sig.expiresAt = Absent \/ now < sig.expiresAt
        /\ \A body \in AnswersTo(at) : body = Absent \/ Attests(body, sig)

(* "Assessors never hold an entry back, but do not make it Trusted alone"    *)
(* (README.md:175): without the manifests of others, the judgement of every  *)
(* entry is the same.                                                        *)
AssessorsAreNeutral ==
  \A a \in DOMAIN entries :
    LET own  == RestrictValues(entries[a].manifests, LAMBDA r : r.publisher)
        only == entryTrust(own, entries[a].artifact)
    IN  /\ entries[a].publisherEndorsed = only.publisherEndorsed
        /\ entries[a].publisherFailed = only.publisherFailed

(* A check that could not run is unverifiable, never failed (verify.go:43):  *)
(* each fetch that fails leaves its own check, and no other, unverifiable.   *)
UnreachableIsNotFailure ==
  \A x \in evidence :
    LET outcome == IF x.entry = 0 THEN catalogSignature
                   ELSE IF x.manifest = 0 THEN entries[x.entry].artifact
                   ELSE IF x.entry \in DOMAIN entries
                        THEN entries[x.entry].manifests[x.manifest].signature
                        ELSE manifests[x.manifest].signature
    IN  x.answer = Absent <=> outcome = "unverifiable"

(* What Verify refuses without a fetch, Validate has reported: a release     *)
(* that fails is an error of the document, and a signature that fails before *)
(* its key is fetched has an error or, the two clock readings being equal,   *)
(* a warning (verify.go:282-342, 409-428; validate.go:178, signature.go).    *)
RefusalsAreReported ==
  \A at \in Checked :
    LET mt == ManifestAt(at)  en == doc.entries[at[1]] IN
    /\ ResultAt(at).release = "failed" => documentErrors(doc) # {}
    /\ ResultAt(at).signature = "failed" /\ AnswersTo(at) = {} /\ validatedAt = now =>
         manifestErrors(en, mt) \cup manifestWarnings(mt, validatedAt) # {}

(* "They are warnings; Verify does not accept such a signature" (codes.go:58). *)
ProfileWarningsNotAccepted ==
  \A at \in Checked :
    manifestWarnings(ManifestAt(at), validatedAt) \cap profileCodes # {} =>
      ResultAt(at).signature # "verified"

(* Every call returns, with a verdict on every entry, whatever the fetches   *)
(* do (verify.go:146-157).                                                   *)
Terminates == <>(pc = "done" /\ Len(entries) = Len(doc.entries))

-----------------------------------------------------------------------------
(* Two statements of the sources that the code does not keep.               *)

(* A signature Validate warns of as one that "is in the future and MUST NOT  *)
(* be accepted yet" (signature.go:110) is not accepted by the same call.     *)
NotYetValidNotAccepted ==
  \A at \in Checked :
    "signature-not-yet-valid" \in manifestWarnings(ManifestAt(at), validatedAt) =>
      ResultAt(at).signature # "verified"

(* "expired or not-yet-valid signatures are warnings" (README.md:152): each  *)
(* signature of the document that is outside its window has one, or an error. *)
documentWarnings ==
  UNION {UNION {manifestWarnings(doc.entries[a].manifests[b], validatedAt) :
                  b \in DOMAIN doc.entries[a].manifests} : a \in DOMAIN doc.entries}

CatalogSignatureIsJudged ==
  pc = "done" /\ doc.signature # Absent =>
    LET sig == doc.signature IN
    expiredAt(sig, validatedAt) \/ futureAt(sig, validatedAt) =>
      documentWarnings \cup documentErrors(doc) # {}
=============================================================================
