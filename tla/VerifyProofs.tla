----------------------------- MODULE VerifyProofs -----------------------------
(***************************************************************************)
(* Theorems about Verify, for every set of documents, of DID documents and *)
(* of operators, and every horizon.  The invariant ties each outcome the   *)
(* call has come to so far to the answer its check was given: from that,   *)
(* and from what the operators of the checks compute, the safety           *)
(* properties of Verify follow.                                            *)
(***************************************************************************)
EXTENDS Verify, SequenceTheorems, FiniteSetTheorems, TLAPS

-----------------------------------------------------------------------------
(* The parts of the inductive invariant.                                    *)

(* The control state says which clocks were read and what was done by then. *)
ControlFollows ==
  /\ pc # "validate" => validatedAt # Absent
  /\ IF pc \in {"entries", "done"} THEN now \in Instants
     ELSE /\ manifests = <<>> /\ entries = <<>> /\ evidence = {}
          /\ catalogSignature = Absent /\ ~catalogAuthorized
          /\ pc = "catalog" => now \in Instants
  /\ level # Absent <=> pc = "done"

(* The two cursors stay within the document. *)
CursorsInBounds ==
  /\ Len(entries) <= Len(doc.entries)
  /\ manifests # <<>> => /\ e \in DOMAIN doc.entries
                         /\ Len(manifests) <= Len(doc.entries[e].manifests)
  /\ pc = "done" => Len(entries) = Len(doc.entries) /\ manifests = <<>>

(* Every fetch so far was for a check that was begun. *)
EvidencePlaced ==
  \A x \in evidence :
    \/ x.entry = 0 /\ x.manifest = 0
    \/ x.entry \in DOMAIN entries /\ x.manifest \in 0..Len(entries[x.entry].manifests)
    \/ x.entry = e /\ x.manifest \in DOMAIN manifests

(* r is what CheckManifest makes of manifest b of entry a, given the answer *)
(* that was fetched for it, if one was.                                     *)
Explained(a, b, r) ==
  LET mt == doc.entries[a].manifests[b]
      sig == mt.signature
  IN  IF sig = Absent
      THEN /\ r = [signature |-> Absent, release |-> Absent, publisher |-> FALSE]
           /\ AnswersTo(<<a, b>>) = {}
      ELSE \E answer \in DIDDocuments \cup {Absent} :
             /\ r = [signature |-> checkSignature(sig, "manifest", now, answer),
                     release |-> release(doc.entries[a], mt),
                     publisher |-> isPublisher(doc.entries[a], sig.signer)]
             /\ AnswersTo(<<a, b>>) =
                  IF fetchesKey(sig, "manifest", now) THEN {answer} ELSE {}

(* The results of the manifests of the entry at hand, and of those before. *)
ManifestsExplained == \A b \in DOMAIN manifests : Explained(e, b, manifests[b])

EntriesExplained ==
  \A a \in DOMAIN entries :
    /\ Len(entries[a].manifests) = Len(doc.entries[a].manifests)
    /\ \A b \in DOMAIN entries[a].manifests : Explained(a, b, entries[a].manifests[b])

(* x is the trust FinishEntry gives an entry, given the digest that was     *)
(* fetched for its artifact, if it was.                                     *)
ArtifactExplained(a, x) ==
  LET vouched == \E k \in DOMAIN x.manifests : accepted(x.manifests[k])
  IN  \E answer \in Digests \cup {Absent} :
        /\ x = entryTrust(x.manifests,
                          IF vouched THEN checkArtifact(doc.entries[a], answer) ELSE Absent)
        /\ AnswersTo(<<a, 0>>) =
             IF vouched /\ fetchesArtifact(doc.entries[a]) THEN {answer} ELSE {}

ArtifactsExplained == \A a \in DOMAIN entries : ArtifactExplained(a, entries[a])

(* The same of the catalog signature. *)
CatalogExplained ==
  pc \in {"entries", "done"} =>
    IF doc.signature = Absent
    THEN catalogSignature = Absent /\ AnswersTo(<<0, 0>>) = {}
    ELSE \E answer \in DIDDocuments \cup {Absent} :
           /\ catalogSignature = checkSignature(doc.signature, "catalog", now, answer)
           /\ AnswersTo(<<0, 0>>) =
                IF fetchesKey(doc.signature, "catalog", now) THEN {answer} ELSE {}

(* The level of a call that returned is the one Conclude works out. *)
LevelFollows ==
  pc = "done" =>
    level = IF /\ \E k \in DOMAIN entries : entries[k].publisherEndorsed
               /\ \A k \in DOMAIN entries : ~entries[k].publisherFailed
               /\ validationLevel(doc) = "discoverable"
            THEN "trusted" ELSE validationLevel(doc)

IInv ==
  /\ TypeOK
  /\ ControlFollows
  /\ CursorsInBounds
  /\ EvidencePlaced
  /\ ManifestsExplained
  /\ EntriesExplained
  /\ ArtifactsExplained
  /\ CatalogExplained
  /\ LevelFollows

-----------------------------------------------------------------------------
(* What the operators of the checks return.                                 *)

(* The outcome of a signature (verify.go:236-280). *)
LEMMA SignatureOutcomeType ==
  ASSUME NEW sig, NEW typ, NEW t, NEW answer
  PROVE  checkSignature(sig, typ, t, answer) \in Statuses
BY DEF checkSignature, Statuses

(* The outcome of an artifact (verify.go:344-406). *)
LEMMA ArtifactOutcomeType ==
  ASSUME NEW en, NEW answer
  PROVE  checkArtifact(en, answer) \in Statuses
BY DEF checkArtifact, Statuses

(* The parts of a well-typed document. *)
LEMMA DocumentParts ==
  ASSUME TypeOK
  PROVE  /\ doc.clean \in BOOLEAN /\ doc.host \in BOOLEAN
         /\ doc.signature \in Signature \cup {Absent}
         /\ doc.entries \in Seq(Entry)
         /\ Len(doc.entries) \in Nat
         /\ DOMAIN doc.entries = 1..Len(doc.entries)
         /\ \A a \in DOMAIN doc.entries :
              /\ doc.entries[a] \in Entry
              /\ doc.entries[a].manifests \in Seq(Manifest)
              /\ Len(doc.entries[a].manifests) \in Nat
              /\ DOMAIN doc.entries[a].manifests = 1..Len(doc.entries[a].manifests)
              /\ \A b \in DOMAIN doc.entries[a].manifests :
                   doc.entries[a].manifests[b] \in Manifest
<1>1. doc \in Document
  BY DocumentsAssumption DEF TypeOK
<1>2. /\ doc.clean \in BOOLEAN /\ doc.host \in BOOLEAN
      /\ doc.signature \in Signature \cup {Absent}
      /\ doc.entries \in Seq(Entry)
  BY <1>1 DEF Document
<1>3. \A a \in DOMAIN doc.entries : doc.entries[a] \in Entry
  BY <1>2
<1>4. \A a \in DOMAIN doc.entries : doc.entries[a].manifests \in Seq(Manifest)
  BY <1>3 DEF Entry
<1>5. QED
  BY <1>2, <1>3, <1>4

(* A result of CheckManifest is well typed (verify.go:216-230). *)
LEMMA ManifestTrustType ==
  ASSUME NEW sig, NEW en, NEW mt, NEW signer, NEW t, NEW answer
  PROVE  /\ [signature |-> checkSignature(sig, "manifest", t, answer),
             release |-> release(en, mt),
             publisher |-> isPublisher(en, signer)] \in ManifestTrust
         /\ [signature |-> Absent, release |-> Absent, publisher |-> FALSE] \in ManifestTrust
<1>1. checkSignature(sig, "manifest", t, answer) \in Statuses
  BY SignatureOutcomeType
<1>2. release(en, mt) \in {"verified", "failed"}
  BY DEF release
<1>3. isPublisher(en, signer) \in BOOLEAN
  BY DEF isPublisher
<1>4. QED
  BY <1>1, <1>2, <1>3 DEF ManifestTrust

(* So is the trust of an entry (verify.go:204-213). *)
LEMMA EntryTrustType ==
  ASSUME NEW ms \in Seq(ManifestTrust), NEW artifact \in Statuses \cup {Absent}
  PROVE  entryTrust(ms, artifact) \in EntryTrust
<1>1. /\ entryTrust(ms, artifact).publisherEndorsed \in BOOLEAN
      /\ entryTrust(ms, artifact).publisherFailed \in BOOLEAN
  BY DEF entryTrust
<1>2. QED
  BY <1>1 DEF entryTrust, EntryTrust

-----------------------------------------------------------------------------
(* What the steps do to the evidence.                                       *)

Recorded(a, b, answer) ==
  evidence' = evidence \cup {[entry |-> a, manifest |-> b, answer |-> answer]}

LEMMA RecordedAnswers ==
  ASSUME NEW a, NEW b, NEW answer,
         Recorded(a, b, answer), NEW at
  PROVE  AnswersTo(at)' = IF at[1] = a /\ at[2] = b THEN AnswersTo(at) \cup {answer}
                                                  ELSE AnswersTo(at)
<1> DEFINE new == [entry |-> a, manifest |-> b, answer |-> answer]
           At(S) == {s \in S : s.entry = at[1] /\ s.manifest = at[2]}
<1>0. evidence' = evidence \cup {new}
  BY DEF Recorded
<1>1. /\ AnswersTo(at) = {r.answer : r \in At(evidence)}
      /\ AnswersTo(at)' = {r.answer : r \in At(evidence')}
  BY DEF AnswersTo
<1>2. CASE at[1] = a /\ at[2] = b
  <2>1. At(evidence') = At(evidence) \cup {new}
    BY <1>0, <1>2
  <2>2. \A S, z : {r.answer : r \in S \cup {z}} = {r.answer : r \in S} \cup {z.answer}
    <3> TAKE S, z
    <3>1. \A u : u \in {r.answer : r \in S \cup {z}} <=>
                  u \in {r.answer : r \in S} \cup {z.answer}
      OBVIOUS
    <3>2. QED
      BY <3>1
  <2>3. {r.answer : r \in At(evidence')} = {r.answer : r \in At(evidence)} \cup {new.answer}
    <3> HIDE DEF At, new
    <3> QED
      BY <2>1, <2>2
  <2>4. QED
    BY <1>1, <1>2, <2>3
<1>3. CASE ~(at[1] = a /\ at[2] = b)
  <2>1. At(evidence') = At(evidence)
    BY <1>0, <1>3
  <2>2. QED
    BY <1>1, <1>3, <2>1
<1>4. QED
  BY <1>2, <1>3

LEMMA SameAnswers ==
  ASSUME UNCHANGED evidence, NEW at
  PROVE  AnswersTo(at)' = AnswersTo(at)
BY DEF AnswersTo

(* No fetch was made for a check that was not begun. *)
LEMMA NoAnswersYet ==
  ASSUME TypeOK, EvidencePlaced
  PROVE  /\ AnswersTo(<<e, m>>) = {}
         /\ manifests = <<>> => \A b : AnswersTo(<<e, b>>) = {}
         /\ \A b : b # 0 => AnswersTo(<<0, b>>) = {}
<1>1. Len(entries) \in Nat /\ DOMAIN entries = 1..Len(entries) /\ DOMAIN manifests = 1..Len(manifests)
      /\ Len(manifests) \in Nat
  BY DEF TypeOK
<1>2. QED
  BY <1>1 DEF EvidencePlaced, AnswersTo, e, m

(* What an outcome rests on does not change while its evidence stands. *)
LEMMA ExplainedStays ==
  ASSUME UNCHANGED <<doc, now>>, NEW a, NEW b, NEW r,
         AnswersTo(<<a, b>>)' = AnswersTo(<<a, b>>), Explained(a, b, r)
  PROVE  Explained(a, b, r)'
BY DEF Explained

LEMMA ArtifactStays ==
  ASSUME UNCHANGED doc, NEW a, NEW x,
         AnswersTo(<<a, 0>>)' = AnswersTo(<<a, 0>>), ArtifactExplained(a, x)
  PROVE  ArtifactExplained(a, x)'
BY DEF ArtifactExplained

(* The steps that check nothing keep every explanation. *)
LEMMA NothingChecked ==
  ASSUME IInv, UNCHANGED <<doc, now, manifests, entries, evidence>>
  PROVE  /\ EvidencePlaced'
         /\ ManifestsExplained'
         /\ EntriesExplained'
         /\ ArtifactsExplained'
<1>1. EvidencePlaced'
  BY DEF IInv, EvidencePlaced, e
<1>2. ManifestsExplained'
  BY ExplainedStays, SameAnswers DEF IInv, ManifestsExplained, e
<1>3. EntriesExplained'
  BY ExplainedStays, SameAnswers DEF IInv, EntriesExplained
<1>4. ArtifactsExplained'
  BY ArtifactStays, SameAnswers DEF IInv, ArtifactsExplained
<1>5. QED
  BY <1>1, <1>2, <1>3, <1>4

(* Before any check there is nothing to explain. *)
LEMMA NothingToExplain ==
  ASSUME entries' = <<>>, manifests' = <<>>, evidence' = {}
  PROVE  /\ EvidencePlaced'
         /\ ManifestsExplained'
         /\ EntriesExplained'
         /\ ArtifactsExplained'
BY DEF EvidencePlaced, ManifestsExplained, EntriesExplained, ArtifactsExplained

-----------------------------------------------------------------------------
(* The invariant holds at first, and every step keeps it.                   *)

LEMMA InitIInv == Init => IInv
<1> SUFFICES ASSUME Init PROVE IInv
  OBVIOUS
<1>1. TypeOK
  <2>1. 0 \in Instants
    BY HorizonAssumption DEF Instants
  <2>2. manifests \in Seq(ManifestTrust) /\ entries \in Seq(EntryTrust)
    BY DEF Init
  <2>3. QED
    BY <2>1, <2>2 DEF Init, TypeOK
<1>2. ControlFollows
  BY DEF Init, ControlFollows
<1>3. CursorsInBounds
  BY <1>1, DocumentParts DEF Init, CursorsInBounds
<1>4. EvidencePlaced /\ ManifestsExplained /\ EntriesExplained /\ ArtifactsExplained
  BY DEF Init, EvidencePlaced, ManifestsExplained, EntriesExplained, ArtifactsExplained
<1>5. CatalogExplained /\ LevelFollows
  BY DEF Init, CatalogExplained, LevelFollows
<1>6. QED
  BY <1>1, <1>2, <1>3, <1>4, <1>5 DEF IInv

(* Time passes (no code: the clock is the machine's). *)
LEMMA TickKeeps == ASSUME IInv, Tick PROVE IInv'
<1>1. TypeOK'
  BY HorizonAssumption DEF IInv, TypeOK, Tick, Instants
<1>2. ControlFollows' /\ CursorsInBounds'
  BY DEF IInv, Tick, ControlFollows, CursorsInBounds, e
<1>3. EvidencePlaced' /\ ManifestsExplained' /\ EntriesExplained' /\ ArtifactsExplained'
  BY NothingChecked DEF Tick
<1>4. CatalogExplained' /\ LevelFollows'
  BY SameAnswers DEF IInv, Tick, CatalogExplained, LevelFollows
<1>5. QED
  BY <1>1, <1>2, <1>3, <1>4 DEF IInv

(* Validate reads the clock (verify.go:130). *)
LEMMA ValidateDocumentKeeps == ASSUME IInv, ValidateDocument PROVE IInv'
<1>1. TypeOK'
  BY DEF IInv, TypeOK, ValidateDocument
<1>2. ControlFollows'
  BY SentinelAssumption DEF IInv, TypeOK, ValidateDocument, ControlFollows
<1>3. CursorsInBounds'
  BY DEF IInv, ValidateDocument, CursorsInBounds, e
<1>4. EvidencePlaced' /\ ManifestsExplained' /\ EntriesExplained' /\ ArtifactsExplained'
  BY NothingChecked DEF ValidateDocument
<1>5. CatalogExplained' /\ LevelFollows'
  BY DEF ValidateDocument, CatalogExplained, LevelFollows
<1>6. QED
  BY <1>1, <1>2, <1>3, <1>4, <1>5 DEF IInv

(* The verifier reads it (verify.go:131-138). *)
LEMMA ReadClockKeeps == ASSUME IInv, ReadClock PROVE IInv'
<1>1. TypeOK'
  BY DEF IInv, TypeOK, ReadClock
<1>2. ControlFollows'
  BY DEF IInv, TypeOK, ReadClock, ControlFollows
<1>3. CursorsInBounds'
  BY DEF IInv, ReadClock, CursorsInBounds, e
<1>4. EvidencePlaced' /\ ManifestsExplained' /\ EntriesExplained' /\ ArtifactsExplained'
  BY NothingToExplain DEF IInv, ControlFollows, ReadClock
<1>5. CatalogExplained' /\ LevelFollows'
  BY DEF ReadClock, CatalogExplained, LevelFollows
<1>6. QED
  BY <1>1, <1>2, <1>3, <1>4, <1>5 DEF IInv

(* The call returns (verify.go:150-158). *)
LEMMA ConcludeKeeps == ASSUME IInv, Conclude PROVE IInv'
<1>1. validationLevel(doc) \in Levels
  BY DEF validationLevel, Levels
<1>2. TypeOK'
  BY <1>1 DEF IInv, TypeOK, Conclude, Levels
<1>3. ControlFollows'
  BY <1>1, OutcomeAssumption DEF IInv, Conclude, ControlFollows, Levels
<1>4. Len(entries) \in Nat /\ Len(doc.entries) \in Nat /\ DOMAIN doc.entries = 1..Len(doc.entries)
  BY DocumentParts DEF IInv, TypeOK
<1>5. CursorsInBounds'
  BY <1>4 DEF IInv, Conclude, CursorsInBounds, e
<1>6. EvidencePlaced' /\ ManifestsExplained' /\ EntriesExplained' /\ ArtifactsExplained'
  BY NothingChecked DEF Conclude
<1>7. CatalogExplained'
  BY SameAnswers DEF IInv, Conclude, CatalogExplained
<1>8. LevelFollows'
  BY DEF Conclude, LevelFollows
<1>9. QED
  BY <1>2, <1>3, <1>5, <1>6, <1>7, <1>8 DEF IInv

(* The catalog signature is checked (verify.go:138-144). *)
LEMMA CheckCatalogSignatureKeeps == ASSUME IInv, CheckCatalogSignature PROVE IInv'
<1> DEFINE sig     == doc.signature
           fetches == fetchesKey(sig, "catalog", now)
<1>1. /\ TypeOK /\ pc = "catalog" /\ pc' = "entries" /\ now \in Instants
      /\ manifests = <<>> /\ entries = <<>> /\ evidence = {}
      /\ catalogSignature = Absent /\ ~catalogAuthorized /\ level = Absent
  BY DEF IInv, ControlFollows, CheckCatalogSignature
<1>2. UNCHANGED <<doc, clock, validatedAt, now, manifests, entries, level>>
  BY DEF CheckCatalogSignature
<1>3. CASE sig = Absent
  <2>1. UNCHANGED <<catalogSignature, catalogAuthorized, evidence>>
    BY <1>3 DEF CheckCatalogSignature
  <2>2. TypeOK' /\ ControlFollows' /\ CursorsInBounds'
    BY <1>1, <1>2, <2>1, DocumentParts
       DEF IInv, TypeOK, ControlFollows, CursorsInBounds, e
  <2>3. EvidencePlaced' /\ ManifestsExplained' /\ EntriesExplained' /\ ArtifactsExplained'
    BY <1>1, <1>2, <2>1, NothingToExplain
  <2>4. CatalogExplained' /\ LevelFollows'
    BY <1>1, <1>2, <1>3, <2>1 DEF CatalogExplained, LevelFollows, AnswersTo
  <2>5. QED
    BY <2>2, <2>3, <2>4 DEF IInv
<1>4. CASE sig # Absent
  <2>1. PICK answer \in Answers(fetches, DIDDocuments) :
          /\ catalogSignature' = checkSignature(sig, "catalog", now, answer)
          /\ catalogAuthorized' = (catalogSignature' = "verified" /\ sig.signer \in Operators)
          /\ Record(fetches, 0, 0, answer)
    BY <1>4 DEF CheckCatalogSignature
  <2>2. answer \in DIDDocuments \cup {Absent}
    BY DEF Answers
  <2>3. evidence' = IF fetches THEN {[entry |-> 0, manifest |-> 0, answer |-> answer]} ELSE {}
    BY <1>1, <2>1 DEF Record
  <2>4. evidence' \subseteq Evidence
    BY <2>2, <2>3 DEF Evidence
  <2>5. TypeOK'
    BY <1>1, <1>2, <2>1, <2>4, SignatureOutcomeType DEF TypeOK
  <2>6. ControlFollows' /\ CursorsInBounds'
    BY <1>1, <1>2, DocumentParts DEF IInv, ControlFollows, CursorsInBounds, e
  <2>7. EvidencePlaced'
    BY <2>3 DEF EvidencePlaced
  <2>8. ManifestsExplained' /\ EntriesExplained' /\ ArtifactsExplained'
    BY <1>1, <1>2 DEF ManifestsExplained, EntriesExplained, ArtifactsExplained
  <2>9. CatalogExplained'
    <3>1. AnswersTo(<<0, 0>>)' = IF fetches THEN {answer} ELSE {}
      <4>1. AnswersTo(<<0, 0>>) = {}
        BY <1>1 DEF AnswersTo
      <4>2. CASE fetches
        <5>1. Recorded(0, 0, answer)
          BY <2>1, <4>2 DEF Record, Recorded
        <5>2. QED
          BY <4>1, <4>2, <5>1, RecordedAnswers
      <4>3. CASE ~fetches
        BY <2>1, <4>1, <4>3, SameAnswers DEF Record
      <4>4. QED
        BY <4>2, <4>3
    <3>2. QED
      BY <1>2, <1>4, <2>1, <2>2, <3>1 DEF CatalogExplained
  <2>10. LevelFollows'
    BY <1>1 DEF LevelFollows
  <2>11. QED
    BY <2>5, <2>6, <2>7, <2>8, <2>9, <2>10 DEF IInv
<1>5. QED
  BY <1>3, <1>4

(* A manifest of the entry at hand is checked (verify.go:192-230). *)
LEMMA CheckManifestKeeps == ASSUME IInv, CheckManifest PROVE IInv'
<1> DEFINE sig     == man.signature
           fetches == sig # Absent /\ fetchesKey(sig, "manifest", now)
<1>1. /\ TypeOK /\ pc = "entries" /\ now \in Instants /\ level = Absent
      /\ e \in DOMAIN doc.entries /\ m \in DOMAIN entry.manifests
  BY DEF IInv, ControlFollows, CheckManifest
<1>2. UNCHANGED <<doc, clock, validatedAt, now, pc, entries,
                  catalogSignature, catalogAuthorized, level>>
  BY DEF CheckManifest
<1>3. /\ Len(entries) \in Nat /\ DOMAIN entries = 1..Len(entries)
      /\ Len(manifests) \in Nat /\ DOMAIN manifests = 1..Len(manifests)
      /\ Len(doc.entries) \in Nat /\ DOMAIN doc.entries = 1..Len(doc.entries)
      /\ Len(entry.manifests) \in Nat /\ DOMAIN entry.manifests = 1..Len(entry.manifests)
  BY <1>1, DocumentParts DEF TypeOK, entry
<1>4. PICK answer \in DIDDocuments \cup {Absent}, r \in ManifestTrust :
        /\ r = IF sig = Absent
               THEN [signature |-> Absent, release |-> Absent, publisher |-> FALSE]
               ELSE [signature |-> checkSignature(sig, "manifest", now, answer),
                     release |-> release(entry, man),
                     publisher |-> isPublisher(entry, sig.signer)]
        /\ manifests' = Append(manifests, r)
        /\ evidence' = IF fetches
                       THEN evidence \cup {[entry |-> e, manifest |-> m, answer |-> answer]}
                       ELSE evidence
  <2>1. CASE sig = Absent
    BY <2>1, ManifestTrustType DEF CheckManifest
  <2>2. CASE sig # Absent
    <3>1. PICK answer \in Answers(fetchesKey(sig, "manifest", now), DIDDocuments) :
            /\ manifests' = Append(manifests,
                 [signature |-> checkSignature(sig, "manifest", now, answer),
                  release |-> release(entry, man),
                  publisher |-> isPublisher(entry, sig.signer)])
            /\ Record(fetchesKey(sig, "manifest", now), e, m, answer)
      BY <2>2 DEF CheckManifest
    <3>2. answer \in DIDDocuments \cup {Absent}
      BY DEF Answers
    <3>3. QED
      BY <2>2, <3>1, <3>2, ManifestTrustType DEF Record
  <2>3. QED
    BY <2>1, <2>2
<1>5. /\ manifests' \in Seq(ManifestTrust)
      /\ Len(manifests') = m /\ DOMAIN manifests' = 1..m
      /\ \A b \in DOMAIN manifests : manifests'[b] = manifests[b]
      /\ manifests'[m] = r
      /\ e' = e
  BY <1>1, <1>2, <1>3, <1>4, AppendProperties DEF TypeOK, m, e
<1>6. PICK a, b : a = e /\ b = m
  OBVIOUS
<1>6a. AnswersTo(<<a, b>>)' = IF fetches THEN {answer} ELSE {}
  <2>1. AnswersTo(<<a, b>>) = {}
    BY <1>1, <1>6, NoAnswersYet DEF IInv
  <2>2. CASE fetches
    <3>1. Recorded(a, b, answer)
      BY <1>4, <1>6, <2>2 DEF Recorded
    <3>2. QED
      BY <2>1, <2>2, <3>1, RecordedAnswers
  <2>3. CASE ~fetches
    BY <1>4, <2>1, <2>3, SameAnswers
  <2>4. QED
    BY <2>2, <2>3
<1>6b. \A x, y : x # a \/ y # b => AnswersTo(<<x, y>>)' = AnswersTo(<<x, y>>)
  <2> SUFFICES ASSUME NEW x, NEW y, x # a \/ y # b
               PROVE  AnswersTo(<<x, y>>)' = AnswersTo(<<x, y>>)
    OBVIOUS
  <2>1. CASE fetches
    <3>1. Recorded(a, b, answer)
      BY <1>4, <1>6, <2>1 DEF Recorded
    <3>2. QED
      BY <3>1, RecordedAnswers
  <2>2. CASE ~fetches
    BY <1>4, <2>2, SameAnswers
  <2>3. QED
    BY <2>1, <2>2
<1>7. TypeOK'
  <2>1. [entry |-> e, manifest |-> m, answer |-> answer] \in Evidence
    BY <1>3, <1>4 DEF Evidence, e, m
  <2>2. evidence' \subseteq Evidence
    BY <1>1, <1>4, <2>1 DEF TypeOK
  <2>3. QED
    BY <1>1, <1>2, <1>5, <2>2 DEF TypeOK
<1>8. ControlFollows' /\ LevelFollows'
  BY <1>1, <1>2 DEF IInv, ControlFollows, LevelFollows
<1>9. CursorsInBounds'
  BY <1>1, <1>2, <1>3, <1>5 DEF IInv, CursorsInBounds, entry
<1>10. EvidencePlaced'
  <2>1. \A x \in evidence' : x \in evidence \/ x = [entry |-> e, manifest |-> m, answer |-> answer]
    BY <1>4
  <2>2. QED
    BY <1>2, <1>3, <1>5, <2>1 DEF IInv, EvidencePlaced, m
<1>11. ManifestsExplained'
  <2>1. ASSUME NEW k \in DOMAIN manifests PROVE Explained(a, k, manifests[k])'
    <3>1. AnswersTo(<<a, k>>)' = AnswersTo(<<a, k>>) /\ Explained(a, k, manifests[k])
      BY <1>3, <1>6, <1>6b, <2>1 DEF IInv, ManifestsExplained, m
    <3>2. manifests'[k] = manifests[k]
      BY <1>5, <2>1
    <3>3. QED
      BY <1>2, <3>1, <3>2, ExplainedStays
  <2>2. Explained(a, b, r)'
    BY <1>2, <1>4, <1>6, <1>6a DEF Explained, entry, man
  <2>3. QED
    BY <1>3, <1>5, <1>6, <2>1, <2>2 DEF ManifestsExplained, m
<1>12. EntriesExplained'
  <2> SUFFICES ASSUME NEW x \in DOMAIN entries, NEW k \in DOMAIN entries[x].manifests
               PROVE  Explained(x, k, entries[x].manifests[k])'
    BY <1>2 DEF IInv, EntriesExplained
  <2>1. AnswersTo(<<x, k>>)' = AnswersTo(<<x, k>>)
    BY <1>3, <1>6, <1>6b DEF e
  <2>2. QED
    BY <1>2, <2>1, ExplainedStays DEF IInv, EntriesExplained
<1>13. ArtifactsExplained'
  <2> SUFFICES ASSUME NEW x \in DOMAIN entries PROVE ArtifactExplained(x, entries[x])'
    BY <1>2 DEF ArtifactsExplained
  <2>1. AnswersTo(<<x, 0>>)' = AnswersTo(<<x, 0>>)
    BY <1>3, <1>6, <1>6b DEF e
  <2>2. QED
    BY <1>2, <2>1, ArtifactStays DEF IInv, ArtifactsExplained
<1>14. CatalogExplained'
  <2>1. AnswersTo(<<0, 0>>)' = AnswersTo(<<0, 0>>)
    BY <1>3, <1>6, <1>6b DEF e
  <2>2. QED
    BY <1>1, <1>2, <2>1 DEF IInv, CatalogExplained
<1>15. QED
  BY <1>7, <1>8, <1>9, <1>10, <1>11, <1>12, <1>13, <1>14 DEF IInv

(* The artifact is checked, and the entry done with (verify.go:192-214). *)
LEMMA FinishEntryKeeps == ASSUME IInv, FinishEntry PROVE IInv'
<1> DEFINE vouched == \E k \in DOMAIN manifests : accepted(manifests[k])
           fetches == vouched /\ fetchesArtifact(entry)
<1>1. /\ TypeOK /\ pc = "entries" /\ now \in Instants /\ level = Absent
      /\ e \in DOMAIN doc.entries /\ m > Len(entry.manifests) /\ manifests' = <<>>
  BY DEF IInv, ControlFollows, FinishEntry
<1>2. UNCHANGED <<doc, clock, validatedAt, now, pc, catalogSignature, catalogAuthorized, level>>
  BY DEF FinishEntry
<1>3. /\ Len(entries) \in Nat /\ DOMAIN entries = 1..Len(entries)
      /\ Len(manifests) \in Nat /\ DOMAIN manifests = 1..Len(manifests)
      /\ manifests \in Seq(ManifestTrust)
      /\ Len(doc.entries) \in Nat /\ DOMAIN doc.entries = 1..Len(doc.entries)
      /\ Len(entry.manifests) \in Nat /\ DOMAIN entry.manifests = 1..Len(entry.manifests)
  BY <1>1, DocumentParts DEF TypeOK, entry
<1>4. Len(manifests) = Len(entry.manifests)
  <2>1. Len(manifests) <= Len(entry.manifests)
    BY <1>3 DEF IInv, CursorsInBounds, entry
  <2>2. QED
    BY <1>1, <1>3, <2>1 DEF m
<1>5. PICK answer \in Digests \cup {Absent}, x \in EntryTrust :
        /\ x = entryTrust(manifests, IF vouched THEN checkArtifact(entry, answer) ELSE Absent)
        /\ entries' = Append(entries, x)
        /\ evidence' = IF fetches
                       THEN evidence \cup {[entry |-> e, manifest |-> 0, answer |-> answer]}
                       ELSE evidence
  <2>1. CASE ~vouched
    BY <1>3, <2>1, EntryTrustType DEF FinishEntry
  <2>2. CASE vouched
    <3>1. PICK answer \in Answers(fetchesArtifact(entry), Digests) :
            /\ entries' = Append(entries, entryTrust(manifests, checkArtifact(entry, answer)))
            /\ Record(fetchesArtifact(entry), e, 0, answer)
      BY <2>2 DEF FinishEntry
    <3>2. answer \in Digests \cup {Absent}
      BY DEF Answers
    <3>3. entryTrust(manifests, checkArtifact(entry, answer)) \in EntryTrust
      BY <1>3, EntryTrustType, ArtifactOutcomeType
    <3>4. QED
      BY <2>2, <3>1, <3>2, <3>3 DEF Record
  <2>3. QED
    BY <2>1, <2>2
<1>6. PICK a : a = e
  OBVIOUS
<1>6a. /\ entries' \in Seq(EntryTrust)
       /\ Len(entries') = a /\ DOMAIN entries' = 1..a
       /\ \A k \in DOMAIN entries : entries'[k] = entries[k]
       /\ entries'[a] = x
       /\ e' = a + 1
  BY <1>1, <1>3, <1>5, <1>6, AppendProperties DEF TypeOK, e
<1>6b. AnswersTo(<<a, 0>>)' = IF fetches THEN {answer} ELSE {}
  <2>1. AnswersTo(<<a, 0>>) = {}
    BY <1>1, <1>3, <1>6 DEF IInv, EvidencePlaced, AnswersTo, e
  <2>2. CASE fetches
    <3>1. Recorded(a, 0, answer)
      BY <1>5, <1>6, <2>2 DEF Recorded
    <3>2. QED
      BY <2>1, <2>2, <3>1, RecordedAnswers
  <2>3. CASE ~fetches
    BY <1>5, <2>1, <2>3, SameAnswers
  <2>4. QED
    BY <2>2, <2>3
<1>6c. \A y, z : y # a \/ z # 0 => AnswersTo(<<y, z>>)' = AnswersTo(<<y, z>>)
  <2> SUFFICES ASSUME NEW y, NEW z, y # a \/ z # 0
               PROVE  AnswersTo(<<y, z>>)' = AnswersTo(<<y, z>>)
    OBVIOUS
  <2>1. CASE fetches
    <3>1. Recorded(a, 0, answer)
      BY <1>5, <1>6, <2>1 DEF Recorded
    <3>2. QED
      BY <3>1, RecordedAnswers
  <2>2. CASE ~fetches
    BY <1>5, <2>2, SameAnswers
  <2>3. QED
    BY <2>1, <2>2
<1>6d. x.manifests = manifests
  BY <1>5 DEF entryTrust
<1>7. TypeOK'
  <2>1. [entry |-> e, manifest |-> 0, answer |-> answer] \in Evidence
    BY <1>3, <1>5 DEF Evidence, e
  <2>2. evidence' \subseteq Evidence
    BY <1>1, <1>5, <2>1 DEF TypeOK
  <2>3. <<>> \in Seq(ManifestTrust)
    OBVIOUS
  <2>4. QED
    BY <1>1, <1>2, <1>6a, <2>2, <2>3 DEF TypeOK
<1>8. ControlFollows' /\ LevelFollows'
  BY <1>1, <1>2 DEF IInv, ControlFollows, LevelFollows
<1>9. CursorsInBounds'
  BY <1>1, <1>2, <1>3, <1>6, <1>6a DEF IInv, CursorsInBounds
<1>10. EvidencePlaced'
  <2>1. \A y \in evidence' : y \in evidence \/ y = [entry |-> a, manifest |-> 0, answer |-> answer]
    BY <1>5, <1>6
  <2>2. ASSUME NEW y \in evidence
        PROVE  \/ y.entry = 0 /\ y.manifest = 0
               \/ y.entry \in DOMAIN entries' /\ y.manifest \in 0..Len(entries'[y.entry].manifests)
    BY <1>3, <1>6, <1>6a, <1>6d DEF IInv, EvidencePlaced, e
  <2>3. a \in DOMAIN entries' /\ 0 \in 0..Len(entries'[a].manifests)
    BY <1>3, <1>6, <1>6a, <1>6d DEF e
  <2>4. QED
    BY <2>1, <2>2, <2>3 DEF EvidencePlaced
<1>11. ManifestsExplained'
  BY <1>1 DEF ManifestsExplained
<1>12. EntriesExplained'
  <2>1. ASSUME NEW y \in DOMAIN entries
        PROVE  /\ Len(entries'[y].manifests) = Len(doc.entries[y].manifests)
               /\ \A k \in DOMAIN entries'[y].manifests : Explained(y, k, entries[y].manifests[k])'
    <3>1. ASSUME NEW k \in DOMAIN entries[y].manifests
          PROVE  Explained(y, k, entries[y].manifests[k])'
      <4>1. AnswersTo(<<y, k>>)' = AnswersTo(<<y, k>>)
        BY <1>3, <1>6, <1>6c DEF e
      <4>2. entries'[y] = entries[y]
        BY <1>6a
      <4>3. QED
        BY <1>2, <4>1, <4>2, ExplainedStays DEF IInv, EntriesExplained
    <3>2. QED
      BY <1>2, <1>6a, <3>1 DEF IInv, EntriesExplained
  <2>2. /\ Len(entries'[a].manifests) = Len(doc.entries[a].manifests)
        /\ \A k \in DOMAIN manifests : Explained(a, k, manifests[k]) /\ k # 0
    BY <1>2, <1>3, <1>4, <1>6, <1>6a, <1>6d DEF IInv, ManifestsExplained, entry
  <2>3. ASSUME NEW k \in DOMAIN manifests PROVE Explained(a, k, entries[a].manifests[k])'
    <3>1. PICK r : r = manifests[k]
      OBVIOUS
    <3>2. Explained(a, k, r)'
      BY <1>2, <1>6c, <2>2, <3>1, ExplainedStays
    <3>3. entries'[a].manifests[k] = r
      BY <1>6a, <1>6d, <3>1
    <3>4. QED
      BY <3>2, <3>3
  <2>4. \A y \in DOMAIN entries' : y \in DOMAIN entries \/ y = a
    BY <1>3, <1>6, <1>6a DEF e
  <2>5. DOMAIN entries'[a].manifests = DOMAIN manifests
    BY <1>6a, <1>6d
  <2>6. \A y \in DOMAIN entries' : Len(entries'[y].manifests) = Len(doc'.entries[y].manifests)
    BY <1>2, <2>1, <2>2, <2>4
  <2>7. \A y \in DOMAIN entries' : \A k \in DOMAIN entries'[y].manifests :
          Explained(y, k, entries[y].manifests[k])'
    BY <2>1, <2>3, <2>4, <2>5
  <2>8. QED
    BY <2>6, <2>7 DEF EntriesExplained
<1>13. ArtifactsExplained'
  <2>1. ASSUME NEW y \in DOMAIN entries PROVE ArtifactExplained(y, entries[y])'
    <3>1. AnswersTo(<<y, 0>>)' = AnswersTo(<<y, 0>>)
      BY <1>3, <1>6, <1>6c DEF e
    <3>2. entries'[y] = entries[y]
      BY <1>6a
    <3>3. QED
      BY <1>2, <3>1, <3>2, ArtifactStays DEF IInv, ArtifactsExplained
  <2>2. ArtifactExplained(a, x)'
    BY <1>2, <1>5, <1>6, <1>6b, <1>6d DEF ArtifactExplained, entry
  <2>3. QED
    BY <1>3, <1>6, <1>6a, <2>1, <2>2 DEF ArtifactsExplained, e
<1>14. CatalogExplained'
  <2>1. AnswersTo(<<0, 0>>)' = AnswersTo(<<0, 0>>)
    BY <1>3, <1>6, <1>6c DEF e
  <2>2. QED
    BY <1>1, <1>2, <2>1 DEF IInv, CatalogExplained
<1>15. QED
  BY <1>7, <1>8, <1>9, <1>10, <1>11, <1>12, <1>13, <1>14 DEF IInv

LEMMA NextIInv == IInv /\ [Next]_vars => IInv'
<1> SUFFICES ASSUME IInv, [Next]_vars PROVE IInv'
  OBVIOUS
<1>1. CASE UNCHANGED vars
  <2>1. EvidencePlaced' /\ ManifestsExplained' /\ EntriesExplained' /\ ArtifactsExplained'
    BY <1>1, NothingChecked DEF vars
  <2>2. TypeOK' /\ ControlFollows' /\ CursorsInBounds' /\ LevelFollows'
    BY <1>1 DEF vars, IInv, TypeOK, ControlFollows, CursorsInBounds, LevelFollows, e
  <2>3. CatalogExplained'
    BY <1>1, SameAnswers DEF vars, IInv, CatalogExplained
  <2>4. QED
    BY <2>1, <2>2, <2>3 DEF IInv
<1>2. QED
  BY <1>1, TickKeeps, ValidateDocumentKeeps, ReadClockKeeps, CheckCatalogSignatureKeeps,
     CheckManifestKeeps, FinishEntryKeeps, ConcludeKeeps DEF Next, Step

(* The parts of IInv hold throughout a call. *)
THEOREM Invariance == Spec => []IInv
BY InitIInv, NextIInv, PTL DEF Spec

(* Every variable of a call of Verify stays in its set (verify.go:108-158). *)
THEOREM VerifyTypeCorrect == Spec => []TypeOK
<1>1. IInv => TypeOK
  BY DEF IInv
<1>2. QED
  BY <1>1, Invariance, PTL

-----------------------------------------------------------------------------
(* An outage is not a forgery.                                              *)

(* A signature whose DID document was asked for is unverifiable exactly     *)
(* when it did not arrive (verify.go:256-259), and so is an artifact        *)
(* (verify.go:395-403).                                                     *)
LEMMA FetchedSignature ==
  ASSUME NEW sig, NEW typ, NEW t, NEW answer, fetchesKey(sig, typ, t)
  PROVE  /\ sig.profile = "did-web-v1"
         /\ answer = Absent <=> checkSignature(sig, typ, t, answer) = "unverifiable"
BY DEF checkSignature, fetchesKey

LEMMA FetchedArtifact ==
  ASSUME NEW en, NEW answer, fetchesArtifact(en)
  PROVE  answer = Absent <=> checkArtifact(en, answer) = "unverifiable"
BY DEF checkArtifact, fetchesArtifact

(* What an explained result says when an answer was fetched for it. *)
LEMMA FetchedResult ==
  ASSUME NEW a, NEW b, NEW r, Explained(a, b, r), NEW answer \in AnswersTo(<<a, b>>)
  PROVE  LET sig == doc.entries[a].manifests[b].signature
         IN  /\ sig # Absent
             /\ fetchesKey(sig, "manifest", now)
             /\ r.signature = checkSignature(sig, "manifest", now, answer)
<1> DEFINE mt  == doc.entries[a].manifests[b]
           sig == mt.signature
<1>1. sig # Absent
  BY DEF Explained
<1>2. PICK y \in DIDDocuments \cup {Absent} :
        /\ r = [signature |-> checkSignature(sig, "manifest", now, y),
                release |-> release(doc.entries[a], mt),
                publisher |-> isPublisher(doc.entries[a], sig.signer)]
        /\ AnswersTo(<<a, b>>) = IF fetchesKey(sig, "manifest", now) THEN {y} ELSE {}
  BY <1>1 DEF Explained
<1>3. fetchesKey(sig, "manifest", now) /\ answer = y
  BY <1>2
<1>4. QED
  BY <1>1, <1>2, <1>3

(* Each fetch is an answer to its own check. *)
LEMMA AnswerHeard ==
  ASSUME NEW x \in evidence
  PROVE  x.answer \in AnswersTo(<<x.entry, x.manifest>>)
BY DEF AnswersTo

(* Only a fetch that failed makes a check it was made for unverifiable      *)
(* (verify.go:43, 256-259, 395-403): whatever the servers answer and        *)
(* whenever, an outage never shows as a failure nor a forgery as an outage. *)
THEOREM OutagesAreUnverifiable == Spec => []UnreachableIsNotFailure
<1>1. IInv => UnreachableIsNotFailure
  <2> SUFFICES ASSUME IInv, NEW x \in evidence
               PROVE  LET outcome == IF x.entry = 0 THEN catalogSignature
                                     ELSE IF x.manifest = 0 THEN entries[x.entry].artifact
                                     ELSE IF x.entry \in DOMAIN entries
                                          THEN entries[x.entry].manifests[x.manifest].signature
                                          ELSE manifests[x.manifest].signature
                      IN  x.answer = Absent <=> outcome = "unverifiable"
    BY DEF UnreachableIsNotFailure
  <2>1. x.answer \in AnswersTo(<<x.entry, x.manifest>>)
    BY AnswerHeard
  <2>2. /\ Len(entries) \in Nat /\ DOMAIN entries = 1..Len(entries)
        /\ Len(manifests) \in Nat /\ DOMAIN manifests = 1..Len(manifests)
        /\ \A a \in DOMAIN entries : /\ Len(entries[a].manifests) \in Nat
                                     /\ DOMAIN entries[a].manifests = 1..Len(entries[a].manifests)
    <3>1. entries \in Seq(EntryTrust) /\ manifests \in Seq(ManifestTrust)
      BY DEF IInv, TypeOK
    <3>2. \A a \in DOMAIN entries : entries[a] \in EntryTrust
      BY <3>1
    <3>3. \A a \in DOMAIN entries : entries[a].manifests \in Seq(ManifestTrust)
      BY <3>2 DEF EntryTrust
    <3>4. QED
      BY <3>1, <3>3
  <2>3. CASE x.entry = 0 /\ x.manifest = 0
    <3>1. pc \in {"entries", "done"}
      BY DEF IInv, ControlFollows
    <3>2. x.answer \in AnswersTo(<<0, 0>>)
      BY <2>1, <2>3
    <3>3. /\ fetchesKey(doc.signature, "catalog", now)
          /\ catalogSignature = checkSignature(doc.signature, "catalog", now, x.answer)
      BY <3>1, <3>2 DEF IInv, CatalogExplained
    <3>4. QED
      BY <2>3, <3>3, FetchedSignature
  <2>4. CASE x.entry \in DOMAIN entries /\ x.manifest = 0
    <3>1. ArtifactExplained(x.entry, entries[x.entry])
      BY <2>4 DEF IInv, ArtifactsExplained
    <3>2. x.answer \in AnswersTo(<<x.entry, 0>>)
      BY <2>1, <2>4
    <3>3. /\ fetchesArtifact(doc.entries[x.entry])
          /\ entries[x.entry].artifact = checkArtifact(doc.entries[x.entry], x.answer)
      <4> DEFINE y == entries[x.entry]  w == doc.entries[x.entry]  d == AnswersTo(<<x.entry, 0>>)
                 vouched == \E k \in DOMAIN y.manifests : accepted(y.manifests[k])
                 verdict(answer) == IF vouched THEN checkArtifact(w, answer) ELSE Absent
      <4>1. PICK answer \in Digests \cup {Absent} :
               /\ y = entryTrust(y.manifests, verdict(answer))
               /\ d = IF vouched /\ fetchesArtifact(w) THEN {answer} ELSE {}
        BY <3>1 DEF ArtifactExplained
      <4>2. y.artifact = verdict(answer)
        <5> HIDE DEF y, verdict
        <5>1. entryTrust(y.manifests, verdict(answer)).artifact = verdict(answer)
          BY DEF entryTrust
        <5> QED
          BY <4>1, <5>1
      <4>3. vouched /\ fetchesArtifact(w) /\ x.answer = answer
        <5>1. x.answer \in d
          BY <3>2
        <5> HIDE DEF y, w, d, vouched, verdict
        <5> QED
          BY <4>1, <5>1
      <4> HIDE DEF y, w, d, vouched
      <4>4. verdict(answer) = checkArtifact(w, answer)
        BY <4>3
      <4>5. fetchesArtifact(w) /\ y.artifact = checkArtifact(w, x.answer)
        BY <4>2, <4>3, <4>4
      <4> QED
        BY <4>5 DEF y, w
    <3>4. x.entry # 0
      BY <2>2, <2>4
    <3>5. QED
      BY <2>4, <3>3, <3>4, FetchedArtifact
  <2>5. CASE x.entry \in DOMAIN entries /\ x.manifest \in DOMAIN entries[x.entry].manifests
    <3>1. Explained(x.entry, x.manifest, entries[x.entry].manifests[x.manifest])
      BY <2>5 DEF IInv, EntriesExplained
    <3>2. x.entry # 0 /\ x.manifest # 0
      BY <2>2, <2>5
    <3>3. QED
      BY <2>1, <2>5, <3>1, <3>2, FetchedResult, FetchedSignature
  <2>6. CASE x.entry = e /\ x.manifest \in DOMAIN manifests
    <3>1. Explained(x.entry, x.manifest, manifests[x.manifest])
      BY <2>6 DEF IInv, ManifestsExplained
    <3>2. x.entry # 0 /\ x.manifest # 0 /\ x.entry \notin DOMAIN entries
      BY <2>2, <2>6 DEF e
    <3>3. QED
      BY <2>1, <3>1, <3>2, FetchedResult, FetchedSignature
  <2>7. QED
    <3>1. \/ x.entry = 0 /\ x.manifest = 0
          \/ x.entry \in DOMAIN entries /\ x.manifest \in 0..Len(entries[x.entry].manifests)
          \/ x.entry = e /\ x.manifest \in DOMAIN manifests
      BY DEF IInv, EvidencePlaced
    <3>2. ASSUME x.entry \in DOMAIN entries, x.manifest \in 0..Len(entries[x.entry].manifests)
          PROVE  x.manifest = 0 \/ x.manifest \in DOMAIN entries[x.entry].manifests
      BY <2>2, <3>2
    <3>3. QED
      BY <2>3, <2>4, <2>5, <2>6, <3>1, <3>2
<1>2. QED
  BY <1>1, Invariance, PTL

-----------------------------------------------------------------------------
(* What Validate reports and what Verify refuses.                           *)

(* A signature that is signed and checked, and what its outcome rests on. *)
LEMMA SignedParts ==
  ASSUME IInv, NEW at \in Signed
  PROVE  /\ at = <<at[1], at[2]>>
         /\ at[1] \in DOMAIN doc.entries /\ doc.entries[at[1]] \in Entry
         /\ at[2] \in DOMAIN doc.entries[at[1]].manifests
         /\ ManifestAt(at) = doc.entries[at[1]].manifests[at[2]]
         /\ ManifestAt(at) \in Manifest
         /\ ManifestAt(at).signature # Absent
         /\ ManifestAt(at).signature \in Signature
<1>1. PICK a \in DOMAIN doc.entries :
        at \in {<<a, b>> : b \in {k \in DOMAIN doc.entries[a].manifests :
                                    doc.entries[a].manifests[k].signature # Absent}}
  BY DEF Signed
<1>2. PICK b \in DOMAIN doc.entries[a].manifests :
        at = <<a, b>> /\ doc.entries[a].manifests[b].signature # Absent
  BY <1>1
<1>3. doc.entries[a] \in Entry /\ doc.entries[a].manifests[b] \in Manifest
  BY <1>1, <1>2, DocumentParts DEF IInv
<1>4. doc.entries[a].manifests[b].signature \in Signature
  BY <1>2, <1>3 DEF Manifest
<1>5. QED
  BY <1>1, <1>2, <1>3, <1>4 DEF ManifestAt

LEMMA CheckedResult ==
  ASSUME IInv, NEW at \in Checked
  PROVE  /\ at \in Signed
         /\ at[1] \in DOMAIN entries
         /\ at[2] \in DOMAIN entries[at[1]].manifests
         /\ now \in Instants
         /\ \E answer \in DIDDocuments \cup {Absent} :
              LET sig == ManifestAt(at).signature
              IN  /\ ResultAt(at).signature = checkSignature(sig, "manifest", now, answer)
                  /\ ResultAt(at).release = release(doc.entries[at[1]], ManifestAt(at))
                  /\ ResultAt(at).publisher = isPublisher(doc.entries[at[1]], sig.signer)
                  /\ AnswersTo(at) = IF fetchesKey(sig, "manifest", now) THEN {answer} ELSE {}
<1> DEFINE a == at[1]  b == at[2]
<1>1. at \in Signed /\ a \in DOMAIN entries
  BY DEF Checked
<1>2. b \in DOMAIN entries[a].manifests
  <2>1. /\ entries[a] \in EntryTrust
        /\ Len(entries[a].manifests) = Len(doc.entries[a].manifests)
    BY <1>1 DEF IInv, TypeOK, EntriesExplained
  <2>2. entries[a].manifests \in Seq(ManifestTrust)
    BY <2>1 DEF EntryTrust
  <2>3. DOMAIN doc.entries[a].manifests = 1..Len(doc.entries[a].manifests)
    BY <1>1, SignedParts, DocumentParts DEF IInv
  <2>4. QED
    BY <1>1, <2>1, <2>2, <2>3, SignedParts
<1>3. now \in Instants
  <2>1. entries # <<>>
    BY <1>1
  <2>2. QED
    BY <2>1 DEF IInv, ControlFollows
<1>4. Explained(a, b, ResultAt(at)) /\ ManifestAt(at).signature # Absent /\ at = <<a, b>>
  BY <1>1, <1>2, SignedParts DEF IInv, EntriesExplained, ResultAt
<1>5. PICK answer \in DIDDocuments \cup {Absent} :
        LET mt  == ManifestAt(at)
            sig == mt.signature
        IN  /\ ResultAt(at) = [signature |-> checkSignature(sig, "manifest", now, answer),
                               release |-> release(doc.entries[a], mt),
                               publisher |-> isPublisher(doc.entries[a], sig.signer)]
            /\ AnswersTo(<<a, b>>) =
                 IF fetchesKey(sig, "manifest", now) THEN {answer} ELSE {}
  BY <1>4 DEF Explained, ManifestAt
<1>6. LET sig == ManifestAt(at).signature
      IN  /\ ResultAt(at).signature = checkSignature(sig, "manifest", now, answer)
          /\ ResultAt(at).release = release(doc.entries[a], ManifestAt(at))
          /\ ResultAt(at).publisher = isPublisher(doc.entries[a], sig.signer)
  BY <1>5
<1>7. AnswersTo(at) = IF fetchesKey(ManifestAt(at).signature, "manifest", now)
                      THEN {answer} ELSE {}
  BY <1>4, <1>5
<1>8. QED
  BY <1>1, <1>2, <1>3, <1>6, <1>7

(* A release that fails has an error (verify.go:408-428; validate.go:178).  *)
LEMMA ReleaseRefused ==
  ASSUME NEW en \in Entry, NEW k \in DOMAIN en.manifests,
         en.manifests[k] \in Manifest, en.manifests[k].signature \in Signature,
         en.manifests[k].signature # Absent,
         release(en, en.manifests[k]) = "failed"
  PROVE  entryErrors(en) # {}
<1> DEFINE mt == en.manifests[k]
<1>1. manifestErrors(en, mt) \subseteq entryErrors(en)
  BY DEF entryErrors
<1>2. CASE mt.signature.signer # mt.contributor
  <2>1. CASE mt.signature.signer = Absent
    <3>1. "signature-member-missing" \in signatureErrors(mt.signature, "manifest")
      BY <2>1 DEF signatureErrors
    <3>2. "signature-member-missing" \in manifestErrors(en, mt)
      BY <3>1 DEF manifestErrors
    <3>3. QED
      BY <1>1, <3>2
  <2>2. CASE mt.signature.signer # Absent
    <3>1. "manifest-signer-mismatch" \in manifestErrors(en, mt)
      BY <1>2, <2>2 DEF manifestErrors
    <3>2. QED
      BY <1>1, <3>1
  <2>3. QED
    BY <2>1, <2>2
<1>3. CASE en.digest = Absent
  <2>1. \E j \in DOMAIN en.manifests : en.manifests[j].signature # Absent
    OBVIOUS
  <2>2. "entry-digest-missing" \in entryErrors(en)
    BY <1>3, <2>1 DEF entryErrors
  <2>3. QED
    BY <2>2
<1>4. CASE mt.subject = Absent
  <2>1. "manifest-member-missing" \in manifestErrors(en, mt)
    BY <1>4 DEF manifestErrors
  <2>2. QED
    BY <1>1, <2>1
<1>5. CASE mt.subject # Absent /\ (~mt.subject.complete \/ mt.subject.digest = Absent)
  <2>1. "subject-member-missing" \in manifestErrors(en, mt)
    BY <1>5 DEF manifestErrors
  <2>2. QED
    BY <1>1, <2>1
<1>6. CASE mt.subject # Absent /\ subjectMismatches(en, mt.subject)
  <2>1. "subject-mismatch" \in manifestErrors(en, mt)
    BY <1>6 DEF manifestErrors
  <2>2. QED
    BY <1>1, <2>1
<1>7. QED
  BY <1>2, <1>3, <1>4, <1>5, <1>6 DEF release

(* A signature of the profile that is refused before its key is fetched     *)
(* has an error or a warning, at the same reading of the clock              *)
(* (verify.go:282-342; signature.go:58-115).                                *)
LEMMA HeaderRefused ==
  ASSUME NEW en, NEW mt \in Manifest, mt.signature \in Signature, mt.signature # Absent,
         NEW t \in Instants, mt.signature.profile = "did-web-v1",
         ~fetchesKey(mt.signature, "manifest", t)
  PROVE  manifestErrors(en, mt) \cup manifestWarnings(mt, t) # {}
<1> DEFINE sig == mt.signature  jws == sig.jws
<1>1. /\ jws \in JWS /\ sig.issuedAt \in Timestamps /\ sig.expiresAt \in Timestamps
      /\ jws.form \in {"detached", "attached", "malformed", "absent"}
      /\ jws.alg \in {"ES256", "none", "other"}
  BY DEF Signature, JWS
<1>2. signatureErrors(sig, "manifest") \subseteq manifestErrors(en, mt)
  BY DEF manifestErrors
<1>3. CASE jws.form # "detached"
  <2>1. \E c \in {"signature-member-missing", "signature-form", "signature-malformed"} :
          c \in signatureErrors(sig, "manifest")
    BY <1>1, <1>3 DEF signatureErrors
  <2>2. QED
    BY <1>2, <2>1
<1>4. CASE jws.form = "detached" /\ ~checkHeader(sig, "manifest")
  <2>1. CASE jws.alg = "none"
    <3>1. "signature-algorithm-forbidden" \in signatureErrors(sig, "manifest")
      BY <1>4, <2>1 DEF signatureErrors
    <3>2. QED
      BY <1>2, <3>1
  <2>2. CASE jws.typ # "manifest"
    <3>1. "signature-type" \in signatureErrors(sig, "manifest")
      BY <1>4, <2>2 DEF signatureErrors
    <3>2. QED
      BY <1>2, <3>1
  <2>3. CASE jws.alg = "other" \/ "key-source" \in jws.members
             \/ ~RootDIDWeb(sig.signer) \/ ~namesKeyOf(jws, sig.signer)
    <3>1. signerProfileWarnings(sig) # {}
      <4>1. \E c \in profileCodes : c \in signerProfileWarnings(sig)
        BY <2>3 DEF signerProfileWarnings, profileCodes
      <4>2. QED
        BY <4>1
    <3>2. signerProfileWarnings(sig) \subseteq manifestWarnings(mt, t)
      BY <1>4 DEF manifestWarnings
    <3>3. QED
      BY <3>1, <3>2
  <2>4. QED
    BY <1>1, <1>4, <2>1, <2>2, <2>3 DEF checkHeader
<1>5. CASE jws.form = "detached" /\ ~checkTime(sig, t)
  <2>1. CASE sig.issuedAt = Absent
    <3>1. "signature-member-missing" \in signatureErrors(sig, "manifest")
      BY <2>1 DEF signatureErrors
    <3>2. QED
      BY <1>2, <3>1
  <2>2. CASE Bad \in {sig.issuedAt, sig.expiresAt}
    <3>1. "timestamp-invalid" \in signatureErrors(sig, "manifest")
      BY <2>2 DEF signatureErrors
    <3>2. QED
      BY <1>2, <3>1
  <2>3. CASE futureAt(sig, t)
    <3>1. "signature-not-yet-valid" \in manifestWarnings(mt, t)
      BY <1>5, <2>3 DEF manifestWarnings
    <3>2. QED
      BY <3>1
  <2>4. CASE expiredAt(sig, t)
    <3>1. "signature-expired" \in manifestWarnings(mt, t)
      BY <1>5, <2>4 DEF manifestWarnings
    <3>2. QED
      BY <3>1
  <2>5. QED
    BY <1>1, <1>5, <2>1, <2>2, <2>3, <2>4 DEF checkTime, instant, Timestamps
<1>6. QED
  BY <1>3, <1>4, <1>5 DEF fetchesKey

(* Whatever Verify refuses without a fetch, Validate has reported           *)
(* (verify.go:282-342, 408-428; validate.go:178, signature.go): the two say *)
(* the same rules in different code, and this is that they agree, on every  *)
(* document and at every instant.                                           *)
THEOREM RefusalsReported == Spec => []RefusalsAreReported
<1>1. IInv => RefusalsAreReported
  <2> SUFFICES ASSUME IInv, NEW at \in Checked
               PROVE  LET mt == ManifestAt(at)  en == doc.entries[at[1]]
                      IN  /\ ResultAt(at).release = "failed" => documentErrors(doc) # {}
                          /\ ResultAt(at).signature = "failed" /\ AnswersTo(at) = {}
                               /\ validatedAt = now =>
                               manifestErrors(en, mt) \cup manifestWarnings(mt, validatedAt) # {}
    BY DEF RefusalsAreReported
  <2> DEFINE mt == ManifestAt(at)  en == doc.entries[at[1]]  sig == mt.signature
  <2>1. PICK answer \in DIDDocuments \cup {Absent} :
          /\ ResultAt(at).signature = checkSignature(sig, "manifest", now, answer)
          /\ ResultAt(at).release = release(en, mt)
          /\ AnswersTo(at) = IF fetchesKey(sig, "manifest", now) THEN {answer} ELSE {}
    BY CheckedResult
  <2>2. /\ at[1] \in DOMAIN doc.entries /\ en \in Entry
        /\ at[2] \in DOMAIN en.manifests /\ mt = en.manifests[at[2]]
        /\ mt \in Manifest /\ sig # Absent /\ sig \in Signature /\ now \in Instants
    BY CheckedResult, SignedParts
  <2>3. ASSUME ResultAt(at).release = "failed" PROVE documentErrors(doc) # {}
    <3>1. entryErrors(en) # {}
      BY <2>1, <2>2, <2>3, ReleaseRefused
    <3>2. QED
      BY <2>2, <3>1 DEF documentErrors
  <2>4. ASSUME ResultAt(at).signature = "failed", AnswersTo(at) = {}, validatedAt = now
        PROVE  manifestErrors(en, mt) \cup manifestWarnings(mt, validatedAt) # {}
    <3>1. ~fetchesKey(sig, "manifest", now)
      BY <2>1, <2>4
    <3>2. sig.profile = "did-web-v1"
      BY <2>1, <2>4 DEF checkSignature
    <3>3. QED
      BY <2>2, <2>4, <3>1, <3>2, HeaderRefused
  <2>5. QED
    BY <2>3, <2>4
<1>2. QED
  BY <1>1, Invariance, PTL

(* "They are warnings; Verify does not accept such a signature"             *)
(* (codes.go:58), for every signature, key and answer.                      *)
THEOREM ProfileWarningsRefused == Spec => []ProfileWarningsNotAccepted
<1>1. IInv => ProfileWarningsNotAccepted
  <2> SUFFICES ASSUME IInv, NEW at \in Checked, ResultAt(at).signature = "verified"
               PROVE  manifestWarnings(ManifestAt(at), validatedAt) \cap profileCodes = {}
    BY DEF ProfileWarningsNotAccepted
  <2> DEFINE sig == ManifestAt(at).signature
  <2>1. PICK answer : ResultAt(at).signature = checkSignature(sig, "manifest", now, answer)
    BY CheckedResult
  <2>2. checkHeader(sig, "manifest")
    BY <2>1 DEF checkSignature, fetchesKey
  <2>3. signerProfileWarnings(sig) = {}
    BY <2>2 DEF checkHeader, signerProfileWarnings
  <2>4. QED
    BY <2>3 DEF manifestWarnings, profileCodes
<1>2. QED
  BY <1>1, Invariance, PTL

(* "Assessors never hold an entry back, but do not make it Trusted alone"   *)
(* (README.md:175; verify.go:204-213), for any number of manifests.         *)
THEOREM AssessorsNeutral == Spec => []AssessorsAreNeutral
<1>1. IInv => AssessorsAreNeutral
  <2> SUFFICES ASSUME IInv, NEW a \in DOMAIN entries
               PROVE  LET own  == RestrictValues(entries[a].manifests, LAMBDA r : r.publisher)
                          only == entryTrust(own, entries[a].artifact)
                      IN  /\ entries[a].publisherEndorsed = only.publisherEndorsed
                          /\ entries[a].publisherFailed = only.publisherFailed
    BY DEF AssessorsAreNeutral
  <2> DEFINE ms  == entries[a].manifests
             own == RestrictValues(ms, LAMBDA r : r.publisher)
  <2>1. PICK artifact : entries[a] = entryTrust(ms, artifact)
    BY DEF IInv, ArtifactsExplained, ArtifactExplained
  <2>2. entries[a].artifact = artifact
    BY <2>1 DEF entryTrust
  <2>3. /\ DOMAIN own = {k \in DOMAIN ms : ms[k].publisher}
        /\ \A k \in DOMAIN own : own[k] = ms[k]
    BY DEF RestrictValues, Restrict
  <2>4. (\E k \in DOMAIN own : own[k].publisher /\ accepted(own[k])) <=>
        (\E k \in DOMAIN ms : ms[k].publisher /\ accepted(ms[k]))
    BY <2>3
  <2>5. (\E k \in DOMAIN own : own[k].publisher /\ failed(own[k])) <=>
        (\E k \in DOMAIN ms : ms[k].publisher /\ failed(ms[k]))
    BY <2>3
  <2>6. /\ entryTrust(own, artifact).publisherEndorsed = entryTrust(ms, artifact).publisherEndorsed
        /\ entryTrust(own, artifact).publisherFailed = entryTrust(ms, artifact).publisherFailed
    <3> HIDE DEF own
    <3> QED
      BY <2>4, <2>5 DEF entryTrust
  <2>7. QED
    BY <2>1, <2>2, <2>6
<1>2. QED
  BY <1>1, Invariance, PTL

-----------------------------------------------------------------------------
(* Trusted is earned.                                                       *)

(* A key that selectKey returns is one the document attests (did.go:42-115). *)
LEMMA SelectedIsAttested ==
  ASSUME NEW body, NEW sig, body # Absent,
         selectKey(body, sig.signer, sig.jws.kid) # Bad,
         sig.jws.seal = selectKey(body, sig.signer, sig.jws.kid)
  PROVE  Attests(body, sig)
<1> DEFINE kid      == sig.jws.kid
           selected == methodsOf(body, sig.signer, kid)
           at       == CHOOSE x \in selected : TRUE
           method   == methodAt(body, at)
<1>1. /\ body.id = sig.signer
      /\ authorizes(body, sig.signer, kid)
      /\ Cardinality(selected) = 1
      /\ method.controller = sig.signer
      /\ sig.jws.seal = method.jwk
  BY DEF selectKey
<1>2. at \in selected
  <2>1. selected # {}
    BY <1>1, FS_EmptySet
  <2>2. QED
    BY <2>1
<1>3. \/ \E j \in DOMAIN body.methods :
           at = <<"listed", j>> /\ resolveKey(body.methods[j].id, sig.signer) = kid
      \/ \E j \in DOMAIN body.assertions :
           /\ at = <<"embedded", j>>
           /\ body.assertions[j].kind = "embedded"
           /\ resolveKey(body.assertions[j].method.id, sig.signer) = kid
  BY <1>2 DEF methodsOf
<1>4. \/ \E j \in DOMAIN body.methods :
           /\ resolveKey(body.methods[j].id, sig.signer) = kid
           /\ body.methods[j].controller = sig.signer
           /\ body.methods[j].jwk = sig.jws.seal
      \/ \E j \in DOMAIN body.assertions :
           /\ body.assertions[j].kind = "embedded"
           /\ resolveKey(body.assertions[j].method.id, sig.signer) = kid
           /\ body.assertions[j].method.controller = sig.signer
           /\ body.assertions[j].method.jwk = sig.jws.seal
  <2> HIDE DEF at
  <2>1. ASSUME NEW j \in DOMAIN body.methods, at = <<"listed", j>>
        PROVE  method = body.methods[j]
    BY <2>1 DEF methodAt
  <2>2. ASSUME NEW j \in DOMAIN body.assertions, at = <<"embedded", j>>
        PROVE  method = body.assertions[j].method
    BY <2>2 DEF methodAt
  <2> HIDE DEF method
  <2>3. QED
    BY <1>1, <1>3, <2>1, <2>2
<1>5. QED
  BY <1>1, <1>4 DEF Attests, authorizes

(* A verified signature was in its window, and the document that was        *)
(* fetched for it attests its key (verify.go:236-280); one that did not     *)
(* fail, of the profile, is in its window, and no document refutes it.      *)
LEMMA VerifiedIsAttested ==
  ASSUME NEW sig, NEW typ, NEW t, NEW answer,
         checkSignature(sig, typ, t, answer) # "failed", sig.profile = "did-web-v1"
  PROVE  /\ fetchesKey(sig, typ, t)
         /\ answer = Absent \/ Attests(answer, sig)
BY SelectedIsAttested DEF checkSignature, verifyES256

LEMMA InWindow ==
  ASSUME NEW sig \in Signature, NEW typ, NEW t \in Instants, fetchesKey(sig, typ, t)
  PROVE  /\ sig.issuedAt <= t
         /\ sig.expiresAt = Absent \/ t < sig.expiresAt
<1>1. checkTime(sig, t)
  BY DEF fetchesKey
<1>2. sig.issuedAt \in Instants /\ ~(sig.issuedAt > t)
  BY <1>1 DEF checkTime, instant, futureAt
<1>3. sig.expiresAt = Absent \/ (sig.expiresAt \in Instants /\ ~(sig.expiresAt <= t))
  BY <1>1 DEF checkTime, instant, expiredAt
<1>4. \A i, j \in Instants : (~(i > j) => i <= j) /\ (~(i <= j) => j < i)
  BY HorizonAssumption DEF Instants
<1>5. QED
  BY <1>2, <1>3, <1>4

(* A trusted catalog is discoverable, has an entry its publisher endorsed,  *)
(* and none its publisher failed (verify.go:150-158).                       *)
LEMMA TrustedLevel ==
  ASSUME IInv, level = "trusted"
  PROVE  /\ Len(entries) = Len(doc.entries)
         /\ DOMAIN entries = DOMAIN doc.entries
         /\ doc.clean /\ doc.host /\ documentErrors(doc) = {}
         /\ \E a \in DOMAIN entries : entries[a].publisherEndorsed
         /\ \A a \in DOMAIN entries : ~entries[a].publisherFailed
<1>1. pc = "done"
  BY OutcomeAssumption DEF IInv, ControlFollows, Levels
<1>2. /\ Len(entries) = Len(doc.entries)
      /\ DOMAIN entries = DOMAIN doc.entries
  BY <1>1, DocumentParts DEF IInv, CursorsInBounds, TypeOK
<1>3. validationLevel(doc) # "trusted"
  BY DEF validationLevel
<1>4. /\ \E a \in DOMAIN entries : entries[a].publisherEndorsed
      /\ \A a \in DOMAIN entries : ~entries[a].publisherFailed
      /\ validationLevel(doc) = "discoverable"
  BY <1>1, <1>3 DEF IInv, LevelFollows
<1>5. doc.clean /\ doc.host /\ documentErrors(doc) = {}
  BY <1>4 DEF validationLevel
<1>6. QED
  BY <1>2, <1>4, <1>5

(* What an entry that was judged says of its manifests. *)
LEMMA EntryTrustFields ==
  ASSUME NEW x, NEW ms, NEW artifact, x = entryTrust(ms, artifact)
  PROVE  /\ x.publisherEndorsed =>
              artifact = "verified" /\ \E k \in DOMAIN ms : ms[k].publisher /\ accepted(ms[k])
         /\ ~x.publisherFailed => \A k \in DOMAIN ms : ms[k].publisher => ~failed(ms[k])
BY DEF entryTrust

(* "Trusted" is earned (README.md:175; verify.go:150-214): however keys     *)
(* rotate and servers answer, some entry's publisher signed a manifest that *)
(* names the entry's digest, in its window, with a key its own DID document *)
(* held when it was fetched, and the artifact served has that digest.       *)
THEOREM TrustIsEarned == Spec => []TrustedIsEarned
<1>1. IInv => TrustedIsEarned
  <2> SUFFICES ASSUME IInv, level = "trusted"
               PROVE  /\ doc.clean /\ doc.host
                      /\ \E at \in Signed :
                           LET mt == ManifestAt(at)  sig == mt.signature
                               en == doc.entries[at[1]] IN
                           /\ en.publisher = sig.signer /\ mt.contributor = sig.signer
                           /\ mt.subject.digest = en.digest
                           /\ sig.issuedAt <= now
                           /\ sig.expiresAt = Absent \/ now < sig.expiresAt
                           /\ \E body \in AnswersTo(at) : Attests(body, sig)
                           /\ IF en.source = "inline" THEN en.data = en.digest
                              ELSE en.digest \in AnswersTo(<<at[1], 0>>)
    BY DEF TrustedIsEarned
  <2>1. /\ doc.clean /\ doc.host /\ DOMAIN entries = DOMAIN doc.entries
        /\ \E a \in DOMAIN entries : entries[a].publisherEndorsed
    BY TrustedLevel
  <2>2. PICK a \in DOMAIN entries : entries[a].publisherEndorsed
    BY <2>1
  <2> DEFINE ms == entries[a].manifests  en == doc.entries[a]
  <2>3. PICK content \in Digests \cup {Absent} :
          LET vouched == \E k \in DOMAIN ms : accepted(ms[k])
          IN  /\ entries[a] = entryTrust(ms, IF vouched THEN checkArtifact(en, content) ELSE Absent)
              /\ AnswersTo(<<a, 0>>) =
                   IF vouched /\ fetchesArtifact(en) THEN {content} ELSE {}
    BY DEF IInv, ArtifactsExplained, ArtifactExplained
  <2>4. PICK b \in DOMAIN ms : ms[b].publisher /\ accepted(ms[b])
    BY <2>2, <2>3, EntryTrustFields
  <2>5. /\ checkArtifact(en, content) = "verified"
        /\ AnswersTo(<<a, 0>>) = IF fetchesArtifact(en) THEN {content} ELSE {}
    <3>1. \E k \in DOMAIN ms : accepted(ms[k])
      BY <2>4
    <3>2. entries[a] = entryTrust(ms, checkArtifact(en, content))
      BY <2>3, <3>1
    <3>3. checkArtifact(en, content) = "verified"
      BY <2>2, <3>2, EntryTrustFields
    <3>4. QED
      BY <2>3, <3>1, <3>3
  <2> DEFINE at == <<a, b>>
  <2>6. at \in Checked
    <3>1. en.manifests[b].signature # Absent
      <4>1. Explained(a, b, ms[b])
        BY DEF IInv, EntriesExplained
      <4>2. ms[b].signature # Absent
        BY <2>4, OutcomeAssumption DEF accepted, Statuses
      <4>3. QED
        BY <4>1, <4>2 DEF Explained
    <3>2. b \in DOMAIN en.manifests
      <4>1. ms \in Seq(ManifestTrust)
        <5>1. entries[a] \in EntryTrust
          BY DEF IInv, TypeOK
        <5>2. QED
          BY <5>1 DEF EntryTrust
      <4>2. Len(ms) = Len(en.manifests)
        BY DEF IInv, EntriesExplained
      <4>3. DOMAIN en.manifests = 1..Len(en.manifests)
        BY <2>1, DocumentParts DEF IInv
      <4>4. QED
        BY <4>1, <4>2, <4>3
    <3>3. at \in Signed
      BY <2>1, <3>1, <3>2 DEF Signed
    <3>4. QED
      BY <3>3 DEF Checked
  <2> DEFINE mt == ManifestAt(at)  sig == mt.signature
  <2>7. PICK answer \in DIDDocuments \cup {Absent} :
          /\ ms[b].signature = checkSignature(sig, "manifest", now, answer)
          /\ ms[b].release = release(en, mt)
          /\ ms[b].publisher = isPublisher(en, sig.signer)
          /\ AnswersTo(at) = IF fetchesKey(sig, "manifest", now) THEN {answer} ELSE {}
    BY <2>6, CheckedResult DEF ResultAt
  <2>8. /\ at \in Signed /\ now \in Instants /\ sig \in Signature /\ mt \in Manifest
        /\ en \in Entry
    BY <2>6, CheckedResult, SignedParts
  <2>9. /\ checkSignature(sig, "manifest", now, answer) = "verified"
        /\ release(en, mt) = "verified"
        /\ isPublisher(en, sig.signer)
    BY <2>4, <2>7 DEF accepted
  <2>10. en.publisher = sig.signer /\ mt.contributor = sig.signer
    BY <2>9 DEF isPublisher, release
  <2>11. mt.subject.digest = en.digest
    BY <2>9 DEF release, subjectMismatches
  <2>12. /\ fetchesKey(sig, "manifest", now)
         /\ answer # Absent /\ Attests(answer, sig)
    <3>1. sig.profile = "did-web-v1" /\ answer # Absent
      BY <2>9 DEF checkSignature
    <3>2. QED
      BY <2>9, <3>1, VerifiedIsAttested
  <2>13. sig.issuedAt <= now /\ (sig.expiresAt = Absent \/ now < sig.expiresAt)
    BY <2>8, <2>12, InWindow
  <2>14. \E body \in AnswersTo(at) : Attests(body, sig)
    BY <2>7, <2>12
  <2>15. IF en.source = "inline" THEN en.data = en.digest ELSE en.digest \in AnswersTo(<<a, 0>>)
    <3>1. en.source \in {"inline", "https", "other", "unresolvable"}
      BY <2>8 DEF Entry
    <3>2. CASE en.source = "inline"
      BY <2>5, <3>2 DEF checkArtifact
    <3>3. CASE en.source # "inline"
      BY <2>5, <3>1, <3>3 DEF checkArtifact, fetchesArtifact
    <3>4. QED
      BY <3>2, <3>3
  <2>16. at[1] = a
    OBVIOUS
  <2>17. QED
    BY <2>1, <2>8, <2>10, <2>11, <2>13, <2>14, <2>15, <2>16
<1>2. QED
  BY <1>1, Invariance, PTL

(* "and no publisher-signed manifest fails" (README.md:175; verify.go:150-  *)
(* 214): in a trusted catalog, on whatever entry, a signature in the name   *)
(* of the publisher is in its window, and no document fetched for it        *)
(* refuses it.                                                              *)
THEOREM TrustHasNoFailure == Spec => []TrustedHasNoFailure
<1>1. IInv => TrustedHasNoFailure
  <2> SUFFICES ASSUME IInv, level = "trusted", NEW at \in Signed,
                      ManifestAt(at).signature.signer = doc.entries[at[1]].publisher,
                      ManifestAt(at).signature.profile = "did-web-v1"
               PROVE  LET sig == ManifestAt(at).signature
                      IN  /\ sig.issuedAt <= now
                          /\ sig.expiresAt = Absent \/ now < sig.expiresAt
                          /\ \A body \in AnswersTo(at) : body = Absent \/ Attests(body, sig)
    BY DEF TrustedHasNoFailure
  <2> DEFINE a == at[1]  en == doc.entries[a]  mt == ManifestAt(at)  sig == mt.signature
             ms == entries[a].manifests
  <2>1. /\ DOMAIN entries = DOMAIN doc.entries /\ documentErrors(doc) = {}
        /\ \A k \in DOMAIN entries : ~entries[k].publisherFailed
    BY TrustedLevel
  <2>2. /\ a \in DOMAIN doc.entries /\ at[2] \in DOMAIN en.manifests
        /\ mt = en.manifests[at[2]] /\ sig # Absent /\ sig \in Signature
    BY SignedParts
  <2>3. at \in Checked
    BY <2>1, <2>2 DEF Checked
  <2>4. PICK answer \in DIDDocuments \cup {Absent} :
          /\ ResultAt(at).signature = checkSignature(sig, "manifest", now, answer)
          /\ ResultAt(at).publisher = isPublisher(en, sig.signer)
          /\ AnswersTo(at) = IF fetchesKey(sig, "manifest", now) THEN {answer} ELSE {}
    BY <2>3, CheckedResult
  <2>5. sig.signer # Absent
    <3>1. SUFFICES ASSUME sig.signer = Absent PROVE documentErrors(doc) # {}
      BY <2>1
    <3>2. "signature-member-missing" \in signatureErrors(sig, "manifest")
      BY <3>1 DEF signatureErrors
    <3>3. "signature-member-missing" \in manifestErrors(en, mt)
      BY <2>2, <3>2 DEF manifestErrors
    <3>4. "signature-member-missing" \in entryErrors(en)
      BY <2>2, <3>3 DEF entryErrors
    <3>5. QED
      BY <2>2, <3>4 DEF documentErrors
  <2>6. isPublisher(en, sig.signer)
    BY <2>5 DEF isPublisher
  <2>7. ResultAt(at) = ms[at[2]] /\ at[2] \in DOMAIN ms /\ a \in DOMAIN entries /\ now \in Instants
    BY <2>3, CheckedResult DEF ResultAt
  <2>8. ~failed(ms[at[2]])
    <3>1. PICK artifact : entries[a] = entryTrust(ms, artifact)
      BY <2>7 DEF IInv, ArtifactsExplained, ArtifactExplained
    <3>2. ~entries[a].publisherFailed
      BY <2>1, <2>7
    <3>3. ms[at[2]].publisher
      BY <2>4, <2>6, <2>7
    <3>4. QED
      BY <2>7, <3>1, <3>2, <3>3, EntryTrustFields
  <2>9. checkSignature(sig, "manifest", now, answer) # "failed"
    BY <2>4, <2>7, <2>8 DEF failed
  <2>10. fetchesKey(sig, "manifest", now) /\ (answer = Absent \/ Attests(answer, sig))
    BY <2>9, VerifiedIsAttested
  <2>11. sig.issuedAt <= now /\ (sig.expiresAt = Absent \/ now < sig.expiresAt)
    BY <2>2, <2>7, <2>10, InWindow
  <2>12. QED
    BY <2>4, <2>10, <2>11
<1>2. QED
  BY <1>1, Invariance, PTL
=============================================================================
