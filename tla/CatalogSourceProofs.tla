------------------------ MODULE CatalogSourceProofs ------------------------
(***************************************************************************)
(* Proofs about CatalogSource: what the source keeps, what the bytes of a  *)
(* manifest are, and that callers are apart.                               *)
(***************************************************************************)
EXTENDS CatalogSource, RecursionLemmas, SequenceTheorems

-----------------------------------------------------------------------------
(* Manifests and their JSON.                                               *)

LEMMA SentinelsApart ==
  /\ Absent # Null /\ Absent \notin Object /\ Null \notin Object /\ Error \notin Object
  /\ Absent \notin SignedJSON /\ Null \notin SignedJSON
  /\ Absent \notin Strings /\ Null \notin Strings /\ NoText \in Strings
  /\ Absent \notin Bodies /\ Null \notin Bodies /\ Absent \notin Others /\ Null \notin Others
<1>1. Error \notin Object
  BY DEF Error, Object
<1>2. Bodies \subseteq Strings /\ Others \subseteq Strings /\ NoText \in Strings
  BY DEF Strings
<1> QED
  BY <1>1, <1>2, ManifestAssumption

LEMMA PresentType ==
  ASSUME NEW new \in Member, NEW old \in Strings
  PROVE  present(new, old) \in Strings
  BY DEF present, Member

LEMMA ReplacedType ==
  ASSUME NEW S, NEW new \in S \cup {Absent, Null}, NEW old \in S \cup {Absent}
  PROVE  replaced(new, old) \in S \cup {Absent}
<1>1. CASE new = Absent
  BY <1>1 DEF replaced
<1>2. CASE new = Null
  BY <1>2, SentinelsApart DEF replaced
<1>3. CASE new \notin {Absent, Null}
  BY <1>3 DEF replaced
<1> QED
  BY <1>1, <1>2, <1>3

(* What decoding a signature makes of the one there was. *)
MergedInto(old, new) ==
  [meta |-> present(new.meta, old.meta), jws |-> present(new.jws, old.jws),
   expiresAt |-> present(new.expiresAt, old.expiresAt)]

LEMMA MergedIntoType ==
  ASSUME NEW new \in SignedJSON, NEW old \in Signature
  PROVE  /\ MergedInto(old, new) \in Signature
         /\ MergedInto(old, new).meta = present(new.meta, old.meta)
         /\ MergedInto(old, new).expiresAt = present(new.expiresAt, old.expiresAt)
         /\ MergedInto(old, new).jws = present(new.jws, old.jws)
<1>1. /\ new.meta \in Member /\ new.jws \in Member /\ new.expiresAt \in Member
      /\ old.meta \in Strings /\ old.jws \in Strings /\ old.expiresAt \in Strings
  BY DEF SignedJSON, Signature
<1> DEFINE a == present(new.meta, old.meta)  b == present(new.jws, old.jws)
           e == present(new.expiresAt, old.expiresAt)
<1>2. a \in Strings /\ b \in Strings /\ e \in Strings
  BY <1>1, PresentType
<1>3. MergedInto(old, new) = [meta |-> a, jws |-> b, expiresAt |-> e]
  BY DEF MergedInto
<1> HIDE DEF a, b, e
<1>4. /\ MergedInto(old, new) \in Signature
      /\ MergedInto(old, new).meta = a /\ MergedInto(old, new).expiresAt = e
      /\ MergedInto(old, new).jws = b
  BY <1>2, <1>3 DEF Signature
<1> QED
  BY <1>4 DEF a, b, e

LEMMA SignatureIsJSON == Signature \subseteq SignedJSON
  BY DEF Signature, SignedJSON, Member

LEMMA ZeroSignatureType ==
  /\ ZeroSignature \in Signature
  /\ ZeroSignature.meta = NoText /\ ZeroSignature.expiresAt = NoText /\ ZeroSignature.jws = NoText
<1>1. NoText \in Strings
  BY SentinelsApart
<1> QED
  BY <1>1 DEF ZeroSignature, Signature

LEMMA SignatureMerged ==
  ASSUME NEW C, NEW m \in Manifest(C), NEW s \in Object
  PROVE  mergedSignature(m, s) \in Signature \cup {Absent}
<1>1. CASE s.signature = Absent
  BY <1>1 DEF mergedSignature, Manifest
<1>2. CASE s.signature = Null
  BY <1>2, SentinelsApart DEF mergedSignature
<1>3. CASE s.signature \notin {Absent, Null}
  <2> DEFINE old == IF m.signature = Absent THEN ZeroSignature ELSE m.signature
  <2>1. s.signature \in SignedJSON
    BY <1>3 DEF Object
  <2>2. old \in Signature
    BY ZeroSignatureType DEF Manifest
  <2>3. mergedSignature(m, s) = MergedInto(old, s.signature)
    BY <1>3 DEF mergedSignature, MergedInto
  <2> HIDE DEF old
  <2> QED
    BY <2>1, <2>2, <2>3, MergedIntoType
<1> QED
  BY <1>1, <1>2, <1>3

LEMMA MergedFields ==
  ASSUME NEW C, NEW m \in Manifest(C), NEW s \in Object
  PROVE  /\ merged(m, s) \in Manifest(C)
         /\ merged(m, s).body = present(s.body, m.body)
         /\ merged(m, s).optional = replaced(s.optional, m.optional)
         /\ merged(m, s).additional = replaced(s.additional, m.additional)
         /\ merged(m, s).signature = mergedSignature(m, s)
<1> DEFINE sig == mergedSignature(m, s)  b == present(s.body, m.body)
           o == replaced(s.optional, m.optional)  a == replaced(s.additional, m.additional)
<1>1. sig \in Signature \cup {Absent}
  BY SignatureMerged
<1>2. s # Null
  BY SentinelsApart
<1>3. b \in Strings
  BY PresentType DEF Object, Manifest
<1>4. o \in Bodies \cup {Absent}
  BY ReplacedType DEF Object, Manifest
<1>5. a \in Others \cup {Absent}
  <2>1. s.additional \in Others \cup {Absent, Null} /\ m.additional \in Others \cup {Absent}
    BY DEF Object, Manifest
  <2> QED
    BY <2>1, ReplacedType
<1>6. merged(m, s) = [m EXCEPT !.body = b, !.optional = o, !.additional = a, !.signature = sig]
  BY <1>2 DEF merged, Manifest
<1> HIDE DEF sig, b, o, a
<1>7. /\ merged(m, s) \in Manifest(C)
      /\ merged(m, s).body = b /\ merged(m, s).optional = o
      /\ merged(m, s).additional = a /\ merged(m, s).signature = sig
  BY <1>1, <1>3, <1>4, <1>5, <1>6 DEF Manifest
<1> QED
  BY <1>7 DEF sig, b, o, a

LEMMA ZeroIsManifest == \A C : Zero \in Manifest(C)
<1>1. NoText \in Strings
  BY SentinelsApart
<1> QED
  BY <1>1 DEF Zero, Manifest

LEMMA UnmarshalType ==
  ASSUME NEW C, NEW cell \in C, NEW m \in Manifest(C), NEW s \in JSON
  PROVE  /\ UnmarshalJSON(m, s, cell) \in Manifest(C)
         /\ UnmarshalJSON(m, s, cell).raw \in {Absent, cell}
         /\ UnmarshalJSON(m, s, cell).raw # Absent => m = Zero /\ s \in Object
<1>1. merged(m, s) \in Manifest(C)
  BY MergedFields DEF merged, JSON
<1>2. UnmarshalJSON(m, s, cell) =
        [merged(m, s) EXCEPT !.raw = IF m = Zero /\ s # Null THEN cell ELSE Absent]
  BY DEF UnmarshalJSON
<1> QED
  BY <1>1, <1>2 DEF Manifest, JSON

(* The signature that decoding gives an empty manifest. *)
NewSignature(new) == MergedInto(ZeroSignature, new)

LEMMA NewSignatureType ==
  ASSUME NEW new \in SignedJSON
  PROVE  /\ NewSignature(new) \in Signature /\ NewSignature(new) # Absent
         /\ NewSignature(new).meta = present(new.meta, NoText)
         /\ NewSignature(new).expiresAt = present(new.expiresAt, NoText)
         /\ NewSignature(new).jws = present(new.jws, NoText)
<1>1. NewSignature(new) \in Signature
  BY ZeroSignatureType, MergedIntoType DEF NewSignature
<1>2. NewSignature(new) # Absent
  BY <1>1, SignatureIsJSON, SentinelsApart
<1>3. /\ NewSignature(new).meta = present(new.meta, ZeroSignature.meta)
      /\ NewSignature(new).expiresAt = present(new.expiresAt, ZeroSignature.expiresAt)
      /\ NewSignature(new).jws = present(new.jws, ZeroSignature.jws)
  BY ZeroSignatureType, MergedIntoType DEF NewSignature
<1> QED
  BY <1>1, <1>2, <1>3, ZeroSignatureType

(* What is decoded from an object into an empty manifest.                  *)
LEMMA UnmarshalFresh ==
  ASSUME NEW C, NEW cell \in C, NEW s \in Object
  PROVE  LET m == UnmarshalJSON(Zero, s, cell) IN
         /\ m \in Manifest(C)
         /\ m.raw = cell
         /\ m.body = present(s.body, NoText)
         /\ m.optional = replaced(s.optional, Absent)
         /\ m.additional = s.additional
         /\ s.signature \in {Absent, Null} => m.signature = Absent
         /\ s.signature \notin {Absent, Null} =>
              /\ s.signature \in SignedJSON
              /\ m.signature = NewSignature(s.signature)
              /\ m.signature # Absent
<1> DEFINE m == UnmarshalJSON(Zero, s, cell)
<1>1. /\ merged(Zero, s) \in Manifest(C)
      /\ merged(Zero, s).body = present(s.body, NoText)
      /\ merged(Zero, s).optional = replaced(s.optional, Absent)
      /\ merged(Zero, s).additional = replaced(s.additional, Absent)
      /\ merged(Zero, s).signature = mergedSignature(Zero, s)
  <2>1. Zero.body = NoText /\ Zero.optional = Absent /\ Zero.additional = Absent
    BY DEF Zero
  <2> QED
    BY <2>1, MergedFields, ZeroIsManifest
<1>2. m = [merged(Zero, s) EXCEPT !.raw = cell]
  BY SentinelsApart DEF UnmarshalJSON
<1>3. /\ m \in Manifest(C) /\ m.raw = cell
      /\ m.body = present(s.body, NoText)
      /\ m.optional = replaced(s.optional, Absent)
      /\ m.additional = replaced(s.additional, Absent)
      /\ m.signature = mergedSignature(Zero, s)
  <2> HIDE DEF m
  <2> DEFINE g == merged(Zero, s)
  <2>1. g \in Manifest(C) /\ m = [g EXCEPT !.raw = cell]
    BY <1>1, <1>2
  <2>2. /\ m \in Manifest(C) /\ m.raw = cell /\ m.body = g.body /\ m.optional = g.optional
        /\ m.additional = g.additional /\ m.signature = g.signature
    <3> HIDE DEF g
    <3> QED
      BY <2>1 DEF Manifest
  <2> QED
    BY <1>1, <2>2
<1> HIDE DEF m
<1>4. m.additional = s.additional
  <2>1. s.additional # Null
    BY SentinelsApart DEF Object
  <2> QED
    BY <1>3, <2>1 DEF replaced
<1>5. s.signature \in {Absent, Null} => m.signature = Absent
  BY <1>3 DEF mergedSignature, Zero
<1>6. ASSUME s.signature \notin {Absent, Null}
      PROVE  /\ s.signature \in SignedJSON
             /\ m.signature = NewSignature(s.signature)
             /\ m.signature # Absent
  <2>1. s.signature \in SignedJSON
    BY <1>6 DEF Object
  <2>2. Zero.signature = Absent
    BY DEF Zero
  <2>3. m.signature = NewSignature(s.signature)
    BY <1>3, <1>6, <2>2 DEF mergedSignature, NewSignature, MergedInto
  <2> QED
    BY <2>1, <2>3, NewSignatureType
<1> QED
  BY <1>3, <1>4, <1>5, <1>6 DEF m

(* The signature that serializing writes. *)
Written(sig) == [meta |-> sig.meta, expiresAt |-> omitempty(sig.expiresAt), jws |-> sig.jws]

LEMMA WrittenType ==
  ASSUME NEW sig \in Signature
  PROVE  /\ Written(sig) \in SignedJSON /\ Written(sig) \notin {Absent, Null}
         /\ Written(sig).meta = sig.meta /\ Written(sig).jws = sig.jws
         /\ Written(sig).expiresAt = omitempty(sig.expiresAt)
         /\ omitempty(sig.expiresAt) \notin {NoText, Null}
         /\ present(omitempty(sig.expiresAt), NoText) = sig.expiresAt
         /\ sig.meta \notin {Absent, Null} /\ sig.jws \notin {Absent, Null}
         /\ NewSignature(Written(sig)) = sig
<1>1. sig.meta \in Strings /\ sig.expiresAt \in Strings /\ sig.jws \in Strings
  BY DEF Signature
<1> DEFINE e == omitempty(sig.expiresAt)
<1>2. /\ e \in Strings \cup {Absent} /\ e \notin {NoText, Null}
      /\ present(e, NoText) = sig.expiresAt
  BY <1>1, SentinelsApart DEF omitempty, present
<1>3. Written(sig) = [meta |-> sig.meta, expiresAt |-> e, jws |-> sig.jws]
  BY DEF Written
<1> HIDE DEF e
<1>4. /\ Written(sig) \in SignedJSON /\ Written(sig).meta = sig.meta
      /\ Written(sig).jws = sig.jws /\ Written(sig).expiresAt = e
  BY <1>1, <1>2, <1>3 DEF SignedJSON, Member
<1>5. /\ Written(sig) \notin {Absent, Null}
      /\ sig.meta \notin {Absent, Null} /\ sig.jws \notin {Absent, Null}
  BY <1>1, <1>4, SentinelsApart
<1>6. NewSignature(Written(sig)) = sig
  <2> DEFINE n == NewSignature(Written(sig))
  <2>1. /\ n \in Signature
        /\ n.meta = present(sig.meta, NoText)
        /\ n.expiresAt = present(e, NoText)
        /\ n.jws = present(sig.jws, NoText)
    BY <1>4, NewSignatureType
  <2> HIDE DEF n
  <2>2. n.meta = sig.meta /\ n.expiresAt = sig.expiresAt /\ n.jws = sig.jws
    BY <1>2, <1>5, <2>1 DEF present
  <2>3. n = sig
    BY <2>1, <2>2 DEF Signature
  <2> QED
    BY <2>3 DEF n
<1> QED
  BY <1>2, <1>4, <1>5, <1>6 DEF e

LEMMA MarshalFields ==
  ASSUME NEW C, NEW m \in Manifest(C)
  PROVE  LET s == Marshal(m) IN
         /\ s \in Object /\ s.duplicate = FALSE /\ s.future = Absent
         /\ s.body = m.body /\ s.optional = m.optional /\ s.additional = m.additional
         /\ m.body \notin {Absent, Null} /\ m.optional # Null
         /\ m.signature = Absent => s.signature = Absent
         /\ m.signature # Absent => m.signature \in Signature /\ s.signature = Written(m.signature)
<1> DEFINE s == Marshal(m)
           sig == IF m.signature = Absent THEN Absent
                  ELSE [m.signature EXCEPT !.expiresAt = omitempty(@)]
<1>1. /\ m.body \in Strings /\ m.optional \in Bodies \cup {Absent}
      /\ m.additional \in Others \cup {Absent} /\ m.signature \in Signature \cup {Absent}
  BY DEF Manifest
<1>2. ASSUME m.signature # Absent PROVE m.signature \in Signature /\ sig = Written(m.signature)
  <2>1. m.signature \in Signature
    BY <1>1, <1>2
  <2>2. [m.signature EXCEPT !.expiresAt = omitempty(@)] = Written(m.signature)
    <3> DEFINE w == omitempty(m.signature.expiresAt)
    <3>1. [m.signature EXCEPT !.expiresAt = w] =
            [meta |-> m.signature.meta, expiresAt |-> w, jws |-> m.signature.jws]
      <4> HIDE DEF w
      <4> QED
        BY <2>1 DEF Signature
    <3> QED
      BY <2>1, <3>1 DEF Written, Signature
  <2> QED
    BY <1>2, <2>1, <2>2
<1>3. sig \in SignedJSON \cup {Absent, Null}
  BY <1>1, <1>2, WrittenType
<1>4. m.signature = Absent => sig = Absent
  OBVIOUS
<1>5. s = [body |-> m.body, optional |-> m.optional, future |-> Absent, signature |-> sig,
           additional |-> m.additional, duplicate |-> FALSE]
  BY DEF Marshal
<1> HIDE DEF s, sig
<1>6. /\ s \in Object /\ s.duplicate = FALSE /\ s.future = Absent /\ s.signature = sig
      /\ s.body = m.body /\ s.optional = m.optional /\ s.additional = m.additional
  BY <1>1, <1>3, <1>5 DEF Object, Member
<1>7. m.body \notin {Absent, Null} /\ m.optional # Null
  BY <1>1, SentinelsApart
<1> QED
  BY <1>2, <1>4, <1>6, <1>7 DEF s

(* Serializing a manifest and parsing that gives its fields back.          *)
LEMMA MarshalRoundTrip ==
  ASSUME NEW C, NEW m \in Manifest(C), NEW cell \in C
  PROVE  LET n == UnmarshalJSON(Zero, Marshal(m), cell) IN
         /\ n \in Manifest(C) /\ n.raw = cell
         /\ n.body = m.body /\ n.optional = m.optional
         /\ n.signature = m.signature /\ n.additional = m.additional
<1> DEFINE s == Marshal(m)
           n == UnmarshalJSON(Zero, s, cell)
<1>1. /\ s \in Object
      /\ s.body = m.body /\ s.optional = m.optional /\ s.additional = m.additional
      /\ m.body \notin {Absent, Null} /\ m.optional # Null
      /\ m.signature = Absent => s.signature = Absent
      /\ m.signature # Absent => m.signature \in Signature /\ s.signature = Written(m.signature)
  BY MarshalFields
<1> HIDE DEF s
<1>2. /\ n \in Manifest(C) /\ n.raw = cell
      /\ n.body = present(s.body, NoText) /\ n.optional = replaced(s.optional, Absent)
      /\ n.additional = s.additional
      /\ s.signature \in {Absent, Null} => n.signature = Absent
      /\ s.signature \notin {Absent, Null} => n.signature = NewSignature(s.signature)
  BY <1>1, UnmarshalFresh
<1> HIDE DEF n
<1>3. n.body = m.body
  BY <1>1, <1>2 DEF present
<1>4. n.optional = m.optional
  BY <1>1, <1>2 DEF replaced
<1>5. n.signature = m.signature
  <2>1. CASE m.signature = Absent
    BY <1>1, <1>2, <2>1
  <2>2. CASE m.signature # Absent
    <3>1. m.signature \in Signature /\ s.signature = Written(m.signature)
      BY <1>1, <2>2
    <3>2. s.signature \notin {Absent, Null} /\ NewSignature(s.signature) = m.signature
      BY <3>1, WrittenType
    <3> QED
      BY <1>2, <3>2
  <2> QED
    BY <2>1, <2>2
<1> QED
  BY <1>1, <1>2, <1>3, <1>4, <1>5 DEF n, s

-----------------------------------------------------------------------------
(* The payload of a signature.                                             *)

(* The members of a signature that are signed.                             *)
Unsealed(q) == [meta |-> q.meta, expiresAt |-> q.expiresAt, jws |-> Absent]

LEMMA UnsealedType ==
  ASSUME NEW q \in SignedJSON
  PROVE  /\ Unsealed(q) \in SignedJSON /\ [q EXCEPT !.jws = Absent] = Unsealed(q)
         /\ Unsealed(q).meta = q.meta /\ Unsealed(q).expiresAt = q.expiresAt
         /\ Unsealed(q).jws = Absent
<1>1. [q EXCEPT !.jws = Absent] = Unsealed(q)
  BY DEF SignedJSON, Unsealed
<1>2. q.meta \in Member /\ q.expiresAt \in Member /\ Absent \in Member
  BY DEF SignedJSON, Member
<1> QED
  BY <1>1, <1>2 DEF SignedJSON, Unsealed

LEMMA CanonicalFields ==
  ASSUME NEW s \in Object, s.duplicate = FALSE
  PROVE  LET p == CanonicalizeForSignature(s) IN
         /\ p \in Object /\ p # Error
         /\ p.body = s.body /\ p.optional = s.optional /\ p.future = s.future
         /\ p.additional = Absent /\ p.duplicate = FALSE
         /\ s.signature \in {Absent, Null} => p.signature = s.signature
         /\ s.signature \notin {Absent, Null} =>
              s.signature \in SignedJSON /\ p.signature = Unsealed(s.signature)
<1> DEFINE sig == IF s.signature \in {Absent, Null} THEN s.signature
                  ELSE [s.signature EXCEPT !.jws = Absent]
           p == [s EXCEPT !.additional = Absent, !.signature = sig]
<1>1. CanonicalizeForSignature(s) = p
  BY DEF CanonicalizeForSignature, Object
<1>2. ASSUME s.signature \notin {Absent, Null}
      PROVE  s.signature \in SignedJSON /\ sig = Unsealed(s.signature) /\ sig \in SignedJSON
  <2>1. s.signature \in SignedJSON
    BY <1>2 DEF Object
  <2> QED
    BY <1>2, <2>1, UnsealedType
<1>3. sig \in SignedJSON \cup {Absent, Null}
  BY <1>2
<1>4. s.signature \in {Absent, Null} => sig = s.signature
  OBVIOUS
<1> HIDE DEF sig
<1>5. /\ p \in Object /\ p.body = s.body /\ p.optional = s.optional /\ p.future = s.future
      /\ p.additional = Absent /\ p.duplicate = FALSE /\ p.signature = sig
  BY <1>3 DEF Object
<1>6. p # Error
  BY <1>5, SentinelsApart
<1> HIDE DEF p
<1> QED
  BY <1>1, <1>2, <1>4, <1>5, <1>6

LEMMA CanonicalType ==
  ASSUME NEW s \in Object, CanonicalizeForSignature(s) # Error
  PROVE  s.duplicate = FALSE /\ CanonicalizeForSignature(s) \in Object
<1>1. s.duplicate = FALSE
  BY DEF CanonicalizeForSignature, Object
<1> QED
  BY <1>1, CanonicalFields

(* A payload is that of the serialization, or of the bytes decoded.        *)
LEMMA PayloadCases ==
  ASSUME NEW C, NEW m \in Manifest(C), NEW content
  PROVE  \/ CanonicalizeTrustManifest(m, content) = CanonicalizeForSignature(Marshal(m))
         \/ /\ CanonicalizeTrustManifest(m, content) = CanonicalizeForSignature(content)
            /\ content \in Object /\ m.raw # Absent
            /\ m = UnmarshalJSON(Zero, content, m.raw)
<1>1. CASE decodedBytes(m, content) = Absent
  BY <1>1 DEF CanonicalizeTrustManifest
<1>2. CASE decodedBytes(m, content) # Absent
  <2>1. /\ content \in Object /\ m.raw # Absent /\ m = UnmarshalJSON(Zero, content, m.raw)
        /\ decodedBytes(m, content) = content
    BY <1>2 DEF decodedBytes
  <2> QED
    BY <1>2, <2>1 DEF CanonicalizeTrustManifest
<1> QED
  BY <1>1, <1>2

LEMMA PayloadOfBytes ==
  ASSUME NEW C, NEW cell \in C, cell # Absent, NEW content \in Object
  PROVE  CanonicalizeTrustManifest(UnmarshalJSON(Zero, content, cell), content)
           = CanonicalizeForSignature(content)
<1> DEFINE m == UnmarshalJSON(Zero, content, cell)
<1>1. m.raw = cell
  BY UnmarshalFresh
<1>2. decodedBytes(m, content) = content
  BY <1>1 DEF decodedBytes
<1> QED
  BY <1>2, SentinelsApart DEF CanonicalizeTrustManifest

(* The payload of a manifest with a signature, if serializing gives it.    *)
SealedPayload(m) ==
  [body |-> m.body, optional |-> m.optional, future |-> Absent, additional |-> Absent,
   duplicate |-> FALSE, signature |-> Unsealed(Written(m.signature))]

(* A payload and a manifest agree, up to what is empty.                    *)
Current(p, m) ==
  /\ Says(p.body, m.body, NoText)
  /\ Says(p.optional, m.optional, Absent)
  /\ IF m.signature = Absent THEN p.signature \in {Absent, Null}
     ELSE /\ Says(p.signature.meta, m.signature.meta, NoText)
          /\ Says(p.signature.expiresAt, m.signature.expiresAt, NoText)
          /\ p.signature.jws = Absent

LEMMA MarshalPayload ==
  ASSUME NEW C, NEW m \in Manifest(C)
  PROVE  LET p == CanonicalizeForSignature(Marshal(m)) IN
         /\ p \in Object /\ p # Error /\ Current(p, m)
         /\ m.signature # Absent => p = SealedPayload(m)
<1> DEFINE s == Marshal(m)
           p == CanonicalizeForSignature(s)
<1>1. /\ s \in Object /\ s.duplicate = FALSE /\ s.future = Absent
      /\ s.body = m.body /\ s.optional = m.optional
      /\ m.signature = Absent => s.signature = Absent
      /\ m.signature # Absent => m.signature \in Signature /\ s.signature = Written(m.signature)
  BY MarshalFields
<1> HIDE DEF s
<1>2. /\ p \in Object /\ p # Error
      /\ p.body = s.body /\ p.optional = s.optional /\ p.future = s.future
      /\ p.additional = Absent /\ p.duplicate = FALSE
      /\ s.signature \in {Absent, Null} => p.signature = s.signature
      /\ s.signature \notin {Absent, Null} => p.signature = Unsealed(s.signature)
  BY <1>1, CanonicalFields
<1> HIDE DEF p
<1>3. ASSUME m.signature # Absent
      PROVE  /\ p = SealedPayload(m)
             /\ Says(p.signature.meta, m.signature.meta, NoText)
             /\ Says(p.signature.expiresAt, m.signature.expiresAt, NoText)
             /\ p.signature.jws = Absent
  <2> DEFINE w == Written(m.signature)
  <2>1. /\ m.signature \in Signature /\ s.signature = w
        /\ w \in SignedJSON /\ w \notin {Absent, Null}
        /\ w.meta = m.signature.meta /\ w.expiresAt = omitempty(m.signature.expiresAt)
    BY <1>1, <1>3, WrittenType
  <2> HIDE DEF w
  <2>2. /\ p.signature = Unsealed(w) /\ p.signature.meta = w.meta
        /\ p.signature.expiresAt = w.expiresAt /\ p.signature.jws = Absent
    BY <1>2, <2>1, UnsealedType
  <2>3. p = SealedPayload(m)
    BY <1>1, <1>2, <2>2 DEF SealedPayload, Object, w
  <2>4. Says(p.signature.meta, m.signature.meta, NoText)
    BY <2>1, <2>2 DEF Says
  <2>5. Says(p.signature.expiresAt, m.signature.expiresAt, NoText)
    BY <2>1, <2>2 DEF Says, omitempty
  <2> QED
    BY <2>2, <2>3, <2>4, <2>5
<1>4. m.signature = Absent => p.signature \in {Absent, Null}
  BY <1>1, <1>2
<1>5. Current(p, m)
  BY <1>1, <1>2, <1>3, <1>4 DEF Current, Says
<1> QED
  BY <1>2, <1>3, <1>5 DEF p, s

(* The same, of bytes that serializing gives back.                         *)
LEMMA BytesPayload ==
  ASSUME NEW C, NEW cell \in C, NEW s \in Object, s.duplicate = FALSE
  PROVE  LET m == UnmarshalJSON(Zero, s, cell)
             p == CanonicalizeForSignature(s)
         IN  /\ Current(p, m)
             /\ m.signature # Absent =>
                  /\ GivenBack(p) <=> GivenBack(s)
                  /\ GivenBack(p) => p = SealedPayload(m)
<1> DEFINE m == UnmarshalJSON(Zero, s, cell)
           p == CanonicalizeForSignature(s)
<1>1. /\ m.body = present(s.body, NoText) /\ m.optional = replaced(s.optional, Absent)
      /\ s.signature \in {Absent, Null} => m.signature = Absent
      /\ s.signature \notin {Absent, Null} =>
           /\ s.signature \in SignedJSON
           /\ m.signature = NewSignature(s.signature)
           /\ m.signature # Absent
  BY UnmarshalFresh
<1>2. /\ p \in Object
      /\ p.body = s.body /\ p.optional = s.optional /\ p.future = s.future
      /\ p.additional = Absent /\ p.duplicate = FALSE
      /\ s.signature \in {Absent, Null} => p.signature = s.signature
      /\ s.signature \notin {Absent, Null} => p.signature = Unsealed(s.signature)
  BY CanonicalFields
<1> HIDE DEF m, p
<1>3. Says(p.body, m.body, NoText)
  BY <1>1, <1>2 DEF present, Says
<1>4. Says(p.optional, m.optional, Absent)
  BY <1>1, <1>2 DEF replaced, Says
<1>5. CASE s.signature \in {Absent, Null}
  <2>1. m.signature = Absent /\ p.signature \in {Absent, Null}
    BY <1>1, <1>2, <1>5
  <2>2. Current(p, m)
    BY <1>3, <1>4, <2>1 DEF Current
  <2> QED
    BY <2>1, <2>2 DEF m, p
<1>6. CASE s.signature \notin {Absent, Null}
  <2> DEFINE q == s.signature
  <2>1. q \in SignedJSON /\ m.signature = NewSignature(q) /\ m.signature # Absent
    BY <1>1, <1>6
  <2>2. p.signature = Unsealed(q)
    BY <1>2, <1>6
  <2> HIDE DEF q
  <2>3. /\ m.signature \in Signature
        /\ m.signature.meta = present(q.meta, NoText)
        /\ m.signature.expiresAt = present(q.expiresAt, NoText)
    BY <2>1, NewSignatureType
  <2>4. /\ p.signature.meta = q.meta /\ p.signature.expiresAt = q.expiresAt
        /\ p.signature.jws = Absent
    BY <2>1, <2>2, UnsealedType
  <2>5. Says(p.signature.meta, m.signature.meta, NoText)
    BY <2>3, <2>4 DEF Says, present
  <2>6. Says(p.signature.expiresAt, m.signature.expiresAt, NoText)
    BY <2>3, <2>4 DEF Says, present
  <2>7. Current(p, m)
    BY <1>3, <1>4, <2>1, <2>4, <2>5, <2>6 DEF Current
  <2>8. GivenBack(p) <=> GivenBack(s)
    BY <1>2, <2>4 DEF GivenBack, q
  <2>9. ASSUME GivenBack(p) PROVE p = SealedPayload(m)
    <3>1. /\ p.future = Absent /\ p.body \notin {Absent, Null} /\ p.optional # Null
          /\ q.meta \notin {Absent, Null} /\ q.expiresAt \notin {NoText, Null}
      BY <2>4, <2>9 DEF GivenBack
    <3>2. p.body = m.body
      BY <1>1, <1>2, <3>1 DEF present
    <3>3. p.optional = m.optional
      BY <1>1, <1>2, <3>1 DEF replaced
    <3>4. m.signature.meta = q.meta
      BY <2>3, <3>1 DEF present
    <3>5. omitempty(m.signature.expiresAt) = q.expiresAt
      BY <2>3, <3>1 DEF present, omitempty
    <3>6. /\ Written(m.signature).meta = q.meta
          /\ Written(m.signature).expiresAt = q.expiresAt
      BY <2>3, <3>4, <3>5, WrittenType
    <3>7. p.signature = Unsealed(Written(m.signature))
      BY <2>2, <3>6 DEF Unsealed
    <3> QED
      BY <1>2, <3>1, <3>2, <3>3, <3>7 DEF SealedPayload, Object
  <2> QED
    BY <2>7, <2>8, <2>9 DEF m, p
<1> QED
  BY <1>5, <1>6

-----------------------------------------------------------------------------
(* What the decoding of a document does.                                   *)

LEMMA DecodedSteps ==
  ASSUME NEW C, NEW cell \in C, NEW text \in Seq(JSON)
  PROVE  LET f == Decoded(text, cell) IN
         /\ f \in [0..Len(text) -> Manifest(C)]
         /\ f[0] = Zero
         /\ \A n \in 1..Len(text) : f[n] = UnmarshalJSON(f[n - 1], text[n], cell)
<1> DEFINE N == Len(text)
           M == Manifest(C)
           step == [p \in M \X (1..N) |-> UnmarshalJSON(p[1], text[p[2]], cell)]
           Equation(f) == f = [n \in 0..N |-> IF n = 0 THEN Zero
                                              ELSE UnmarshalJSON(f[n - 1], text[n], cell)]
<1>1. N \in Nat /\ \A n \in 1..N : text[n] \in JSON
  OBVIOUS
<1>2. \A v \in M, k \in 1..N : step[<<v, k>>] = UnmarshalJSON(v, text[k], cell)
  OBVIOUS
<1>3. StaysIn(step, M, N)
  <2>1. \A v \in M, k \in 1..N : step[<<v, k>>] \in M
    BY <1>1, <1>2, UnmarshalType
  <2> HIDE DEF step, M, N
  <2> QED
    BY <2>1 DEF StaysIn
<1> HIDE DEF step, M, N
<1>4. Zero \in M
  BY ZeroIsManifest DEF M
<1>5. PICK f \in [0..N -> M] : f[0] = Zero /\ \A k \in 1..N : f[k] = step[<<f[k - 1], k>>]
  <2>1. \E f \in [0..N -> M] : IsRecursion(f, Zero, N, step)
    BY <1>1, <1>3, <1>4, RecursionExists
  <2> QED
    BY <2>1 DEF IsRecursion
<1>6. \A k \in 1..N : f[k] = UnmarshalJSON(f[k - 1], text[k], cell)
  <2> SUFFICES ASSUME NEW k \in 1..N PROVE f[k] = UnmarshalJSON(f[k - 1], text[k], cell)
    OBVIOUS
  <2>1. f[k - 1] \in M
    BY <1>1, <1>5
  <2> QED
    BY <1>2, <1>5, <2>1
<1>7. Equation(f)
  BY <1>1, <1>5, <1>6
<1> DEFINE g == Decoded(text, cell)
<1>8. g = CHOOSE h : Equation(h)
  BY DEF Decoded, N
<1> HIDE DEF g
<1>9. Equation(g)
  BY <1>7, <1>8
<1>10. /\ g = [n \in 0..N |-> g[n]] /\ g[0] = Zero
       /\ \A n \in 1..N : g[n] = UnmarshalJSON(g[n - 1], text[n], cell)
  <2>1. g = [n \in 0..N |-> IF n = 0 THEN Zero ELSE UnmarshalJSON(g[n - 1], text[n], cell)]
    BY <1>9
  <2>2. g = [n \in 0..N |-> g[n]]
    BY <2>1
  <2>3. 0 \in 0..N /\ \A n \in 1..N : n \in 0..N /\ n # 0
    BY <1>1
  <2>4. g[0] = Zero
    BY <2>1, <2>3
  <2>5. \A n \in 1..N : g[n] = UnmarshalJSON(g[n - 1], text[n], cell)
    BY <2>1, <2>3
  <2> QED
    BY <2>2, <2>4, <2>5
<1> DEFINE T == {n \in Nat : n <= N => g[n] \in M}
<1>11. 0 \in T
  BY <1>4, <1>10
<1>12. ASSUME NEW n \in Nat, n \in T PROVE n + 1 \in T
  <2> SUFFICES ASSUME n + 1 <= N PROVE g[n + 1] \in M
    OBVIOUS
  <2>1. n + 1 \in 1..N /\ (n + 1) - 1 = n /\ g[n] \in M
    BY <1>1, <1>12
  <2>2. g[n + 1] = UnmarshalJSON(g[n], text[n + 1], cell)
    BY <1>10, <2>1
  <2>3. text[n + 1] \in JSON
    BY <1>1, <2>1
  <2> QED
    BY <2>1, <2>2, <2>3, UnmarshalType DEF M
<1> HIDE DEF T
<1>13. \A n \in Nat : n \in T
  BY <1>11, <1>12, Induction
<1>14. \A n \in 0..N : g[n] \in M
  BY <1>1, <1>13 DEF T
<1>15. g \in [0..N -> M]
  BY <1>10, <1>14
<1> QED
  BY <1>10, <1>15 DEF g, N, M

(* The manifest of a document is empty, or was decoded from a last part of *)
(* its occurrences, the first of them into an empty manifest.              *)
LEMMA DecodingsKept ==
  ASSUME NEW C, NEW cell \in C, NEW text \in Seq(JSON), cell # Absent
  PROVE  LET f == Decoded(text, cell)
             m == f[Len(text)]
             history == Decodings(text, cell)
         IN  /\ m \in Manifest(C) /\ m.raw \in {Absent, cell}
             /\ history \in Seq(JSON)
             /\ m # Zero => history # <<>>
             /\ Len(history) = 1 => m = UnmarshalJSON(Zero, history[1], cell)
             /\ m.raw # Absent => /\ Len(history) = 1 /\ history[1] \in Object
                                  /\ \E k \in DOMAIN text : history[1] = text[k]
<1> DEFINE f == Decoded(text, cell)
           N == Len(text)
           empty == {n \in 0..N : f[n] = Zero}
           last == CHOOSE n \in empty : \A k \in empty : k <= n
           history == Decodings(text, cell)
<1>1. /\ N \in Nat
      /\ f \in [0..N -> Manifest(C)] /\ f[0] = Zero
      /\ \A n \in 1..N : f[n] = UnmarshalJSON(f[n - 1], text[n], cell)
  BY DecodedSteps
<1>2. \A n \in 1..N : text[n] \in JSON
  OBVIOUS
<1>3. history = SubSeq(text, last + 1, N)
  BY DEF Decodings
<1> HIDE DEF f, history
<1>4. last \in empty /\ \A k \in empty : k <= last
  <2>1. \E n \in empty : \A k \in empty : k <= n
    <3> DEFINE T == {n \in Nat : n <= N /\ f[N - n] = Zero}
    <3>1. T \subseteq Nat /\ N \in T
      BY <1>1
    <3>2. PICK n \in T : \A k \in T : n <= k
      BY <3>1, LeastOfNaturals
    <3>3. N - n \in empty
      BY <1>1, <3>2
    <3>4. ASSUME NEW k \in empty PROVE k <= N - n
      <4>1. N - k \in Nat /\ N - (N - k) = k /\ f[k] = Zero
        BY <1>1, <3>4
      <4>2. N - k \in T
        BY <1>1, <4>1
      <4>3. n <= N - k /\ n \in Nat /\ k \in Nat
        BY <3>2, <4>2
      <4> QED
        BY <1>1, <4>3
    <3> QED
      BY <3>3, <3>4
  <2> QED
    BY <2>1
<1> HIDE DEF last
<1>5. last \in 0..N /\ f[last] = Zero /\ \A k \in 0..N : f[k] = Zero => k <= last
  BY <1>4
<1> HIDE DEF empty, N
<1>6. /\ history \in Seq(JSON)
      /\ Len(history) = N - last
      /\ N # last => Len(history) >= 1 /\ history[1] = text[last + 1]
  BY <1>1, <1>3, <1>5, SubSeqProperties DEF N
<1>7. f[N] \in Manifest(C) /\ f[N].raw \in {Absent, cell}
  <2>1. CASE N = 0
    BY <1>1, <2>1 DEF Zero
  <2>2. CASE N # 0
    <3>1. N \in 1..N /\ f[N - 1] \in Manifest(C)
      BY <1>1, <2>2
    <3>2. f[N] = UnmarshalJSON(f[N - 1], text[N], cell) /\ text[N] \in JSON
      BY <1>1, <1>2, <3>1
    <3> QED
      BY <3>1, <3>2, UnmarshalType
  <2> QED
    BY <2>1, <2>2
<1>8. f[N] # Zero => history # <<>>
  <2> SUFFICES ASSUME f[N] # Zero PROVE Len(history) # 0
    OBVIOUS
  <2> QED
    BY <1>1, <1>5, <1>6
<1>9. Len(history) = 1 => f[N] = UnmarshalJSON(Zero, history[1], cell)
  <2> SUFFICES ASSUME Len(history) = 1 PROVE f[N] = UnmarshalJSON(Zero, history[1], cell)
    OBVIOUS
  <2>0. last \in Nat /\ last <= N /\ N - last = 1
    <3>1. N \in Nat /\ last \in 0..N
      BY <1>1, <1>5
    <3>2. N - last = 1
      BY <1>6
    <3> QED
      BY <3>1, <3>2
  <2>1. N \in 1..N /\ N - 1 = last /\ last + 1 = N /\ history[1] = text[N]
    BY <1>1, <1>6, <2>0
  <2> QED
    BY <1>1, <1>5, <2>1
<1>10. ASSUME f[N].raw # Absent
       PROVE  Len(history) = 1 /\ history[1] \in Object /\ \E k \in DOMAIN text : history[1] = text[k]
  <2>1. N # 0
    BY <1>1, <1>10 DEF Zero
  <2>2. N \in 1..N /\ N - 1 \in 0..N /\ f[N - 1] \in Manifest(C)
    BY <1>1, <2>1
  <2>3. f[N - 1] = Zero /\ text[N] \in Object
    BY <1>1, <1>2, <1>10, <2>2, UnmarshalType
  <2>4. f[N] # Zero
    BY <1>10 DEF Zero
  <2>5. last = N - 1
    BY <1>1, <1>5, <2>2, <2>3, <2>4
  <2>6. Len(history) = 1 /\ history[1] = text[N]
    BY <1>1, <1>6, <2>1, <2>5
  <2> QED
    BY <2>2, <2>3, <2>6 DEF N
<1> QED
  BY <1>6, <1>7, <1>8, <1>9, <1>10 DEF f, N, history

-----------------------------------------------------------------------------
(* The inductive invariant.                                                *)

(* A source is what fetching gave, and failed only if that gave no catalog. *)
SourceIsFetched ==
  LET fails == FetchFails(served) \/ ~Parses(Fetched(served))
  IN  /\ source = Failed => fails
      /\ source = SourceCell => ~fails /\ memory[SourceCell] = Fetched(served)

(* The bytes of a manifest are an object.  If they have a signature that    *)
(* was made here, serializing wrote them, and gives them back.              *)
Complete(s) ==
  /\ s \in Object
  /\ Foreign(s) \/ (GivenBack(s) /\ s.duplicate = FALSE)

PayloadOf(m, x) == CanonicalizeTrustManifest(m, IF m.raw = Absent THEN Absent ELSE x)

(* A caller's manifest m, the bytes x in its own memory, the history h of m *)
(* and the payload p it was signed for agree.                               *)
Agree(c, m, x, h, p) ==
  /\ m.raw \in {Absent, RawOf(c)}
  /\ m.raw # Absent => /\ Complete(x)
                       /\ h # <<>> /\ h[1] = x
                       /\ \A k \in DOMAIN h : k > 1 => h[k] = Changed
  /\ h = <<>> <=> m = Zero
  /\ Len(h) = 1 /\ h[1] # Changed =>
       m.raw = RawOf(c) /\ x = h[1] /\ m = UnmarshalJSON(Zero, h[1], RawOf(c))
  /\ p # Absent =>
       /\ m.signature # Absent
       /\ GivenBack(p) => p = SealedPayload(m) /\ p = PayloadOf(m, x)

CallerAgrees(c) == Agree(c, manifest[c], memory[RawOf(c)], made[c], signed[c])

IInv ==
  /\ TypeOK
  /\ SourceIsFetched
  /\ \A c \in Callers : bytes[c] \in {Absent, BytesOf(c)}
  /\ \A c \in Callers : CallerAgrees(c)

-----------------------------------------------------------------------------
(* A caller changes what it has, in memory of its own, and no more.        *)

LEMMA CellsApart ==
  ASSUME NEW c \in Callers
  PROVE  /\ SourceCell \in Cells /\ RawOf(c) \in Cells /\ BytesOf(c) \in Cells
         /\ RawOf(c) # SourceCell /\ BytesOf(c) # SourceCell /\ RawOf(c) # BytesOf(c)
         /\ RawOf(c) # Absent /\ BytesOf(c) # Absent /\ SourceCell # Absent
         /\ SourceCell # Failed /\ Absent # Failed
         /\ \A d \in Callers \ {c} : /\ RawOf(d) \in Cells /\ BytesOf(d) \in Cells
                                     /\ {RawOf(d), BytesOf(d)} \cap {RawOf(c), BytesOf(c)} = {}
<1>1. SourceCell \in Cells /\ RawOf(c) \in Cells /\ BytesOf(c) \in Cells
  BY DEF Cells, RawOf, BytesOf
<1>2. RawOf(c) # SourceCell /\ BytesOf(c) # SourceCell /\ RawOf(c) # BytesOf(c)
  BY SourceAssumption DEF RawOf, BytesOf, SourceCell
<1>3. \A d \in Callers \ {c} : /\ RawOf(d) \in Cells /\ BytesOf(d) \in Cells
                               /\ {RawOf(d), BytesOf(d)} \cap {RawOf(c), BytesOf(c)} = {}
  BY DEF Cells, RawOf, BytesOf
<1> QED
  BY <1>1, <1>2, <1>3, SourceAssumption

Contents == Document \cup JSON \cup {Garbage}

LEMMA MemoryWritten ==
  ASSUME TypeOK, NEW x \in Cells, NEW v \in Contents,
         memory' = [memory EXCEPT ![x] = v]
  PROVE  /\ DOMAIN memory' = Cells
         /\ \A y \in Cells : memory'[y] \in Contents
         /\ memory'[x] = v
         /\ \A y \in Cells \ {x} : memory'[y] = memory[y]
  BY DEF TypeOK, Contents

LEMMA HasManifest ==
  ASSUME TypeOK, NEW c \in Callers, NEW m \in Manifest(Cells),
         NEW h \in Seq(JSON \cup {Changed}), Has(c, m, h)
  PROVE  /\ manifest' \in [Callers -> Manifest(Cells)]
         /\ made' \in [Callers -> Seq(JSON \cup {Changed})]
         /\ manifest'[c] = m /\ made'[c] = IF m = Zero THEN <<>> ELSE h
         /\ \A d \in Callers \ {c} : manifest'[d] = manifest[d] /\ made'[d] = made[d]
<1> DEFINE k == IF m = Zero THEN <<>> ELSE h
<1>1. k \in Seq(JSON \cup {Changed})
  OBVIOUS
<1>2. manifest' = [manifest EXCEPT ![c] = m] /\ made' = [made EXCEPT ![c] = k]
  BY DEF Has
<1>3. manifest \in [Callers -> Manifest(Cells)] /\ made \in [Callers -> Seq(JSON \cup {Changed})]
  BY DEF TypeOK
<1> HIDE DEF k
<1>4. /\ manifest' \in [Callers -> Manifest(Cells)] /\ manifest'[c] = m
      /\ \A d \in Callers \ {c} : manifest'[d] = manifest[d]
  BY <1>2, <1>3
<1>5. /\ made' \in [Callers -> Seq(JSON \cup {Changed})] /\ made'[c] = k
      /\ \A d \in Callers \ {c} : made'[d] = made[d]
  BY <1>1, <1>2, <1>3
<1> QED
  BY <1>4, <1>5 DEF k

(* What the other callers have, and what the source has, is as it was.     *)
Apart(c) ==
  /\ served' = served /\ source' = source /\ memory'[SourceCell] = memory[SourceCell]
  /\ \A d \in Callers \ {c} :
       /\ manifest'[d] = manifest[d] /\ made'[d] = made[d]
       /\ signed'[d] = signed[d] /\ bytes'[d] = bytes[d]
       /\ memory'[RawOf(d)] = memory[RawOf(d)] /\ memory'[BytesOf(d)] = memory[BytesOf(d)]

LEMMA ApartPreserves ==
  ASSUME IInv, NEW c \in Callers, Apart(c), TypeOK',
         bytes'[c] \in {Absent, BytesOf(c)},
         Agree(c, manifest'[c], memory'[RawOf(c)], made'[c], signed'[c])
  PROVE  IInv'
<1>1. SourceIsFetched'
  BY DEF IInv, SourceIsFetched, Apart
<1>2. \A d \in Callers : bytes'[d] \in {Absent, BytesOf(d)}
  BY DEF IInv, Apart
<1>3. \A d \in Callers : CallerAgrees(d)'
  <2> SUFFICES ASSUME NEW d \in Callers
               PROVE  Agree(d, manifest'[d], memory'[RawOf(d)], made'[d], signed'[d])
    BY DEF CallerAgrees
  <2>1. Agree(d, manifest[d], memory[RawOf(d)], made[d], signed[d])
    BY DEF IInv, CallerAgrees
  <2> QED
    BY <2>1 DEF Apart
<1> QED
  BY <1>1, <1>2, <1>3 DEF IInv

-----------------------------------------------------------------------------
(* What agrees.                                                            *)

LEMMA EmptyAgrees ==
  ASSUME NEW c \in Callers, NEW x
  PROVE  Agree(c, Zero, x, <<>>, Absent)
  BY DEF Agree, Zero

LEMMA DecodedAgrees ==
  ASSUME NEW c \in Callers, NEW s, Complete(s)
  PROVE  LET m == UnmarshalJSON(Zero, s, RawOf(c)) IN
         m # Zero /\ Agree(c, m, s, <<s>>, Absent)
<1> DEFINE m == UnmarshalJSON(Zero, s, RawOf(c))
<1>1. s \in Object
  BY DEF Complete
<1>2. m \in Manifest({RawOf(c)}) /\ m.raw = RawOf(c)
  BY <1>1, UnmarshalFresh
<1>3. m # Zero
  BY <1>2, CellsApart DEF Zero
<1>4. <<s>> # <<>> /\ <<s>>[1] = s /\ DOMAIN <<s>> = {1}
  OBVIOUS
<1> QED
  BY <1>2, <1>3, <1>4 DEF Agree

(* Without source bytes, only the history and the signature matter.        *)
LEMMA MergedAgrees ==
  ASSUME NEW c \in Callers, NEW m, m.raw = Absent, NEW x, NEW h,
         h = <<>> <=> m = Zero, Len(h) = 1 => h[1] = Changed
  PROVE  Agree(c, m, x, h, Absent)
  BY DEF Agree

LEMMA ChangedAgrees ==
  ASSUME NEW c \in Callers, NEW m, NEW x, NEW h \in Seq(JSON \cup {Changed}), NEW p,
         Agree(c, m, x, h, p), NEW n, n.raw = m.raw
  PROVE  Agree(c, n, x, IF n = Zero THEN <<>> ELSE Append(h, Changed), Absent)
<1>1. CASE n = Zero
  BY <1>1, EmptyAgrees
<1>2. CASE n # Zero
  <2> DEFINE g == Append(h, Changed)
  <2>1. /\ g # <<>> /\ Len(g) = Len(h) + 1 /\ DOMAIN g = 1..(Len(h) + 1)
        /\ g[Len(h) + 1] = Changed /\ \A k \in 1..Len(h) : g[k] = h[k]
        /\ Len(h) \in Nat /\ DOMAIN h = 1..Len(h) /\ (h # <<>> => Len(h) # 0)
    BY AppendProperties
  <2> HIDE DEF g
  <2>2. n.raw \in {Absent, RawOf(c)}
    BY DEF Agree
  <2>3. ASSUME n.raw # Absent
        PROVE  Complete(x) /\ g[1] = x /\ \A k \in DOMAIN g : k > 1 => g[k] = Changed
    <3>1. Complete(x) /\ h # <<>> /\ h[1] = x /\ \A k \in DOMAIN h : k > 1 => h[k] = Changed
      BY <2>3 DEF Agree
    <3>2. 1 \in 1..Len(h)
      BY <2>1, <3>1
    <3> QED
      BY <2>1, <3>1, <3>2
  <2>4. Len(g) = 1 => g[1] = Changed
    BY <2>1
  <2> QED
    BY <1>2, <2>1, <2>2, <2>3, <2>4 DEF Agree, g
<1> QED
  BY <1>1, <1>2

-----------------------------------------------------------------------------
(* The steps of the callers.                                               *)

LEMMA FetchedDocument ==
  ASSUME NEW s \in Servings, Parses(Fetched(s))
  PROVE  /\ Fetched(s) \in Document
         /\ Fetched(s).text = s.document.text
         /\ Fetched(s).text \in Seq(JSON)
         /\ \A k \in DOMAIN Fetched(s).text : Foreign(Fetched(s).text[k])
<1> DEFINE d == s.document
<1>1. d \in Document
  BY SourceAssumption DEF Serving
<1>2. ReadLimited(d) \in Document /\ ReadLimited(d).text \in {d.text, Absent}
  BY <1>1, SourceAssumption DEF ReadLimited, Document
<1>3. Fetched(s) \in Document /\ Fetched(s).text \in {d.text, Absent}
  BY <1>1, <1>2 DEF Fetched
<1> HIDE DEF d
<1>4. Fetched(s).text # Absent
  BY DEF Parses
<1>5. Fetched(s).text = d.text /\ Fetched(s).text \in Seq(JSON)
  BY <1>3, <1>4 DEF Document
<1>6. \A k \in DOMAIN d.text : Foreign(d.text[k])
  BY <1>4, <1>5, SourceAssumption DEF d
<1> QED
  BY <1>3, <1>5, <1>6 DEF d

LEMMA Stepped ==
  ASSUME IInv, NEW c \in Callers, Step(c)
  PROVE  /\ source = SourceCell /\ served' = served /\ source' = source
         /\ Parses(Fetched(served)) /\ memory[SourceCell] = Fetched(served)
         /\ manifest[c] \in Manifest(Cells) /\ made[c] \in Seq(JSON \cup {Changed})
         /\ signed[c] \in Object \cup {Absent}
         /\ \A y \in Cells : memory[y] \in Contents
         /\ Agree(c, manifest[c], memory[RawOf(c)], made[c], signed[c])
<1>1. source = SourceCell
  BY SourceAssumption DEF Step, IInv, TypeOK
<1>2. Parses(Fetched(served)) /\ memory[SourceCell] = Fetched(served)
  BY <1>1 DEF IInv, SourceIsFetched
<1>3. served' = served /\ source' = source
  BY DEF Step
<1>4. /\ manifest[c] \in Manifest(Cells) /\ made[c] \in Seq(JSON \cup {Changed})
      /\ signed[c] \in Object \cup {Absent} /\ \A y \in Cells : memory[y] \in Contents
  BY DEF IInv, TypeOK, Contents
<1> QED
  BY <1>1, <1>2, <1>3, <1>4 DEF IInv, CallerAgrees

LEMMA SignedWritten ==
  ASSUME TypeOK, NEW c \in Callers, NEW p \in Object \cup {Absent},
         signed' = [signed EXCEPT ![c] = p]
  PROVE  /\ signed' \in [Callers -> Object \cup {Absent}] /\ signed'[c] = p
         /\ \A d \in Callers \ {c} : signed'[d] = signed[d]
  BY DEF TypeOK

LEMMA BytesWritten ==
  ASSUME TypeOK, NEW c \in Callers, bytes' = [bytes EXCEPT ![c] = BytesOf(c)]
  PROVE  /\ bytes' \in [Callers -> Cells \cup {Absent}] /\ bytes'[c] = BytesOf(c)
         /\ \A d \in Callers \ {c} : bytes'[d] = bytes[d]
<1>1. BytesOf(c) \in Cells
  BY CellsApart
<1> QED
  BY <1>1 DEF TypeOK

(* A step that keeps the manifest, and writes no bytes but those asked for. *)
LEMMA CopyStep ==
  ASSUME IInv, NEW c \in Callers, Step(c), NEW v \in Contents,
         memory' = [memory EXCEPT ![BytesOf(c)] = v],
         bytes' = bytes \/ bytes' = [bytes EXCEPT ![c] = BytesOf(c)],
         UNCHANGED <<manifest, made, signed>>
  PROVE  Apart(c) /\ IInv'
<1>1. TypeOK /\ bytes[c] \in {Absent, BytesOf(c)} /\ BytesOf(c) \in Cells
  BY CellsApart DEF IInv
<1>2. /\ DOMAIN memory' = Cells /\ \A y \in Cells : memory'[y] \in Contents
      /\ \A y \in Cells \ {BytesOf(c)} : memory'[y] = memory[y]
  BY <1>1, MemoryWritten
<1>3. /\ bytes' \in [Callers -> Cells \cup {Absent}] /\ bytes'[c] \in {Absent, BytesOf(c)}
      /\ \A d \in Callers \ {c} : bytes'[d] = bytes[d]
  BY <1>1, BytesWritten DEF TypeOK
<1>4. TypeOK'
  BY <1>1, <1>2, <1>3, Stepped DEF TypeOK, Contents
<1>5. Apart(c)
  BY <1>2, <1>3, CellsApart, Stepped DEF Apart
<1>6. Agree(c, manifest'[c], memory'[RawOf(c)], made'[c], signed'[c])
  BY <1>2, CellsApart, Stepped
<1> QED
  BY <1>3, <1>4, <1>5, <1>6, ApartPreserves

(* A step that gives the caller manifest m, with history h and bytes x.    *)
LEMMA ManifestStep ==
  ASSUME IInv, NEW c \in Callers, Step(c), UNCHANGED bytes,
         NEW m \in Manifest(Cells), NEW h \in Seq(JSON \cup {Changed}), Has(c, m, h),
         NEW x \in Contents,
         \/ memory[RawOf(c)] = x /\ memory' = memory
         \/ memory' = [memory EXCEPT ![RawOf(c)] = x],
         NEW p \in Object \cup {Absent}, signed' = [signed EXCEPT ![c] = p],
         Agree(c, m, x, IF m = Zero THEN <<>> ELSE h, p)
  PROVE  Apart(c) /\ IInv'
<1>1. TypeOK /\ bytes[c] \in {Absent, BytesOf(c)} /\ RawOf(c) \in Cells
  BY CellsApart DEF IInv
<1>2. /\ DOMAIN memory' = Cells /\ \A y \in Cells : memory'[y] \in Contents
      /\ memory'[RawOf(c)] = x
      /\ \A y \in Cells \ {RawOf(c)} : memory'[y] = memory[y]
  <2>1. CASE memory[RawOf(c)] = x /\ memory' = memory
    BY <1>1, <2>1 DEF TypeOK, Contents
  <2>2. CASE memory' = [memory EXCEPT ![RawOf(c)] = x]
    BY <1>1, <2>2, MemoryWritten
  <2> QED
    BY <2>1, <2>2
<1>3. /\ manifest' \in [Callers -> Manifest(Cells)]
      /\ made' \in [Callers -> Seq(JSON \cup {Changed})]
      /\ manifest'[c] = m /\ made'[c] = IF m = Zero THEN <<>> ELSE h
      /\ \A d \in Callers \ {c} : manifest'[d] = manifest[d] /\ made'[d] = made[d]
  BY <1>1, HasManifest
<1>4. /\ signed' \in [Callers -> Object \cup {Absent}] /\ signed'[c] = p
      /\ \A d \in Callers \ {c} : signed'[d] = signed[d]
  BY <1>1, SignedWritten
<1>5. TypeOK'
  BY <1>1, <1>2, <1>3, <1>4, Stepped DEF TypeOK, Contents
<1>6. Apart(c)
  BY <1>2, <1>3, <1>4, CellsApart, Stepped DEF Apart
<1>7. Agree(c, manifest'[c], memory'[RawOf(c)], made'[c], signed'[c])
  BY <1>2, <1>3, <1>4
<1> QED
  BY <1>1, <1>5, <1>6, <1>7, ApartPreserves

LEMMA LoadStep ==
  ASSUME IInv, NEW c \in Callers, Load(c)
  PROVE  Apart(c) /\ IInv'
<1> DEFINE text == memory[source].text
           m == Decoded(text, RawOf(c))[Len(text)]
           h == Decodings(text, RawOf(c))
           k == IF m = Zero THEN <<>> ELSE h
<1>1. /\ source = SourceCell /\ text \in Seq(JSON)
      /\ \A n \in DOMAIN text : Foreign(text[n])
  BY Stepped, FetchedDocument DEF Load, IInv, TypeOK
<1>2. RawOf(c) \in Cells /\ RawOf(c) # Absent
  BY CellsApart
<1>3. /\ Step(c) /\ UNCHANGED bytes /\ Has(c, m, h)
      /\ memory' = IF m.raw = Absent THEN memory ELSE [memory EXCEPT ![m.raw] = h[1]]
      /\ signed' = [signed EXCEPT ![c] = Absent]
  BY DEF Load, Parse
<1> HIDE DEF m, h, text
<1>4. /\ m \in Manifest(Cells) /\ m.raw \in {Absent, RawOf(c)} /\ h \in Seq(JSON)
      /\ m # Zero => h # <<>>
      /\ Len(h) = 1 => m = UnmarshalJSON(Zero, h[1], RawOf(c))
      /\ m.raw # Absent => /\ Len(h) = 1 /\ h[1] \in Object
                           /\ \E n \in DOMAIN text : h[1] = text[n]
  BY <1>1, <1>2, DecodingsKept DEF m, h
<1>5. h \in Seq(JSON \cup {Changed})
  BY <1>4
<1>6. CASE m.raw = Absent
  <2>1. memory' = memory /\ memory[RawOf(c)] \in Contents
    BY <1>2, <1>3, <1>6, Stepped
  <2>2. k = <<>> <=> m = Zero
    BY <1>4
  <2>3. ASSUME Len(k) = 1 PROVE FALSE
    <3>1. m # Zero /\ k = h
      BY <2>3
    <3>2. h[1] \in JSON /\ m = UnmarshalJSON(Zero, h[1], RawOf(c))
      BY <1>4, <2>3, <3>1
    <3>3. CASE h[1] = Null
      <4>1. m = Zero
        BY <3>2, <3>3 DEF UnmarshalJSON, merged, Zero
      <4> QED
        BY <3>1, <4>1
    <3>4. CASE h[1] \in Object
      BY <1>2, <1>6, <3>2, <3>4, UnmarshalFresh
    <3> QED
      BY <3>2, <3>3, <3>4 DEF JSON
  <2>4. Agree(c, m, memory[RawOf(c)], k, Absent)
    BY <1>6, <2>2, <2>3, MergedAgrees
  <2> HIDE DEF k
  <2> QED
    BY <1>3, <1>4, <1>5, <2>1, <2>4, ManifestStep DEF k
<1>7. CASE m.raw # Absent
  <2>1. memory' = [memory EXCEPT ![RawOf(c)] = h[1]]
    BY <1>3, <1>4, <1>7
  <2>2. Complete(h[1]) /\ h[1] \in Contents /\ h = <<h[1]>>
    BY <1>1, <1>4, <1>7 DEF Complete, Contents, JSON
  <2>3. m = UnmarshalJSON(Zero, h[1], RawOf(c))
    BY <1>4, <1>7
  <2>4. m # Zero /\ Agree(c, m, h[1], <<h[1]>>, Absent)
    BY <2>2, <2>3, DecodedAgrees
  <2>5. Agree(c, m, h[1], k, Absent)
    BY <2>2, <2>4
  <2> QED
    BY <1>3, <1>4, <1>5, <2>1, <2>2, <2>5, ManifestStep
<1> QED
  BY <1>6, <1>7

LEMMA CopySteps ==
  ASSUME IInv, NEW c \in Callers, Raw(c) \/ ManifestRaw(c) \/ Overwrite(c)
  PROVE  Apart(c) /\ IInv'
<1>1. Step(c) /\ UNCHANGED <<manifest, made, signed>>
  BY DEF Raw, ManifestRaw, Overwrite
<1>2. /\ source \in Cells /\ \A y \in Cells : memory[y] \in Contents
      /\ manifest[c].raw \in {Absent, RawOf(c)} /\ RawOf(c) \in Cells
      /\ Garbage \in Contents /\ bytes[c] \in {Absent, BytesOf(c)}
  BY <1>1, Stepped, CellsApart DEF Agree, Contents, IInv
<1>3. CASE Raw(c)
  <2>1. memory' = [memory EXCEPT ![BytesOf(c)] = memory[source]]
    BY <1>3 DEF Raw
  <2>2. bytes' = [bytes EXCEPT ![c] = BytesOf(c)] /\ memory[source] \in Contents
    BY <1>2, <1>3 DEF Raw
  <2> QED
    BY <1>1, <2>1, <2>2, CopyStep
<1>4. CASE ManifestRaw(c)
  <2>1. SourceBytes(manifest[c]) \in Contents
    BY <1>2, <1>4 DEF ManifestRaw, SourceBytes
  <2>2. /\ memory' = [memory EXCEPT ![BytesOf(c)] = SourceBytes(manifest[c])]
        /\ bytes' = [bytes EXCEPT ![c] = BytesOf(c)]
    BY <1>4 DEF ManifestRaw
  <2> QED
    BY <1>1, <2>1, <2>2, CopyStep
<1>5. CASE Overwrite(c)
  <2>1. memory' = [memory EXCEPT ![BytesOf(c)] = Garbage] /\ bytes' = bytes
    BY <1>2, <1>5 DEF Overwrite
  <2> QED
    BY <1>1, <1>2, <2>1, CopyStep
<1> QED
  BY <1>3, <1>4, <1>5

LEMMA EditStep ==
  ASSUME IInv, NEW c \in Callers, Edit(c)
  PROVE  Apart(c) /\ IInv'
<1> DEFINE m == manifest[c]
           x == memory[RawOf(c)]
           h == made[c]
<1>1. Step(c) /\ UNCHANGED <<memory, bytes>> /\ signed' = [signed EXCEPT ![c] = Absent]
  BY DEF Edit
<1>2. /\ m \in Manifest(Cells) /\ h \in Seq(JSON \cup {Changed})
      /\ x \in Contents /\ Agree(c, m, x, h, signed[c])
  BY <1>1, Stepped, CellsApart
<1>3. Append(h, Changed) \in Seq(JSON \cup {Changed})
  BY <1>2
<1>4. \/ \E b \in Bodies : HasChanged(c, [m EXCEPT !.body = b])
      \/ HasChanged(c, [m EXCEPT !.optional = Absent])
      \/ \E s \in {Absent} \cup [meta : Others, expiresAt : {NoText}, jws : {NoText}] :
           HasChanged(c, [m EXCEPT !.signature = s])
      \/ HasChanged(c, Zero)
  BY DEF Edit
<1> HIDE DEF m, x, h
<1>5. \E n \in Manifest(Cells) : HasChanged(c, n) /\ (n = Zero \/ n.raw = m.raw)
  <2>1. CASE \E b \in Bodies : HasChanged(c, [m EXCEPT !.body = b])
    <3>1. PICK b \in Bodies : HasChanged(c, [m EXCEPT !.body = b])
      BY <2>1
    <3>2. b \in Strings
      BY DEF Strings
    <3>3. [m EXCEPT !.body = b] \in Manifest(Cells) /\ [m EXCEPT !.body = b].raw = m.raw
      BY <1>2, <3>2 DEF Manifest
    <3> QED
      BY <3>1, <3>3
  <2>2. CASE \E s \in {Absent} \cup [meta : Others, expiresAt : {NoText}, jws : {NoText}] :
               HasChanged(c, [m EXCEPT !.signature = s])
    <3>1. PICK s \in {Absent} \cup [meta : Others, expiresAt : {NoText}, jws : {NoText}] :
             HasChanged(c, [m EXCEPT !.signature = s])
      BY <2>2
    <3>2. s \in Signature \cup {Absent}
      <4>1. Others \subseteq Strings /\ NoText \in Strings
        BY DEF Strings
      <4> QED
        BY <4>1 DEF Signature
    <3>3. /\ [m EXCEPT !.signature = s] \in Manifest(Cells)
          /\ [m EXCEPT !.signature = s].raw = m.raw
      BY <1>2, <3>2 DEF Manifest
    <3> QED
      BY <3>1, <3>3
  <2>3. CASE HasChanged(c, [m EXCEPT !.optional = Absent])
    <3>1. /\ [m EXCEPT !.optional = Absent] \in Manifest(Cells)
          /\ [m EXCEPT !.optional = Absent].raw = m.raw
      BY <1>2 DEF Manifest
    <3> QED
      BY <2>3, <3>1
  <2>4. CASE HasChanged(c, Zero)
    BY <2>4, ZeroIsManifest
  <2> QED
    BY <1>4, <2>1, <2>2, <2>3, <2>4
<1>6. PICK n \in Manifest(Cells) : HasChanged(c, n) /\ (n = Zero \/ n.raw = m.raw)
  BY <1>5
<1>7. Has(c, n, Append(h, Changed))
  BY <1>6 DEF HasChanged, h
<1>8. Agree(c, n, x, IF n = Zero THEN <<>> ELSE Append(h, Changed), Absent)
  <2>1. CASE n = Zero
    BY <2>1, EmptyAgrees
  <2>2. CASE n.raw = m.raw
    BY <1>2, <2>2, ChangedAgrees
  <2> QED
    BY <1>6, <2>1, <2>2
<1>9. x = memory[RawOf(c)] /\ memory' = memory
  BY <1>1 DEF x
<1> QED
  BY <1>1, <1>2, <1>3, <1>7, <1>8, <1>9, ManifestStep

LEMMA DecodeIntoStep ==
  ASSUME IInv, NEW c \in Callers, DecodeInto(c)
  PROVE  Apart(c) /\ IInv'
<1> DEFINE m == manifest[c]
           x == memory[RawOf(c)]
           h == made[c]
<1>1. Step(c) /\ UNCHANGED bytes /\ signed' = [signed EXCEPT ![c] = Absent]
  BY DEF DecodeInto
<1>2. /\ m \in Manifest(Cells) /\ h \in Seq(JSON \cup {Changed})
      /\ x \in Contents /\ Agree(c, m, x, h, signed[c])
      /\ RawOf(c) \in Cells /\ RawOf(c) # Absent
  BY <1>1, Stepped, CellsApart
<1>3. PICK s \in Additions :
         LET n == UnmarshalJSON(m, s, RawOf(c)) IN
         /\ Has(c, n, Append(h, s))
         /\ memory' = IF n.raw = Absent THEN memory ELSE [memory EXCEPT ![n.raw] = s]
  BY DEF DecodeInto
<1>4. s \in Object /\ Foreign(s) /\ s \in JSON /\ s \in Contents
  BY SourceAssumption DEF JSON, Contents
<1> DEFINE n == UnmarshalJSON(m, s, RawOf(c))
           k == IF n = Zero THEN <<>> ELSE Append(h, s)
<1>5. /\ n \in Manifest(Cells) /\ n.raw \in {Absent, RawOf(c)}
      /\ n.raw # Absent => m = Zero
  BY <1>2, <1>4, UnmarshalType
<1>6. h = <<>> <=> m = Zero
  BY <1>2 DEF Agree
<1>7. Append(h, s) \in Seq(JSON \cup {Changed})
  BY <1>2, <1>4
<1>8. CASE n.raw # Absent
  <2>1. m = Zero /\ h = <<>> /\ n.raw = RawOf(c)
    BY <1>5, <1>6, <1>8
  <2>2. memory' = [memory EXCEPT ![RawOf(c)] = s]
    BY <1>3, <1>8, <2>1
  <2>3. n = UnmarshalJSON(Zero, s, RawOf(c)) /\ Complete(s)
    BY <1>4, <2>1 DEF Complete
  <2>4. n # Zero /\ Agree(c, n, s, <<s>>, Absent)
    BY <2>3, DecodedAgrees
  <2>5. Append(h, s) = <<s>>
    BY <2>1
  <2> HIDE DEF m, x, h, n
  <2>6. Agree(c, n, s, k, Absent)
    BY <2>4, <2>5
  <2> QED
    BY <1>1, <1>3, <1>4, <1>5, <1>7, <2>2, <2>6, ManifestStep DEF n
<1>9. CASE n.raw = Absent
  <2>1. memory' = memory
    BY <1>3, <1>9
  <2>2. ASSUME h = <<>> PROVE FALSE
    <3>1. n = UnmarshalJSON(Zero, s, RawOf(c))
      BY <1>6, <2>2
    <3> HIDE DEF n
    <3>2. n \in Manifest(Cells) /\ n.raw = RawOf(c)
      BY <1>2, <1>4, <3>1, UnmarshalFresh
    <3> QED
      BY <1>2, <1>9, <3>2
  <2>3. Append(h, s) # <<>> /\ Len(Append(h, s)) = Len(h) + 1 /\ Len(h) # 0 /\ Len(h) \in Nat
    BY <1>2, <2>2, AppendProperties
  <2> HIDE DEF m, x, h, n
  <2>4. k = <<>> <=> n = Zero
    BY <2>3
  <2>5. Len(k) # 1
    BY <2>3
  <2> HIDE DEF k
  <2>6. Agree(c, n, x, k, Absent)
    BY <1>9, <2>4, <2>5, MergedAgrees
  <2> QED
    BY <1>1, <1>2, <1>3, <1>5, <1>7, <2>1, <2>6, ManifestStep DEF n, k, x
<1> QED
  BY <1>8, <1>9

(* Bytes with a signature that was made here have the payload it was made   *)
(* for.                                                                    *)
LEMMA SealedBytes ==
  ASSUME NEW c \in Callers, NEW n \in Manifest(Cells), NEW x,
         n.raw # Absent => n.raw = RawOf(c) /\ Complete(x),
         n.signature # Absent, n.signature.jws = Sealed
  PROVE  PayloadOf(n, x) = SealedPayload(n)
<1> DEFINE content == IF n.raw = Absent THEN Absent ELSE x
           p == CanonicalizeTrustManifest(n, content)
<1> HIDE DEF content
<1>1. CASE p = CanonicalizeForSignature(Marshal(n))
  <2>1. p = SealedPayload(n)
    BY <1>1, MarshalPayload
  <2> QED
    BY <2>1 DEF PayloadOf, content
<1>2. CASE /\ p = CanonicalizeForSignature(content)
           /\ content \in Object /\ n.raw # Absent
           /\ n = UnmarshalJSON(Zero, content, n.raw)
  <2>1. content = x /\ Complete(x) /\ x \in Object
    BY <1>2 DEF content
  <2>2. n = UnmarshalJSON(Zero, x, RawOf(c)) /\ RawOf(c) \in Cells
    BY <1>2, <2>1, CellsApart
  <2>3. x.signature \notin {Absent, Null} /\ present(x.signature.jws, NoText) = Sealed
    <3>1. x.signature \notin {Absent, Null}
      BY <2>1, <2>2, UnmarshalFresh
    <3>2. x.signature \in SignedJSON /\ n.signature = NewSignature(x.signature)
      BY <2>1, <2>2, <3>1, UnmarshalFresh
    <3>3. NewSignature(x.signature).jws = present(x.signature.jws, NoText)
      BY <3>2, NewSignatureType
    <3> QED
      BY <3>1, <3>2, <3>3
  <2>4. NoText # Sealed
    BY DEF NoText, Sealed
  <2>5. x.signature.jws = Sealed /\ x # Null
    BY <2>1, <2>3, <2>4, SentinelsApart DEF present
  <2>6. GivenBack(x) /\ x.duplicate = FALSE
    BY <2>1, <2>3, <2>5 DEF Complete, Foreign
  <2>7. CanonicalizeForSignature(x) = SealedPayload(n)
    BY <2>1, <2>2, <2>6, BytesPayload
  <2> QED
    BY <1>2, <2>1, <2>7 DEF PayloadOf, content
<1> QED
  BY <1>1, <1>2, PayloadCases DEF p

(* What is signed is the serialization, or bytes that say the same, unless  *)
(* serializing would not give them back.                                    *)
LEMMA PayloadIsSealed ==
  ASSUME NEW m \in Manifest(Cells), NEW x, m.signature # Absent,
         PayloadOf(m, x) # Error, GivenBack(PayloadOf(m, x))
  PROVE  PayloadOf(m, x) = SealedPayload(m)
<1> DEFINE content == IF m.raw = Absent THEN Absent ELSE x
<1>1. PayloadOf(m, x) = CanonicalizeTrustManifest(m, content)
  BY DEF PayloadOf
<1> HIDE DEF content
<1>2. CASE CanonicalizeTrustManifest(m, content) = CanonicalizeForSignature(Marshal(m))
  BY <1>1, <1>2, MarshalPayload
<1>3. CASE /\ CanonicalizeTrustManifest(m, content) = CanonicalizeForSignature(content)
           /\ content \in Object /\ m.raw # Absent
           /\ m = UnmarshalJSON(Zero, content, m.raw)
  <2>1. content.duplicate = FALSE
    BY <1>1, <1>3, CanonicalType
  <2>2. m.raw \in Cells
    BY <1>3 DEF Manifest
  <2>3. GivenBack(CanonicalizeForSignature(content))
    BY <1>1, <1>3
  <2>4. CanonicalizeForSignature(content) = SealedPayload(m)
    BY <1>3, <2>1, <2>2, <2>3, BytesPayload
  <2> QED
    BY <1>1, <1>3, <2>4
<1> QED
  BY <1>2, <1>3, PayloadCases

LEMMA PayloadType ==
  ASSUME NEW m \in Manifest(Cells), NEW x, PayloadOf(m, x) # Error
  PROVE  PayloadOf(m, x) \in Object
<1> DEFINE content == IF m.raw = Absent THEN Absent ELSE x
<1>1. PayloadOf(m, x) = CanonicalizeTrustManifest(m, content)
  BY DEF PayloadOf
<1> HIDE DEF content
<1>2. CASE CanonicalizeTrustManifest(m, content) = CanonicalizeForSignature(Marshal(m))
  BY <1>1, <1>2, MarshalPayload
<1>3. CASE /\ CanonicalizeTrustManifest(m, content) = CanonicalizeForSignature(content)
           /\ content \in Object
  BY <1>1, <1>3, CanonicalType
<1> QED
  BY <1>2, <1>3, PayloadCases

(* The payload of a caller's manifest, in terms of its own memory.         *)
LEMMA PayloadOfCaller ==
  ASSUME NEW c \in Callers, NEW h, NEW p, Agree(c, manifest[c], memory[RawOf(c)], h, p)
  PROVE  /\ SourceBytes(manifest[c]) = IF manifest[c].raw = Absent THEN Absent ELSE memory[RawOf(c)]
         /\ Payload(c) = PayloadOf(manifest[c], memory[RawOf(c)])
<1>1. manifest[c].raw \in {Absent, RawOf(c)}
  BY DEF Agree
<1>2. SourceBytes(manifest[c]) = IF manifest[c].raw = Absent THEN Absent ELSE memory[RawOf(c)]
  BY <1>1 DEF SourceBytes
<1> QED
  BY <1>2 DEF Payload, PayloadOf

LEMMA SignStep ==
  ASSUME IInv, NEW c \in Callers, Sign(c)
  PROVE  Apart(c) /\ IInv'
<1> DEFINE m == manifest[c]
           x == memory[RawOf(c)]
           h == made[c]
           n == [m EXCEPT !.signature.jws = Sealed]
           p == Payload(c)
           k == IF n = Zero THEN <<>> ELSE Append(h, Changed)
<1>1. /\ Step(c) /\ UNCHANGED bytes /\ memory' = memory
      /\ m.signature # Absent /\ p # Error
      /\ signed' = [signed EXCEPT ![c] = p]
      /\ Has(c, n, Append(h, Changed))
  BY DEF Sign, HasChanged
<1>2. /\ m \in Manifest(Cells) /\ h \in Seq(JSON \cup {Changed})
      /\ x \in Contents /\ Agree(c, m, x, h, signed[c])
  BY <1>1, Stepped, CellsApart
<1>3. p = PayloadOf(m, x)
  BY <1>2, PayloadOfCaller
<1>4. x = memory[RawOf(c)]
  OBVIOUS
<1> HIDE DEF m, x, h, p
<1>5. /\ n \in Manifest(Cells) /\ n.raw = m.raw
      /\ n.body = m.body /\ n.optional = m.optional
      /\ n.signature \in Signature /\ n.signature.jws = Sealed
      /\ n.signature.meta = m.signature.meta
      /\ n.signature.expiresAt = m.signature.expiresAt
  <2>1. m.signature \in Signature
    BY <1>1, <1>2 DEF Manifest
  <2>2. n = [m EXCEPT !.signature = [m.signature EXCEPT !.jws = Sealed]]
    BY <1>2 DEF Manifest
  <2> DEFINE sig == [m.signature EXCEPT !.jws = Sealed]
  <2>3. Sealed \in Strings
    BY DEF Strings
  <2>4. /\ sig \in Signature /\ sig.jws = Sealed
        /\ sig.meta = m.signature.meta /\ sig.expiresAt = m.signature.expiresAt
    BY <2>1, <2>3 DEF Signature
  <2> HIDE DEF sig, n
  <2>5. n = [m EXCEPT !.signature = sig]
    BY <2>2 DEF sig
  <2>6. /\ n \in Manifest(Cells) /\ n.raw = m.raw /\ n.body = m.body
        /\ n.optional = m.optional /\ n.signature = sig
    BY <1>2, <2>4, <2>5 DEF Manifest
  <2> QED
    BY <2>4, <2>6
<1> HIDE DEF n
<1>6. n.signature # Absent
  BY <1>5, SignatureIsJSON, SentinelsApart
<1>7. p \in Object
  BY <1>1, <1>2, <1>3, PayloadType
<1>8. Agree(c, n, x, k, Absent)
  BY <1>2, <1>5, ChangedAgrees
<1>9. ASSUME GivenBack(p)
      PROVE  p = SealedPayload(n) /\ p = PayloadOf(n, x)
  <2>1. p = SealedPayload(m)
    BY <1>1, <1>2, <1>3, <1>9, PayloadIsSealed
  <2>2. SealedPayload(m) = SealedPayload(n)
    <3>1. Written(n.signature).meta = Written(m.signature).meta
      BY <1>5 DEF Written
    <3>2. Written(n.signature).expiresAt = Written(m.signature).expiresAt
      BY <1>5 DEF Written
    <3> QED
      BY <1>5, <3>1, <3>2 DEF SealedPayload, Unsealed
  <2>3. n.raw # Absent => n.raw = RawOf(c) /\ Complete(x)
    BY <1>8 DEF Agree
  <2>4. PayloadOf(n, x) = SealedPayload(n)
    BY <1>5, <1>6, <2>3, SealedBytes
  <2> QED
    BY <2>1, <2>2, <2>4
<1>10. Agree(c, n, x, k, p)
  BY <1>6, <1>8, <1>9 DEF Agree
<1>11. Append(h, Changed) \in Seq(JSON \cup {Changed})
  BY <1>2
<1> QED
  BY <1>1, <1>2, <1>4, <1>5, <1>7, <1>10, <1>11, ManifestStep

LEMMA PublishStep ==
  ASSUME IInv, NEW c \in Callers, Publish(c)
  PROVE  Apart(c) /\ IInv'
<1> DEFINE m == manifest[c]
           s == Marshal(m)
           n == UnmarshalJSON(Zero, s, RawOf(c))
           p == signed[c]
<1>1. /\ Step(c) /\ UNCHANGED bytes /\ signed' = signed
      /\ Has(c, n, <<s>>) /\ memory' = [memory EXCEPT ![RawOf(c)] = s]
  BY DEF Publish
<1>2. /\ m \in Manifest(Cells) /\ p \in Object \cup {Absent}
      /\ Agree(c, m, memory[RawOf(c)], made[c], p)
      /\ RawOf(c) \in Cells /\ RawOf(c) # Absent
  BY <1>1, Stepped, CellsApart
<1>3. signed' = [signed EXCEPT ![c] = p]
  BY <1>1 DEF IInv, TypeOK
<1> HIDE DEF m, p
<1>4. s \in Object /\ Complete(s)
  <2>1. /\ s \in Object /\ s.duplicate = FALSE /\ s.future = Absent
        /\ s.body = m.body /\ s.optional = m.optional
        /\ m.body \notin {Absent, Null} /\ m.optional # Null
        /\ m.signature = Absent => s.signature = Absent
        /\ m.signature # Absent => m.signature \in Signature /\ s.signature = Written(m.signature)
    BY <1>2, MarshalFields
  <2> HIDE DEF s
  <2>2. CASE m.signature = Absent
    BY <2>1, <2>2 DEF Complete, Foreign
  <2>3. CASE m.signature # Absent
    <3>1. s.signature.meta \notin {Absent, Null} /\ s.signature.expiresAt \notin {NoText, Null}
      BY <2>1, <2>3, WrittenType
    <3> QED
      BY <2>1, <3>1 DEF Complete, GivenBack
  <2> QED
    BY <2>1, <2>2, <2>3
<1>5. s \in Contents /\ <<s>> \in Seq(JSON \cup {Changed})
  BY <1>4 DEF Contents, JSON
<1>6. /\ n \in Manifest(Cells) /\ n.raw = RawOf(c)
      /\ n.body = m.body /\ n.optional = m.optional /\ n.signature = m.signature
  BY <1>2, MarshalRoundTrip
<1>7. n # Zero /\ Agree(c, n, s, <<s>>, Absent)
  BY <1>4, DecodedAgrees
<1>8. PayloadOf(n, s) = CanonicalizeForSignature(s)
  <2>1. CanonicalizeTrustManifest(n, s) = CanonicalizeForSignature(s)
    BY <1>2, <1>4, PayloadOfBytes
  <2> HIDE DEF n, s
  <2> QED
    BY <1>2, <1>6, <2>1 DEF PayloadOf
<1>9. m.signature # Absent => PayloadOf(n, s) = SealedPayload(m)
  BY <1>2, <1>8, MarshalPayload
<1> HIDE DEF n, s
<1>10. SealedPayload(n) = SealedPayload(m)
  BY <1>6 DEF SealedPayload
<1>11. ASSUME p # Absent
       PROVE  /\ n.signature # Absent
              /\ GivenBack(p) => p = SealedPayload(n) /\ p = PayloadOf(n, s)
  BY <1>2, <1>6, <1>9, <1>10, <1>11 DEF Agree
<1>12. Agree(c, n, s, <<s>>, p)
  BY <1>7, <1>11 DEF Agree
<1>13. Agree(c, n, s, IF n = Zero THEN <<>> ELSE <<s>>, p)
  BY <1>7, <1>12
<1> QED
  BY <1>1, <1>2, <1>3, <1>5, <1>6, <1>13, ManifestStep

LEMMA CallerSteps ==
  ASSUME IInv, NEW c \in Callers, CallerStep(c)
  PROVE  Apart(c) /\ IInv'
  BY LoadStep, CopySteps, EditStep, DecodeIntoStep, SignStep, PublishStep DEF CallerStep

LEMMA OpenStep ==
  ASSUME IInv, Open
  PROVE  /\ IInv'
         /\ UNCHANGED <<manifest, bytes>> /\ \A c \in Callers : /\ memory'[RawOf(c)] = memory[RawOf(c)]
                                                               /\ memory'[BytesOf(c)] = memory[BytesOf(c)]
<1> DEFINE fails == FetchFails(served) \/ ~Parses(Fetched(served))
<1>1. /\ TypeOK /\ served \in Servings /\ source = Absent
      /\ UNCHANGED <<served, manifest, bytes, made, signed>>
  BY DEF IInv, TypeOK, Open
<1>2. SourceCell \in Cells /\ SourceCell # Absent /\ SourceCell # Failed
  BY SourceAssumption DEF Cells
<1>3. CASE fails
  <2>1. source' = Failed /\ memory' = memory
    BY <1>3 DEF Open
  <2>2. TypeOK'
    BY <1>1, <2>1 DEF TypeOK
  <2>3. SourceIsFetched'
    BY <1>1, <1>2, <1>3, <2>1 DEF SourceIsFetched
  <2>4. \A c \in Callers : CallerAgrees(c)' /\ bytes'[c] \in {Absent, BytesOf(c)}
    BY <1>1, <2>1 DEF IInv, CallerAgrees
  <2> QED
    BY <1>1, <2>1, <2>2, <2>3, <2>4 DEF IInv
<1>4. CASE ~fails
  <2>1. source' = SourceCell /\ memory' = [memory EXCEPT ![SourceCell] = Fetched(served)]
    BY <1>4 DEF Open
  <2>2. Fetched(served) \in Contents
    BY <1>1, <1>4, FetchedDocument DEF Contents
  <2>3. /\ DOMAIN memory' = Cells /\ \A y \in Cells : memory'[y] \in Contents
        /\ memory'[SourceCell] = Fetched(served)
        /\ \A y \in Cells \ {SourceCell} : memory'[y] = memory[y]
    BY <1>1, <1>2, <2>1, <2>2, MemoryWritten
  <2>4. \A c \in Callers : /\ memory'[RawOf(c)] = memory[RawOf(c)]
                           /\ memory'[BytesOf(c)] = memory[BytesOf(c)]
    BY <2>3, CellsApart
  <2>5. TypeOK'
    BY <1>1, <2>1, <2>3 DEF TypeOK, Contents
  <2>6. SourceIsFetched'
    BY <1>1, <1>2, <1>4, <2>1, <2>3 DEF SourceIsFetched
  <2>7. \A c \in Callers : CallerAgrees(c)' /\ bytes'[c] \in {Absent, BytesOf(c)}
    BY <1>1, <2>4 DEF IInv, CallerAgrees
  <2> QED
    BY <1>1, <2>4, <2>5, <2>6, <2>7 DEF IInv
<1> QED
  BY <1>3, <1>4

LEMMA InitEstablishes == Init => IInv
<1> SUFFICES ASSUME Init PROVE IInv
  OBVIOUS
<1>1. TypeOK
  BY ZeroIsManifest DEF Init, TypeOK
<1>2. SourceIsFetched
  BY SourceAssumption DEF Init, SourceIsFetched, Cells
<1>3. \A c \in Callers : CallerAgrees(c) /\ bytes[c] \in {Absent, BytesOf(c)}
  <2> SUFFICES ASSUME NEW c \in Callers PROVE CallerAgrees(c) /\ bytes[c] = Absent
    OBVIOUS
  <2>1. manifest[c] = Zero /\ made[c] = <<>> /\ signed[c] = Absent /\ bytes[c] = Absent
    BY DEF Init
  <2> QED
    BY <2>1, EmptyAgrees DEF CallerAgrees
<1> QED
  BY <1>1, <1>2, <1>3 DEF IInv

LEMMA NextPreserves == IInv /\ [Next]_vars => IInv'
<1> SUFFICES ASSUME IInv, [Next]_vars PROVE IInv'
  OBVIOUS
<1>1. CASE Open
  BY <1>1, OpenStep
<1>2. CASE \E c \in Callers : CallerStep(c)
  BY <1>2, CallerSteps
<1>3. CASE UNCHANGED vars
  BY <1>3 DEF vars, IInv, TypeOK, SourceIsFetched, CallerAgrees
<1> QED
  BY <1>1, <1>2, <1>3 DEF Next

-----------------------------------------------------------------------------
(* Whatever callers do, each has memory of its own, and what it has, where  *)
(* it came from and what was signed agree (provider.go:101-169).            *)
THEOREM Invariance == Spec => []IInv
  BY InitEstablishes, NextPreserves, PTL DEF Spec

(* Every variable stays in its set, and bytes are where they belong.       *)
THEOREM SourceTypeCorrect == Spec => []TypeOK
<1>1. IInv => TypeOK
  BY DEF IInv
<1> QED
  BY <1>1, Invariance, PTL

(* A source holds the document that was served, or a first part of it that  *)
(* is a catalog, and fails only for want of one (provider.go:101-148).      *)
THEOREM SourceKeepsDocument == Spec => []SourceIsAsServed
<1>1. IInv => SourceIsAsServed
  <2> SUFFICES ASSUME IInv PROVE SourceIsAsServed
    OBVIOUS
  <2> DEFINE d == served.document
  <2>1. served \in Servings /\ d.size \in Nat /\ MaxResponse \in Nat
    BY SourceAssumption DEF IInv, TypeOK, Serving, Document
  <2>2. ~served.limited \/ d.size <= MaxResponse => Fetched(served) = d
    BY <2>1 DEF Fetched, ReadLimited
  <2>3. ASSUME source = Failed,
               ~served.limited \/ (served.status = 200 /\ ~served.broken)
        PROVE  ~Parses(d) \/ (served.limited /\ d.size > MaxResponse)
    <3>1. ~FetchFails(served)
      BY <2>3 DEF FetchFails
    <3>2. ~Parses(Fetched(served))
      BY <2>3, <3>1 DEF IInv, SourceIsFetched
    <3>3. CASE Fetched(served) = d
      BY <3>2, <3>3
    <3>4. CASE Fetched(served) # d
      BY <2>1, <2>2, <3>4
    <3> QED
      BY <3>3, <3>4
  <2>4. ASSUME source = SourceCell
        PROVE  /\ memory[source] \in Document /\ Parses(memory[source])
               /\ ~served.limited \/ d.size <= MaxResponse => memory[source] = d
               /\ memory[source].text = d.text
    <3>1. memory[source] = Fetched(served) /\ Parses(Fetched(served))
      BY <2>4 DEF IInv, SourceIsFetched
    <3> QED
      BY <2>1, <2>2, <3>1, FetchedDocument
  <2> QED
    BY <2>3, <2>4 DEF SourceIsAsServed
<1> QED
  BY <1>1, Invariance, PTL

(* The source bytes of a manifest are the one JSON it was decoded from      *)
(* (models.go:64-95).                                                       *)
THEOREM BytesAreTheSource == Spec => []RawIsTheSource
<1>1. IInv => RawIsTheSource
  BY DEF IInv, CallerAgrees, Agree, RawIsTheSource
<1> QED
  BY <1>1, Invariance, PTL

(* A signature is judged by what the manifest says now (canonical.go:121-161). *)
THEOREM SignatureIsJudgedByFields == Spec => []PayloadIsCurrent
<1>1. IInv => PayloadIsCurrent
  <2> SUFFICES ASSUME IInv, NEW c \in Callers, Payload(c) # Error
               PROVE  Current(Payload(c), manifest[c])
    BY DEF PayloadIsCurrent, Current
  <2> DEFINE m == manifest[c]
             content == SourceBytes(m)
             p == Payload(c)
  <2>1. m \in Manifest(Cells) /\ p = CanonicalizeTrustManifest(m, content) /\ p # Error
    BY DEF IInv, TypeOK, Payload
  <2> HIDE DEF m, content, p
  <2>2. CASE p = CanonicalizeForSignature(Marshal(m))
    <3>1. Current(p, m)
      BY <2>1, <2>2, MarshalPayload
    <3> QED
      BY <3>1 DEF m, p
  <2>3. CASE /\ p = CanonicalizeForSignature(content)
             /\ content \in Object /\ m.raw # Absent
             /\ m = UnmarshalJSON(Zero, content, m.raw)
    <3>1. content.duplicate = FALSE /\ m.raw \in Cells
      BY <2>1, <2>3, CanonicalType DEF Manifest
    <3>2. Current(p, m)
      BY <2>3, <3>1, BytesPayload
    <3> QED
      BY <3>2 DEF m, p
  <2> QED
    BY <2>1, <2>2, <2>3, PayloadCases
<1> QED
  BY <1>1, Invariance, PTL

(* The payload of a manifest nobody changed is that of the document as it   *)
(* was published (canonical.go:50-56).                                      *)
THEOREM PublishedIsJudged == Spec => []PayloadIsPublished
<1>1. IInv => PayloadIsPublished
  <2> SUFFICES ASSUME IInv, NEW c \in Callers, Len(made[c]) = 1, made[c][1] # Changed
               PROVE  LET s == made[c][1]  p == Payload(c) IN
                      IF s.duplicate THEN p = Error
                      ELSE p.body = s.body /\ p.optional = s.optional /\ p.future = s.future
    BY DEF PayloadIsPublished
  <2> DEFINE s == made[c][1]
  <2>1. Agree(c, manifest[c], memory[RawOf(c)], made[c], signed[c]) /\ RawOf(c) \in Cells
    BY CellsApart DEF IInv, CallerAgrees
  <2>2. /\ manifest[c].raw = RawOf(c) /\ memory[RawOf(c)] = s
        /\ manifest[c] = UnmarshalJSON(Zero, s, RawOf(c)) /\ RawOf(c) # Absent
        /\ Complete(s)
    BY <2>1, CellsApart DEF Agree
  <2>3. Payload(c) = CanonicalizeTrustManifest(UnmarshalJSON(Zero, s, RawOf(c)), s)
    BY <2>1, <2>2, PayloadOfCaller DEF PayloadOf
  <2> HIDE DEF s
  <2>4. s \in Object
    BY <2>2 DEF Complete
  <2>5. Payload(c) = CanonicalizeForSignature(s)
    BY <2>1, <2>2, <2>3, <2>4, PayloadOfBytes
  <2>6. CASE s.duplicate = TRUE
    BY <2>5, <2>6 DEF CanonicalizeForSignature, s
  <2>7. CASE s.duplicate = FALSE
    <3>1. /\ Payload(c).body = s.body /\ Payload(c).optional = s.optional
          /\ Payload(c).future = s.future
      BY <2>4, <2>5, <2>7, CanonicalFields
    <3> QED
      BY <2>7, <3>1 DEF s
  <2> QED
    BY <2>4, <2>6, <2>7 DEF Object
<1> QED
  BY <1>1, Invariance, PTL

(* What was signed is what another party verifies, if it is JSON that       *)
(* serializing gives back (canonical.go:124-127).                           *)
THEOREM SignaturesSurvive == Spec => []SignatureSurvives
<1>1. IInv => SignatureSurvives
  <2> SUFFICES ASSUME IInv, NEW c \in Callers, signed[c] # Absent, GivenBack(signed[c])
               PROVE  Payload(c) = signed[c]
    BY DEF SignatureSurvives
  <2>1. Agree(c, manifest[c], memory[RawOf(c)], made[c], signed[c])
    BY DEF IInv, CallerAgrees
  <2> QED
    BY <2>1, PayloadOfCaller DEF Agree
<1> QED
  BY <1>1, Invariance, PTL

LEMMA ViewKept ==
  ASSUME NEW d \in Callers, IInv,
         manifest'[d] = manifest[d], bytes'[d] = bytes[d],
         memory'[RawOf(d)] = memory[RawOf(d)], memory'[BytesOf(d)] = memory[BytesOf(d)]
  PROVE  View(d)' = View(d)
<1>1. manifest[d].raw \in {Absent, RawOf(d)} /\ bytes[d] \in {Absent, BytesOf(d)}
  BY DEF IInv, CallerAgrees, Agree
<1> QED
  BY <1>1 DEF View, SourceBytes

(* Callers do not see each other (catalog/source.go:12-24).                *)
THEOREM CallersApart == Spec => CallersAreApart
<1>1. ASSUME IInv, [Next]_vars, NEW c \in Callers, NEW d \in Callers,
             View(c)' # View(c), View(d)' # View(d)
      PROVE  c = d
  <2>1. CASE Open
    BY <1>1, <2>1, OpenStep, ViewKept
  <2>2. CASE \E a \in Callers : CallerStep(a)
    <3>1. PICK a \in Callers : CallerStep(a)
      BY <2>2
    <3>2. Apart(a)
      BY <1>1, <3>1, CallerSteps
    <3>3. \A b \in Callers \ {a} : View(b)' = View(b)
      BY <1>1, <3>2, ViewKept DEF Apart
    <3> QED
      BY <1>1, <3>3
  <2>3. CASE UNCHANGED vars
    BY <1>1, <2>3, ViewKept DEF vars
  <2> QED
    BY <1>1, <2>1, <2>2, <2>3 DEF Next
<1>2. IInv /\ [Next]_vars =>
        [\A c, d \in Callers : View(c)' # View(c) /\ View(d)' # View(d) => c = d]_vars
  BY <1>1
<1> QED
  BY <1>2, Invariance, PTL DEF CallersAreApart, Spec
=============================================================================
