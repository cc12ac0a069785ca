------------------------------ MODULE MCVerify ------------------------------
(***************************************************************************)
(* Two DIDs, A the publisher and B an assessor, and the documents that     *)
(* differ from a well-made one in one or two respects.                     *)
(***************************************************************************)
EXTENDS Verify

CONSTANTS A, B, X, k1, k2, d1, d2

Kid(did, frag) == [did |-> did, frag |-> frag]

GoodJWS(did) ==
  [form |-> "detached", alg |-> "ES256", typ |-> "manifest", members |-> {},
   kid |-> Kid(did, "key"), seal |-> k1]

GoodSignature(did) ==
  [signer |-> did, profile |-> "did-web-v1", issuedAt |-> 0, expiresAt |-> Absent,
   jws |-> GoodJWS(did)]

(* The ways a signature can differ from a good one. *)
Signatures(did) ==
  LET s == GoodSignature(did) IN
  {s} \cup {[s EXCEPT !.profile = p] : p \in {"other", Absent}}
  \cup {[s EXCEPT !.issuedAt = t] : t \in {1, Absent, Bad}}
  \cup {[s EXCEPT !.expiresAt = t] : t \in {0, 1, 2, Bad}}
  \cup {[s EXCEPT !.jws.form = f] : f \in {"attached", "malformed", "absent"}}
  \cup {[s EXCEPT !.jws.alg = a] : a \in {"none", "other"}}
  \cup {[s EXCEPT !.jws.typ = "catalog"], [s EXCEPT !.jws.seal = Bad],
        [s EXCEPT !.signer = X]}
  \cup {[s EXCEPT !.jws.members = {x}] : x \in {"key-source", "b64", "crit"}}
  \cup {[s EXCEPT !.jws.kid = k] : k \in {Kid(X, "key"), Kid(did, Absent), Kid(did, "old")}}

GoodSubject == [complete |-> TRUE, agrees |-> TRUE, digest |-> d1]

Subjects == {GoodSubject, Absent, [GoodSubject EXCEPT !.complete = FALSE],
             [GoodSubject EXCEPT !.agrees = FALSE]}
            \cup {[GoodSubject EXCEPT !.digest = d] : d \in {d2, Absent, Bad}}

ManifestOf(did, s) == [contributor |-> did, subject |-> GoodSubject, signature |-> s]
GoodManifest(did)  == ManifestOf(did, GoodSignature(did))

EntryWith(ms) == [publisher |-> A, digest |-> d1, source |-> "inline", data |-> d1,
                  manifests |-> ms]

Doc(es) == [clean |-> TRUE, host |-> TRUE, signature |-> Absent, entries |-> es]

(* One manifest, of the publisher: every signature, subject and source. *)
OneManifest ==
  {Doc(<<EntryWith(<<ManifestOf(A, s)>>)>>) : s \in Signatures(A) \cup {Absent}}
  \cup {Doc(<<EntryWith(<<[GoodManifest(A) EXCEPT !.subject = s]>>)>>) : s \in Subjects}
  \cup {Doc(<<[EntryWith(<<GoodManifest(A)>>) EXCEPT !.source = s, !.data = d]>>) :
          s \in {"inline", "https", "other", "unresolvable"}, d \in {d1, d2, Bad}}
  \cup {Doc(<<[EntryWith(<<GoodManifest(A)>>) EXCEPT !.digest = d]>>) : d \in {d2, Absent, Bad}}
  \cup {Doc(<<EntryWith(<<[GoodManifest(A) EXCEPT !.contributor = c]>>)>>) : c \in {B, Absent}}
  \cup {[Doc(<<EntryWith(<<GoodManifest(A)>>)>>) EXCEPT !.clean = b, !.host = ~b] : b \in BOOLEAN}

(* The publisher and an assessor, in either order. *)
Ours   == {GoodManifest(A), ManifestOf(A, [GoodSignature(A) EXCEPT !.expiresAt = 1]),
           ManifestOf(A, [GoodSignature(A) EXCEPT !.profile = "other"])}
Theirs == {GoodManifest(B), ManifestOf(B, [GoodSignature(B) EXCEPT !.issuedAt = 1]),
           ManifestOf(B, Absent)}

TwoManifests ==
  {Doc(<<[EntryWith(ms) EXCEPT !.source = s]>>) :
     ms \in {<<a, b>> : a \in Ours, b \in Theirs} \cup {<<b, a>> : a \in Ours, b \in Theirs},
     s \in {"inline", "https"}}

(* Two entries: the second of A, or of an identifier that names no publisher. *)
TwoEntries ==
  {Doc(<<EntryWith(<<a>>), [EntryWith(<<b>>) EXCEPT !.publisher = p]>>) :
     a \in Ours, b \in Ours \cup Theirs, p \in {A, Absent}}

(* A signed catalog. *)
SignedCatalogs ==
  {[Doc(<<EntryWith(<<>>)>>) EXCEPT !.signature = [s EXCEPT !.jws.typ = "catalog"]] :
     s \in {GoodSignature(A)} \cup {[GoodSignature(A) EXCEPT !.issuedAt = 1]}
           \cup {[GoodSignature(B) EXCEPT !.expiresAt = t] : t \in {1, 2}}}

MCDocuments == OneManifest \cup TwoManifests \cup TwoEntries \cup SignedCatalogs

Listed(did, frag, key) == [id |-> Kid(did, frag), controller |-> did, jwk |-> key]
Refer(id)              == [kind |-> "reference", id |-> id]
Embed(method)          == [kind |-> "embedded", method |-> method]

DIDDocOf(did) ==
  [id |-> did, methods |-> <<Listed(did, "key", k1), Listed(did, "old", k2)>>,
   assertions |-> <<Refer(Kid(Absent, "key")), [kind |-> "junk"]>>]

(* As a document should be, after a rotation, and with one thing wrong. *)
MCDIDDocuments ==
  {DIDDocOf(A), DIDDocOf(B),
   [DIDDocOf(A) EXCEPT !.methods = <<Listed(A, "key", k2)>>],
   [DIDDocOf(A) EXCEPT !.methods = <<>>, !.assertions = <<Embed(Listed(A, "key", k1))>>],
   [DIDDocOf(A) EXCEPT !.assertions = <<Embed(Listed(A, "key", k1))>>],
   [DIDDocOf(A) EXCEPT !.assertions = <<Refer(Kid(A, "old"))>>],
   [DIDDocOf(A) EXCEPT !.methods[1].controller = B],
   [DIDDocOf(A) EXCEPT !.methods[1].jwk = Bad]}
=============================================================================
