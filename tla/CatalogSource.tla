--------------------------- MODULE CatalogSource ---------------------------
(***************************************************************************)
(* A catalog from the file or server that has it, through a source of      *)
(* package provider, to the callers that load it, change what they were    *)
(* given, sign it and publish it again.  A document is reduced to one      *)
(* trust manifest.  Bytes live in cells of memory, so that a copy can be   *)
(* told from a slice that is shared.                                       *)
(***************************************************************************)
EXTENDS TrustManifest, Naturals, Sequences, FiniteSets

CONSTANTS
  Callers,     \* the goroutines that use the source
  Bounds,      \* how many steps each of them takes
  Servings,    \* what may be served
  Additions,   \* the JSON a caller may decode into a manifest it has
  MaxResponse, \* maxResponseBytes
  Garbage,     \* what memory holds that nobody wrote, or that was overwritten
  Changed,     \* a change of a manifest, in its history
  Failed       \* what JSON and Web return in place of a source

(* text: the manifest of the document, once for each time its member occurs,  *)
(* or Absent if it is no catalog; it takes the first end bytes, and what      *)
(* follows is blank unless there is trash.                                    *)
Document == [text : Seq(JSON) \cup {Absent}, end : Nat, size : Nat, trash : BOOLEAN]

(* How it comes: whole, from a file or the caller's Fetcher, or by the default *)
(* Fetcher, where the connection may break off after the size.                *)
Serving == [document : Document, limited : BOOLEAN, status : {200, 404}, broken : BOOLEAN]

(* A cell is named for its owner and what it keeps. *)
SourceCell == <<Absent, "source">>
RawOf(c)   == <<c, "raw">>
BytesOf(c) == <<c, "bytes">>
Cells      == {SourceCell} \cup (Callers \X {"raw", "bytes"})

(* A signature is made for one payload: the one that is made here is not in  *)
(* what others have published.                                               *)
Foreign(s) == s = Null \/ s.signature \in {Absent, Null} \/ s.signature.jws # Sealed

ASSUME SourceAssumption ==
  /\ Servings \subseteq Serving
  /\ Additions \subseteq Object
  /\ Bounds \in [Callers -> Nat]
  /\ MaxResponse \in Nat
  /\ Absent \notin Callers
  /\ {Absent, Failed} \cap Cells = {} /\ Absent # Failed
  /\ \A s \in Additions : Foreign(s)
  /\ \A v \in Servings : v.document.text # Absent =>
       \A k \in DOMAIN v.document.text : Foreign(v.document.text[k])
  /\ Garbage \notin Document \cup JSON /\ Changed \notin JSON

VARIABLES
  served,      \* what the file or server has
  memory,      \* what each cell holds
  source,      \* resolvedSource.data; Absent before there is one
  manifest,    \* the manifest of the document each caller has
  bytes,       \* the cell of the bytes each caller has asked for
  made,        \* history: what was decoded into that manifest, and changed
  signed,      \* history: the payload its signature was made for
  steps        \* how many steps each caller has taken

vars == <<served, memory, source, manifest, bytes, made, signed, steps>>

-----------------------------------------------------------------------------
MutantReadsOneLess(d) ==
  IF d.size < MaxResponse THEN d
  ELSE [text |-> IF d.end < MaxResponse THEN d.text ELSE Absent,
        end |-> d.end, size |-> MaxResponse - 1, trash |-> d.trash /\ d.end < MaxResponse - 1]

(* io.LimitReader ends without an error, whatever comes after the limit.     *)
ReadLimited(d) ==
  IF d.size <= MaxResponse THEN d
  ELSE [text |-> IF d.end <= MaxResponse THEN d.text ELSE Absent,
        end |-> d.end, size |-> MaxResponse, trash |-> d.trash /\ d.end < MaxResponse]

FetchFails(s) ==
  s.limited /\ (s.status # 200 \/ (s.broken /\ s.document.size < MaxResponse))

Fetched(s) == IF s.limited THEN ReadLimited(s.document) ELSE s.document

Parses(d) == d.text # Absent /\ ~d.trash

(* catalog.Parse: the manifest is decoded once for each occurrence, the later *)
(* ones into what the earlier ones left.                                      *)
Decoded(text, cell) ==
  LET decoded[n \in 0..Len(text)] ==
        IF n = 0 THEN Zero ELSE UnmarshalJSON(decoded[n - 1], text[n], cell)
  IN  decoded

Parse(d, cell) == Decoded(d.text, cell)[Len(d.text)]

(* What was decoded since the manifest was last empty. *)
Decodings(text, cell) ==
  LET empty == {n \in 0..Len(text) : Decoded(text, cell)[n] = Zero}
      last  == CHOOSE n \in empty : \A k \in empty : k <= n
  IN  SubSeq(text, last + 1, Len(text))

SourceBytes(m) == IF m.raw = Absent THEN Absent ELSE memory[m.raw]
Payload(c)     == CanonicalizeTrustManifest(manifest[c], SourceBytes(manifest[c]))

-----------------------------------------------------------------------------
Init ==
  /\ served \in Servings
  /\ memory = [x \in Cells |-> Garbage]
  /\ source = Absent
  /\ manifest = [c \in Callers |-> Zero]
  /\ bytes = [c \in Callers |-> Absent]
  /\ made = [c \in Callers |-> <<>>]
  /\ signed = [c \in Callers |-> Absent]
  /\ steps = [c \in Callers |-> 0]

(* JSON and Web: the document is read once, and kept if it parses. *)
Open ==
  /\ source = Absent
  /\ IF FetchFails(served) \/ ~Parses(Fetched(served))
     THEN source' = Failed /\ UNCHANGED memory
     ELSE source' = SourceCell /\ memory' = [memory EXCEPT ![SourceCell] = Fetched(served)]
  /\ UNCHANGED <<served, manifest, bytes, made, signed, steps>>

Step(c) ==
  /\ source \in Cells
  /\ steps[c] < Bounds[c]
  /\ steps' = [steps EXCEPT ![c] = @ + 1]
  /\ UNCHANGED <<served, source>>

(* A manifest that is empty is as good as new. *)
Has(c, m, history) ==
  /\ manifest' = [manifest EXCEPT ![c] = m]
  /\ made' = [made EXCEPT ![c] = IF m = Zero THEN <<>> ELSE history]

(* resolvedSource.Load, for a caller whose context is not done. *)
Load(c) ==
  /\ Step(c)
  /\ memory[source] \in Document
  /\ LET d       == memory[source]
         m       == Parse(d, RawOf(c))
         history == Decodings(d.text, RawOf(c))
     IN  /\ Has(c, m, history)
         /\ memory' = IF m.raw = Absent THEN memory
                      ELSE [memory EXCEPT ![m.raw] = history[1]]
  /\ signed' = [signed EXCEPT ![c] = Absent]
  /\ UNCHANGED bytes

MutantSharedRaw(c) ==
  /\ Step(c)
  /\ bytes' = [bytes EXCEPT ![c] = source]
  /\ UNCHANGED <<memory, manifest, made, signed>>

(* resolvedSource.Raw: a copy. *)
Raw(c) ==
  /\ Step(c)
  /\ bytes' = [bytes EXCEPT ![c] = BytesOf(c)]
  /\ memory' = [memory EXCEPT ![BytesOf(c)] = memory[source]]
  /\ UNCHANGED <<manifest, made, signed>>

(* TrustManifest.Raw: a copy, if there are source bytes. *)
ManifestRaw(c) ==
  /\ Step(c)
  /\ manifest[c].raw # Absent
  /\ bytes' = [bytes EXCEPT ![c] = BytesOf(c)]
  /\ memory' = [memory EXCEPT ![BytesOf(c)] = SourceBytes(manifest[c])]
  /\ UNCHANGED <<manifest, made, signed>>

(* A caller overwrites the bytes it was given. *)
Overwrite(c) ==
  /\ Step(c)
  /\ bytes[c] # Absent
  /\ memory' = [memory EXCEPT ![bytes[c]] = Garbage]
  /\ UNCHANGED <<manifest, bytes, made, signed>>

HasChanged(c, m) == Has(c, m, Append(made[c], Changed))

(* A caller sets fields of its manifest, or makes a new one. *)
Edit(c) ==
  /\ Step(c)
  /\ \/ \E b \in Bodies : HasChanged(c, [manifest[c] EXCEPT !.body = b])
     \/ HasChanged(c, [manifest[c] EXCEPT !.optional = Absent])
     \/ \E s \in {Absent} \cup [meta : Others, expiresAt : {NoText}, jws : {NoText}] :
          HasChanged(c, [manifest[c] EXCEPT !.signature = s])
     \/ HasChanged(c, Zero)
  /\ signed' = [signed EXCEPT ![c] = Absent]
  /\ UNCHANGED <<memory, bytes>>

(* A caller decodes JSON into the manifest it has. *)
DecodeInto(c) ==
  /\ Step(c)
  /\ \E s \in Additions :
       LET m == UnmarshalJSON(manifest[c], s, RawOf(c)) IN
       /\ Has(c, m, Append(made[c], s))
       /\ memory' = IF m.raw = Absent THEN memory ELSE [memory EXCEPT ![m.raw] = s]
  /\ signed' = [signed EXCEPT ![c] = Absent]
  /\ UNCHANGED bytes

(* A producer signs what CanonicalizeTrustManifest returns, and puts the    *)
(* signature in.                                                            *)
Sign(c) ==
  /\ Step(c)
  /\ manifest[c].signature # Absent
  /\ Payload(c) # Error
  /\ signed' = [signed EXCEPT ![c] = Payload(c)]
  /\ HasChanged(c, [manifest[c] EXCEPT !.signature.jws = Sealed])
  /\ UNCHANGED <<memory, bytes>>

(* It serializes its document, and another party parses that. *)
Publish(c) ==
  /\ Step(c)
  /\ LET s == Marshal(manifest[c]) IN
     /\ Has(c, UnmarshalJSON(Zero, s, RawOf(c)), <<s>>)
     /\ memory' = [memory EXCEPT ![RawOf(c)] = s]
  /\ UNCHANGED <<bytes, signed>>

CallerStep(c) == \/ Load(c) \/ Raw(c) \/ ManifestRaw(c) \/ Overwrite(c) \/ Edit(c)
                 \/ DecodeInto(c) \/ Sign(c) \/ Publish(c)

Next == Open \/ \E c \in Callers : CallerStep(c)

Spec == Init /\ [][Next]_vars
-----------------------------------------------------------------------------
(* Every variable stays in its set, and bytes are where they belong.       *)
TypeOK ==
  /\ served \in Servings
  /\ DOMAIN memory = Cells
  /\ \A x \in Cells : memory[x] \in Document \cup JSON \cup {Garbage}
  /\ source \in {Absent, Failed, SourceCell}
  /\ manifest \in [Callers -> Manifest(Cells)]
  /\ bytes \in [Callers -> Cells \cup {Absent}]
  /\ made \in [Callers -> Seq(JSON \cup {Changed})]
  /\ signed \in [Callers -> Object \cup {Absent}]

(* A source holds the document as served, as long as that is within the     *)
(* limit, and has it if it is a catalog that arrived; nothing its callers    *)
(* do to what they were given changes it (provider.go:101-169).             *)
SourceIsAsServed ==
  LET d == served.document
      arrives == ~served.limited \/ (served.status = 200 /\ ~served.broken)
  IN  /\ source = Failed /\ arrives => ~Parses(d) \/ (served.limited /\ d.size > MaxResponse)
      /\ source = SourceCell =>
           /\ memory[source] \in Document /\ Parses(memory[source])
           /\ ~served.limited \/ d.size <= MaxResponse => memory[source] = d
           /\ memory[source].text = d.text

(* Callers do not see each other: in one step the document and the bytes of *)
(* one of them change at most (catalog/source.go:12-24).                    *)
View(c) == <<manifest[c], SourceBytes(manifest[c]),
             IF bytes[c] = Absent THEN Absent ELSE memory[bytes[c]]>>

CallersAreApart ==
  [][\A c, d \in Callers : View(c)' # View(c) /\ View(d)' # View(d) => c = d]_vars

(* The source bytes of a manifest are the one JSON it was decoded from,     *)
(* whatever is changed in it, or in copies of them, later; there are none    *)
(* of a manifest that was put together in several ways (models.go:64-95).   *)
RawIsTheSource ==
  \A c \in Callers :
    manifest[c].raw # Absent =>
      /\ made[c] # <<>> /\ made[c][1] = memory[manifest[c].raw]
      /\ \A k \in DOMAIN made[c] : k > 1 => made[c][k] = Changed

(* A signature is judged by what the manifest says now: the payload and the *)
(* fields agree, up to what is empty, and it covers no signature             *)
(* (canonical.go:121-161).                                                  *)
Says(member, field, empty) ==
  member = field \/ (member \in {Absent, Null} /\ field = empty)

PayloadIsCurrent ==
  \A c \in Callers :
    LET m == manifest[c]  p == Payload(c) IN
    p # Error =>
      /\ Says(p.body, m.body, NoText)
      /\ Says(p.optional, m.optional, Absent)
      /\ IF m.signature = Absent THEN p.signature \in {Absent, Null}
         ELSE /\ Says(p.signature.meta, m.signature.meta, NoText)
              /\ Says(p.signature.expiresAt, m.signature.expiresAt, NoText)
              /\ p.signature.jws = Absent

(* The payload of a manifest nobody changed is that of the document as it   *)
(* was published, with the members the SDK does not model; a duplicate       *)
(* member has no payload (canonical.go:50-56).                              *)
PayloadIsPublished ==
  \A c \in Callers :
    Len(made[c]) = 1 /\ made[c][1] # Changed =>
      LET s == made[c][1]  p == Payload(c) IN
      IF s.duplicate THEN p = Error
      ELSE p.body = s.body /\ p.optional = s.optional /\ p.future = s.future

(* JSON that decoding and serializing give back: every member is modelled,  *)
(* the required ones are there, and no optional one is empty or null.       *)
GivenBack(p) ==
  /\ p.future = Absent
  /\ {p.body, p.signature.meta} \cap {Absent, Null} = {}
  /\ p.optional # Null /\ p.signature.expiresAt \notin {NoText, Null}

(* What was signed is what another party verifies, after the signature was  *)
(* put in and the manifest serialized and parsed, unless it was decoded from *)
(* JSON that serializing does not give back: putting the signature in makes  *)
(* its bytes stale, and what only they say is lost (canonical.go:124-127).  *)
SignatureSurvives ==
  \A c \in Callers :
    signed[c] # Absent /\ GivenBack(signed[c]) => Payload(c) = signed[c]
=============================================================================
