---------------------------- MODULE TrustManifest ----------------------------
(***************************************************************************)
(* A trust manifest as JSON and as a Go value, and the payload its         *)
(* signature covers.  body stands for the required strings of a manifest;  *)
(* optional for its other pointers, slices and maps, each whole; in the    *)
(* signature, meta for the required strings but the jws, and expiresAt for *)
(* the optional strings, wherever they are.  A member the SDK does not     *)
(* model is future.                                                        *)
(***************************************************************************)
CONSTANTS
  Bodies,     \* what body and optional may say
  Others,     \* what members of other kinds may say
  Absent,     \* a member that is not there, a nil slice or pointer
  Null        \* JSON null

NoText == ""           \* the zero value of a Go string
Sealed == "sealed"     \* the jws a producer puts in

Strings == {NoText, Sealed} \cup Bodies \cup Others

(* The JSON of a manifest.  duplicate: some member name occurs twice.        *)
Member     == Strings \cup {Absent, Null}
SignedJSON == [meta : Member, expiresAt : Member, jws : Member]
Object     == [body : Member, optional : Bodies \cup {Absent, Null}, future : Others \cup {Absent},
               signature : SignedJSON \cup {Absent, Null}, additional : Others \cup {Absent},
               duplicate : BOOLEAN]
JSON       == Object \cup {Null}

(* The Go struct; raw names the memory that holds its source bytes.          *)
Signature        == [meta : Strings, expiresAt : Strings, jws : Strings]
Manifest(memory) == [body : Strings, optional : Bodies \cup {Absent},
                     signature : Signature \cup {Absent}, additional : Others \cup {Absent},
                     raw : memory \cup {Absent}]

(* What is not there is no value, and is not null. *)
ASSUME ManifestAssumption ==
  /\ NoText \notin Bodies \cup Others /\ Sealed \notin Bodies \cup Others /\ Absent # Null
  /\ {Absent, Null} \cap (Strings \cup SignedJSON \cup Object) = {}

Zero == [body |-> NoText, optional |-> Absent, signature |-> Absent, additional |-> Absent,
         raw |-> Absent]

ZeroSignature == [meta |-> NoText, expiresAt |-> NoText, jws |-> NoText]

-----------------------------------------------------------------------------
(* Definitions named Mutant... are plausible mistakes in the definition that *)
(* follows; the properties are tested by putting them in its place.         *)

(* json.Unmarshal into a struct: a member that is absent stays as it was;    *)
(* null does nothing to a string, and makes the others nil.                  *)
present(new, old)  == IF new \in {Absent, Null} THEN old ELSE new
replaced(new, old) == CASE new = Absent -> old [] new = Null -> Absent [] OTHER -> new

MutantNoZeroValue(m, s) ==
  CASE s.signature = Absent -> m.signature
    [] s.signature = Null   -> Absent
    [] OTHER -> s.signature

mergedSignature(m, s) ==
  IF s.signature = Absent THEN m.signature
  ELSE IF s.signature = Null THEN Absent
  ELSE LET new == s.signature
           old == IF m.signature = Absent THEN ZeroSignature ELSE m.signature
       IN  [meta |-> present(new.meta, old.meta), jws |-> present(new.jws, old.jws),
            expiresAt |-> present(new.expiresAt, old.expiresAt)]

merged(m, s) ==
  IF s = Null THEN m
  ELSE [m EXCEPT !.body = present(s.body, @), !.optional = replaced(s.optional, @),
                 !.additional = replaced(s.additional, @),
                 !.signature = mergedSignature(m, s)]

MutantAlwaysKeepsBytes(m, s, cell) ==
  [merged(m, s) EXCEPT !.raw = IF s # Null THEN cell ELSE Absent]

(* The source bytes are kept, in cell, of a manifest that was empty before. *)
UnmarshalJSON(m, s, cell) ==
  [merged(m, s) EXCEPT !.raw = IF m = Zero /\ s # Null THEN cell ELSE Absent]

(* json.Marshal: what is required is written, what is optional is left out   *)
(* if it is nil or an empty string, and what is not modelled is lost.        *)
omitempty(text) == IF text = NoText THEN Absent ELSE text

Marshal(m) ==
  [body |-> m.body, optional |-> m.optional, future |-> Absent,
   signature |-> IF m.signature = Absent THEN Absent
                 ELSE [m.signature EXCEPT !.expiresAt = omitempty(@)],
   additional |-> m.additional, duplicate |-> FALSE]

Error == [error |-> TRUE]

MutantCoversJWS(s) ==
  IF s.duplicate THEN Error ELSE [s EXCEPT !.additional = Absent]

(* Without signature.jws and additionalSignatures.  JSON with a duplicate    *)
(* member has no canonical form.                                             *)
CanonicalizeForSignature(s) ==
  IF s.duplicate THEN Error
  ELSE [s EXCEPT !.additional = Absent,
                 !.signature = IF @ \in {Absent, Null} THEN @ ELSE [@ EXCEPT !.jws = Absent]]

MutantStaleBytes(m, content) == IF m.raw = Absent THEN Absent ELSE content

MutantNoBytes(m, content) == Absent

(* The bytes m was decoded from, which are content, unless they are no longer *)
(* what it says.                                                              *)
decodedBytes(m, content) ==
  IF m.raw = Absent \/ content \notin Object \/ UnmarshalJSON(Zero, content, m.raw) # m
  THEN Absent ELSE content

CanonicalizeTrustManifest(m, content) ==
  CanonicalizeForSignature(IF decodedBytes(m, content) = Absent THEN Marshal(m)
                           ELSE decodedBytes(m, content))
=============================================================================
