---------------------------- MODULE DIDDocument ----------------------------
(***************************************************************************)
(* DID documents, and the key a kid selects in one (validate/did.go).  A    *)
(* document that is not JSON is one whose id is no DID.                     *)
(***************************************************************************)
EXTENDS SignedCatalog, FiniteSets

(* A method may name itself relative to the document (did = Absent), and its *)
(* JWK may be missing or unusable.                                           *)
Method == [id : KeyID, controller : Parties, jwk : Keys \cup {Absent, Bad}]

(* An assertion is a reference, a method of its own, or neither. *)
Assertion == [kind : {"reference"}, id : KeyID]
             \cup [kind : {"embedded"}, method : Method]
             \cup [kind : {"junk"}]

DIDDoc == [id : Parties, methods : Seq(Method), assertions : Seq(Assertion)]

resolveKey(id, signer) == IF id.did = Absent THEN [id EXCEPT !.did = signer] ELSE id

(* The methods kid selects: listed ones, and those embedded in assertions.  *)
methodsOf(body, signer, kid) ==
  {<<"listed", k>> : k \in {j \in DOMAIN body.methods :
                              resolveKey(body.methods[j].id, signer) = kid}}
  \cup
  {<<"embedded", k>> : k \in {j \in DOMAIN body.assertions :
                                /\ body.assertions[j].kind = "embedded"
                                /\ resolveKey(body.assertions[j].method.id, signer) = kid}}

MutantAnyMethodAuthorized(body, signer, kid) == methodsOf(body, signer, kid) # {}

authorizes(body, signer, kid) ==
  \E j \in DOMAIN body.assertions :
    LET a == body.assertions[j] IN
    \/ a.kind = "reference" /\ resolveKey(a.id, signer) = kid
    \/ a.kind = "embedded" /\ resolveKey(a.method.id, signer) = kid

methodAt(body, at) == IF at[1] = "listed" THEN body.methods[at[2]]
                                          ELSE body.assertions[at[2]].method

(* The key of a kid, or Bad: selectKey, then trust.ParseES256Key. *)
selectKey(body, signer, kid) ==
  LET selected == methodsOf(body, signer, kid)
      method   == methodAt(body, CHOOSE at \in selected : TRUE)
  IN  IF \/ body.id # signer
         \/ ~authorizes(body, signer, kid)
         \/ Cardinality(selected) # 1
         \/ method.controller # signer
         \/ method.jwk \notin Keys
      THEN Bad ELSE method.jwk
=============================================================================
