-------------------------- MODULE MCCatalogSource --------------------------
(***************************************************************************)
(* A caller that takes four steps next to one that takes one, and what is  *)
(* served around the limit.                                                *)
(***************************************************************************)
EXTENDS CatalogSource, TLC

CONSTANTS c1, c2

MCBounds == c1 :> 4 @@ c2 :> 1

ObjectOf(b, u, s) ==
  [body |-> b, optional |-> Absent, future |-> u, signature |-> s, additional |-> Absent,
   duplicate |-> FALSE]

SignedBy(j) == [meta |-> "m", expiresAt |-> "j", jws |-> j]

Known      == ObjectOf("x", Absent, SignedBy("j"))
Future     == [ObjectOf("x", "m", SignedBy(Absent)) EXCEPT !.additional = "j"]
NoBody     == ObjectOf(Absent, Absent, SignedBy("j"))
NoExpiry   == [ObjectOf("x", Absent, SignedBy(Null)) EXCEPT !.optional = "y",
                                                            !.signature.expiresAt = Absent]

(* Empty and null members, which serializing leaves out or fills in. *)
Hollow     == {[NoExpiry EXCEPT !.signature.expiresAt = x] : x \in {NoText, Null}}
              \cup {[Known EXCEPT !.optional = Null], [Known EXCEPT !.body = Null],
                    [Known EXCEPT !.signature.meta = Absent]}
Unsigned   == ObjectOf("y", "m", Null)
Ambiguous  == [Known EXCEPT !.duplicate = TRUE]
Empty      == ObjectOf(Absent, Absent, Absent)
Manifests  == {Known, Future, NoBody, NoExpiry, Unsigned, Ambiguous} \cup Hollow

MCAdditions == {Unsigned, NoBody, Empty}

Texts == {<<s>> : s \in Manifests}
         \cup {<<Null>>, <<Future, Null>>, <<Null, Future>>,
               <<Unsigned, Known>>, <<Future, NoBody>>, <<Empty, Empty, Known>>}

DocumentOf(t) == [text |-> t, end |-> 1, size |-> 1, trash |-> FALSE]
WholeFrom(d)  == [document |-> d, limited |-> FALSE, status |-> 200, broken |-> FALSE]

(* Documents shorter than the limit, as long, and longer, by any Fetcher. *)
Sized == {d \in [text : {Absent, <<Null>>}, end : 1..3, size : 1..3, trash : BOOLEAN] :
            d.end <= d.size /\ (d.trash => d.end < d.size)}

MCServings ==
  {WholeFrom(DocumentOf(t)) : t \in Texts}
  \cup {WholeFrom(d) : d \in {x \in Sized : x.size = 3 /\ x.end # 2}}
  \cup {[WholeFrom(d) EXCEPT !.limited = TRUE] : d \in Sized}
  \cup {[WholeFrom(d) EXCEPT !.limited = TRUE, !.broken = TRUE] :
          d \in {x \in Sized : x.size < 3 /\ ~x.trash}}
  \cup {[WholeFrom(DocumentOf(<<Known>>)) EXCEPT !.limited = TRUE, !.status = 404]}
=============================================================================
