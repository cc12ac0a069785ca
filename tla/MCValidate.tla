----------------------------- MODULE MCValidate -----------------------------
(***************************************************************************)
(* Up to three entries with every combination of identifiers and versions, *)
(* or of versions and times; and up to four catalogs nested in each other, *)
(* with one fault anywhere.                                                *)
(***************************************************************************)
EXTENDS Validate, TLC

CONSTANTS a, b, v1, w1, v2, draft

(* v1 and w1 are two spellings of one version; draft is no semantic version. *)
MCPrecedence == v1 :> 1 @@ w1 :> 1 @@ v2 :> 2 @@ draft :> None

GoodEntry == [id |-> a, version |-> None, type |-> "other", url |-> TRUE, data |-> None,
              updatedAt |-> None, publisher |-> None, extensions |-> {}, policy |-> None,
              trust |-> TRUE]

CatalogOf(es) ==
  [specVersion |-> <<1, 0>>, host |-> "named", extensions |-> {}, trust |-> TRUE, entries |-> es]

ListsOf(S) == {<<CatalogOf(es)>> : es \in UNION {[1..n -> S] : n \in 0..3}}

(* Uniqueness: any identifiers and versions, in any order. *)
Versioned == {[GoodEntry EXCEPT !.id = i, !.version = v] : i \in {a, b}, v \in {None, v1, v2}}

(* The latest: any versions and times of one identifier, in any order. *)
Updated == {[GoodEntry EXCEPT !.version = v, !.updatedAt = t] :
              v \in {None, v1, w1, v2, draft}, t \in {None, 1, 2}}

(* Members of one catalog and one entry. *)
OneEntry(x) == <<CatalogOf(<<x>>)>>

Policies == {None, Bad} \cup {[privacyPolicyUrl |-> p, termsOfServiceUrl |-> t] :
                                p \in {"absent", "string", "other"}, t \in {"absent", "other"}}

Members ==
  {<<[CatalogOf(<<GoodEntry>>) EXCEPT !.specVersion = v]>> :
     v \in {<<>>, <<1>>, <<1, 7>>, <<1, Bad>>, <<-1, 0>>, <<1, -1>>, <<2, 0>>, <<1, 0, 0>>}}
  \cup {<<[CatalogOf(<<GoodEntry>>) EXCEPT !.host = h, !.trust = c, !.extensions = e]>> :
          h \in {"absent", "named", "unnamed"}, c \in BOOLEAN, e \in {{}, {"url", "plain"}}}
  \cup {OneEntry([GoodEntry EXCEPT !.id = i, !.url = u, !.data = d, !.type = y]) :
          i \in {a, None}, u \in BOOLEAN, d \in {None, Bad}, y \in {None, "catalog", "other"}}
  \cup {OneEntry([GoodEntry EXCEPT !.updatedAt = t, !.publisher = p, !.extensions = e]) :
          t \in {None, 1, Bad}, p \in {None, "complete", "partial"},
          e \in {{}, {"url"}, {"plain", "reverse-dns"}}}
  \cup {OneEntry([GoodEntry EXCEPT !.extensions = {"url"}, !.policy = p]) : p \in Policies}

(* Nesting: each catalog embeds earlier ones, or something else. *)
Embedding(d) == [GoodEntry EXCEPT !.type = "catalog", !.url = (d = None), !.data = d]

Inner(n) == {CatalogOf(<<Embedding(d)>>) : d \in {None, Bad} \cup 1..(n - 1)}
Leaf     == {CatalogOf(<<>>), [CatalogOf(<<>>) EXCEPT !.specVersion = <<2, 0>>],
             CatalogOf(<<GoodEntry, GoodEntry>>), CatalogOf(<<[GoodEntry EXCEPT !.trust = FALSE]>>)}

Outer(n) ==
  {CatalogOf(<<Embedding(d), [Embedding(x) EXCEPT !.id = b]>>) :
     d \in {None, Bad} \cup 1..(n - 1), x \in 1..(n - 1)}

Deep ==
  {<<l, i, o>> : l \in Leaf, i \in Inner(2), o \in Outer(3)}
  \cup {<<l, i, j, o>> : l \in Leaf, i \in Inner(2), j \in Inner(3), o \in Outer(4)}

MCDocuments == ListsOf(Versioned) \cup ListsOf(Updated) \cup Members \cup Deep
=============================================================================
