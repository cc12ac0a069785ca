---------------------------- MODULE MCDiscovery ----------------------------
(***************************************************************************)
(* Two hosts, a page that points to the places a link can lead to, and     *)
(* every combination of what those places answer.                          *)
(***************************************************************************)
EXTENDS Discovery

URLOf(s, h, p)  == [scheme |-> s, host |-> h, path |-> p, frag |-> ""]
AbsolutePath(p) == URLOf("", "", p)
Fragment(r)     == [r EXCEPT !.frag = "#part"]

MCInputs == {URLOf("https", "a", "/x"), Fragment(URLOf("", "a", "")),
             URLOf("http", "a", "/"), URLOf("https", "", "/x")}

Plain   == [NotFoundPage EXCEPT !.success = TRUE]
Catalog == [Plain EXCEPT !.doc = "catalog"]

Elsewhere == URLOf("https", "b", "/x")
Insecure  == URLOf("http", "b", "/x")

Linking(html, links, base, hrefs) ==
  [Plain EXCEPT !.html = html, !.links = links, !.base = base, !.hrefs = hrefs]

OnePath    == <<AbsolutePath("/y")>>
Mixed      == <<Insecure, Fragment(AbsolutePath("/y"))>>
OtherHost  == <<URLOf("", "b", "/y"), URLOf("https", "a", "")>>
FarThenOld == <<Elsewhere, AbsolutePath(WellKnownPath)>>

(* The pages a direct attempt may get. *)
Pages ==
  {Catalog, [Catalog EXCEPT !.success = FALSE], [Catalog EXCEPT !.html = TRUE],
   [Plain EXCEPT !.doc = "nospec"],
   [Linking(TRUE, OnePath, None, OtherHost) EXCEPT !.success = FALSE]}
  \cup {Linking(FALSE, l, None, OnePath) : l \in {OnePath, Mixed, OtherHost}}
  \cup {Linking(TRUE, l, b, h) : l \in {<<>>, Mixed}, b \in {None, Elsewhere},
                                h \in {OnePath, FarThenOld}}

(* The direct attempt may be redirected, and a fetcher may allow http. *)
DirectReplies ==
  {None} \cup
  {[url |-> u, page |-> p] : u \in {URLOf("https", "a", "/x"), Elsewhere, Insecure},
                             p \in Pages}

DirectKeys == {URLOf("https", "a", p) : p \in {"/x", "/", ""}}
Linked     == {URLOf("https", "a", "/y"), URLOf("https", "b", "/y")}
WellKnowns == {URLOf("https", "a", WellKnownPath), URLOf("https", "b", WellKnownPath)}

(* Which of the other addresses serve a catalog, and which do not answer;   *)
(* an address in neither set is not found.                                  *)
Answering ==
  {[good |-> g, silent |-> {}] : g \in SUBSET (Linked \cup WellKnowns)}
  \cup {[good |-> {u}, silent |-> Linked] : u \in WellKnowns}
  \cup {[good |-> {}, silent |-> WellKnowns]}

Web(direct, o) ==
  [k \in DirectKeys \cup o.good \cup o.silent |->
     IF k \in DirectKeys THEN direct
     ELSE IF k \in o.good THEN [url |-> k, page |-> Catalog] ELSE None]

MCWebs == {Web(d, o) : d \in DirectReplies, o \in Answering}
=============================================================================
