------------------------- MODULE MCDiscoverOverHTTP -------------------------
(***************************************************************************)
(* A page that is served, redirected or withheld, and links to two others; *)
(* one request may time out.                                               *)
(***************************************************************************)
EXTENDS DiscoverOverHTTP, TLC

URLOf(s, h, p) == [scheme |-> s, host |-> h, path |-> p, frag |-> ""]

Asked     == URLOf("https", "a", "/x")
Linked    == URLOf("https", "a", "/y")
Elsewhere == URLOf("https", "b", "/x")
Insecure  == URLOf("http", "b", "/x")
WellKnownOf(h) == URLOf("https", h, WellKnownPath)

MCInputs == {URLOf("", "a", "/x")}

PageOf(doc, links) == [success |-> TRUE, html |-> FALSE, doc |-> doc,
                       links |-> links, base |-> None, hrefs |-> <<>>]
Catalog == PageOf("catalog", <<>>)
Plain   == PageOf("other", <<>>)
Linking ==
  PageOf("other", <<URLOf("", "", "/y"), Insecure, Elsewhere, URLOf("", "", "/x")>>)

Whole         == [kind |-> "page", size |-> 1, whole |-> TRUE]
TooLong       == [kind |-> "page", size |-> MaxBody + 1, whole |-> TRUE]
BrokenOff     == [kind |-> "page", size |-> 1, whole |-> FALSE]
Silent        == [kind |-> "silent"]
Unreachable   == [kind |-> "unreachable"]
RedirectTo(u) == [kind |-> "redirect", to |-> u]

Served ==
  {Asked :> x @@ Linked :> y @@ Elsewhere :> e @@ Insecure :> Whole
     @@ WellKnownOf("a") :> w @@ WellKnownOf("b") :> Whole :
     x \in {Whole, RedirectTo(Elsewhere), RedirectTo(Insecure), Silent},
     y \in {Whole, TooLong, BrokenOff, RedirectTo(Elsewhere), RedirectTo(Linked)},
     e \in {Whole, RedirectTo(Linked)},
     w \in {Whole, Unreachable}}

Contents ==
  {Asked :> Linking @@ Linked :> y @@ Elsewhere :> e @@ Insecure :> Catalog
     @@ WellKnownOf("a") :> Catalog @@ WellKnownOf("b") :> Plain :
     y \in {Plain, Catalog}, e \in {Linking, Catalog}}

MCNetworks ==
  {[site |-> s, contents |-> c, late |-> l] :
     s \in Served, c \in Contents, l \in {{}, {Asked}, {Linked}}}
=============================================================================
