------------------------------ MODULE Website ------------------------------
(***************************************************************************)
(* What a Fetcher of package discovery may answer.  A page is a response   *)
(* reduced to what discovery looks at: whether its status is a success,    *)
(* whether its type is HTML, what its body parses as, and the references   *)
(* of its Link header and its HTML head.  References url.Parse refuses     *)
(* lead nowhere and are left out.                                          *)
(*                                                                         *)
(* One call of Discover requests an address at most once, so the answers   *)
(* of a fetcher to it are a function of the address: a web.                *)
(***************************************************************************)
EXTENDS WebURL

CONSTANTS
  None,     \* the absent value: no base element, no response, no URL
  Webs      \* the webs a call may meet

(* doc: a catalog with a specVersion, JSON without one, or anything else. *)
Page == [success : BOOLEAN, html : BOOLEAN, doc : {"catalog", "nospec", "other"},
         links : Seq(Ref), base : Ref \cup {None}, hrefs : Seq(Ref)]

(* url is where the body was served from, after redirects. *)
Response == [url : URL, page : Page]

ASSUME NoneAssumption ==
  None \notin URL /\ None \notin Ref /\ None \notin Response

IsWeb(w) == /\ DOMAIN w \subseteq URL
            /\ \A k \in DOMAIN w : w[k] \in Response \cup {None}

ASSUME WebsAssumption == \A w \in Webs : IsWeb(w)

(* The answer to an address no web lists, as in the tests' fake fetcher. *)
NotFoundPage == [success |-> FALSE, html |-> FALSE, doc |-> "other",
                 links |-> <<>>, base |-> None, hrefs |-> <<>>]

Reply(w, u) == IF requestKey(u) \in DOMAIN w
               THEN w[requestKey(u)]
               ELSE [url |-> u, page |-> NotFoundPage]

(* The verdict of asCatalog: its three checks, of which the media type is none. *)
asCatalog(resp) == resp.page.success /\ resp.page.doc = "catalog"

(* What the references of an HTML head resolve against. *)
HTMLBase(resp) == IF resp.page.base = None THEN resp.url
                                           ELSE Resolve(resp.url, resp.page.base)
=============================================================================
