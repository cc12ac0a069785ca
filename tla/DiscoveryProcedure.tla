------------------------- MODULE DiscoveryProcedure -------------------------
(***************************************************************************)
(* What Discover promises, in one step: of all the places the procedure    *)
(* names, the answer is the first that is https and serves a catalog.  The *)
(* order is the one the comment of package discovery gives (discovery.go:7 *)
(* to 14).  A call whose context is done may give up instead; no other may.*)
(***************************************************************************)
EXTENDS Website

VARIABLES input, web, ctxDone, outcome

vars == <<input, web, ctxDone, outcome>>

CONSTANT Inputs

Acceptable(in) == in.scheme \in {"", "https"} /\ in.host # ""

Asked(in) == [scheme |-> "https", host |-> in.host, frag |-> in.frag,
              path |-> IF in.path = EmptyPath THEN RootPath ELSE in.path]

(* A place: the source that names it, its position there, and its address. *)
Direct(in) == {[source |-> 0, nth |-> 1, url |-> Asked(in), method |-> "direct"]}

InHeaders(r) ==
  {[source |-> 1, nth |-> k, url |-> Resolve(r.url, r.page.links[k]),
    method |-> "link-header"] : k \in DOMAIN r.page.links}

InHTML(r) ==
  {[source |-> 2, nth |-> k, url |-> Resolve(HTMLBase(r), r.page.hrefs[k]),
    method |-> "html-link"] : k \in IF r.page.html THEN DOMAIN r.page.hrefs ELSE {}}

(* The host a redirect led to, known from any response, precedes the one asked. *)
AtWellKnown(in, r) ==
  {[source |-> 3, nth |-> IF b = Asked(in) THEN 2 ELSE 1, url |-> WellKnown(b),
    method |-> "well-known"] : b \in {Asked(in)} \cup (IF r = None THEN {} ELSE {r.url})}

Places(in, w) ==
  LET r == Reply(w, Asked(in))
  IN  Direct(in) \cup AtWellKnown(in, r)
      \cup (IF r # None /\ r.page.success THEN InHeaders(r) \cup InHTML(r) ELSE {})

Serves(w, u) == Reply(w, u) # None /\ asCatalog(Reply(w, u))

Good(in, w) == {p \in Places(in, w) : IsHTTPS(p.url) /\ Serves(w, p.url)}

Before(p, q) == p.source < q.source \/ (p.source = q.source /\ p.nth < q.nth)

(* The answers the procedure allows.  There is one: places of equal rank
   (two well-known URIs of one origin) have equal addresses.               *)
Answers(in, w) ==
  IF ~Acceptable(in) THEN {[status |-> "invalid"]}
  ELSE IF Good(in, w) = {} THEN {[status |-> "not-found"]}
  ELSE {[status |-> "found", url |-> Reply(w, p.url).url, method |-> p.method] :
          p \in {q \in Good(in, w) : \A o \in Good(in, w) : ~Before(o, q)}}

Init ==
  /\ input \in Inputs
  /\ web \in Webs
  /\ ctxDone \in BOOLEAN
  /\ outcome = [status |-> "running"]

Cancel ==
  /\ outcome.status = "running"
  /\ ~ctxDone
  /\ ctxDone' = TRUE
  /\ UNCHANGED <<input, web, outcome>>

Answer ==
  /\ outcome.status = "running"
  /\ outcome' \in Answers(input, web)
                    \cup (IF ctxDone /\ Acceptable(input) THEN {[status |-> "cancelled"]} ELSE {})
  /\ UNCHANGED <<input, web, ctxDone>>

Next == Cancel \/ Answer

(* No answer but these, whenever one comes; and that one comes. *)
Safety == Init /\ [][Next]_vars

Spec == Safety /\ WF_vars(Answer)
=============================================================================
