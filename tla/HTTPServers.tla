---------------------------- MODULE HTTPServers ----------------------------
(***************************************************************************)
(* What the servers that one Fetch of an HTTP client meets may answer: a   *)
(* site.  It does not change during the Fetch, so an address that is asked *)
(* again, in a loop of redirects, gives the same answer.                   *)
(***************************************************************************)
EXTENDS WebURL

CONSTANTS
  Starts,         \* the addresses Fetch may be called with
  Sites,          \* what the servers may answer
  MaxRedirects,   \* maxRedirects: the requests of one Fetch
  MaxBody         \* maxBodyBytes

(* Nothing, ever; no connection; a redirect; or a page of some size, whose   *)
(* connection breaks off at the end unless it is whole.                      *)
Answer ==
  [kind : {"silent", "unreachable"}] \cup [kind : {"redirect"}, to : URL]
    \cup [kind : {"page"}, size : Nat, whole : BOOLEAN]

IsSite(s) == DOMAIN s \subseteq URL /\ \A u \in DOMAIN s : s[u] \in Answer

(* Discover calls Fetch with https addresses alone. *)
ASSUME StartsAssumption == \A u \in Starts : u \in URL /\ IsHTTPS(u)
ASSUME SitesAssumption  == \A s \in Sites : IsSite(s)
ASSUME BoundsAssumption == MaxRedirects \in Nat \ {0} /\ MaxBody \in Nat

AnswerAt(s, u) == IF u \in DOMAIN s THEN s[u] ELSE [kind |-> "unreachable"]

-----------------------------------------------------------------------------
(* Where a chain of redirects leads, by a definition that has no requests.  *)

Followed(s, u) == AnswerAt(s, u).kind = "redirect" /\ IsHTTPS(AnswerAt(s, u).to)

(* The address some redirects away from u, or the last one before a redirect *)
(* that is not followed.  At most MaxRedirects requests reach the end.       *)
ChainEnd(s, u) ==
  LET hop[n \in Nat] ==
        IF n = 0 THEN u
        ELSE IF Followed(s, hop[n - 1]) THEN AnswerAt(s, hop[n - 1]).to ELSE hop[n - 1]
  IN  hop[MaxRedirects - 1]

Obtainable(s, u) ==
  LET answer == AnswerAt(s, ChainEnd(s, u))
  IN  answer.kind = "page" /\ answer.whole /\ answer.size <= MaxBody
=============================================================================
