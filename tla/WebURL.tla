------------------------------- MODULE WebURL -------------------------------
(***************************************************************************)
(* Addresses, as package discovery uses them.  A URL is a scheme, a host,  *)
(* a path (which carries the query too) and a fragment; "" stands for a    *)
(* part that is absent.  A reference is written the same way, with an      *)
(* absent scheme or host when it is relative.  Every scheme other than     *)
(* https is treated alike by the code, so "http" stands for all of them.   *)
(***************************************************************************)
EXTENDS Naturals, Sequences

CONSTANTS
  Hosts,        \* the hosts a URL may name
  OtherPaths    \* paths other than the three the code singles out

EmptyPath     == ""
RootPath      == "/"
WellKnownPath == "/.well-known/ai-catalog.json"

Schemes   == {"https", "http"}
Paths     == {EmptyPath, RootPath, WellKnownPath} \cup OtherPaths
Fragments == {"", "#part"}

URL == [scheme : Schemes, host : Hosts \cup {""}, path : Paths, frag : Fragments]

Ref == [scheme : Schemes \cup {""}, host : Hosts \cup {""},
        path : Paths, frag : Fragments]

IsHTTPS(u) == u.scheme = "https"

(***************************************************************************)
(* url.URL.Parse on a base: an absolute reference, or one that names a     *)
(* host, replaces everything but an absent scheme; a relative one replaces *)
(* the path and the fragment, unless it has neither.                       *)
(***************************************************************************)
Resolve(base, ref) ==
  IF ref.scheme # "" \/ ref.host # ""
  THEN [ref EXCEPT !.scheme = IF @ = "" THEN base.scheme ELSE @]
  ELSE [base EXCEPT !.path = IF ref.path = EmptyPath THEN @ ELSE ref.path,
                    !.frag = IF ref.path = EmptyPath /\ ref.frag = ""
                             THEN @ ELSE ref.frag]

(* The URL without its fragment: what a Discover call remembers of a request. *)
requestKey(u) == [u EXCEPT !.frag = ""]

sameOrigin(a, b) == a.scheme = b.scheme /\ a.host = b.host

(* What an HTTP client asks a server for: no fragment, and "/" for no path. *)
WireTarget(u) ==
  [u EXCEPT !.frag = "", !.path = IF @ = EmptyPath THEN RootPath ELSE @]

(* The well-known URI on the host of base. *)
WellKnown(base) ==
  Resolve(base, [scheme |-> "", host |-> "", path |-> WellKnownPath, frag |-> ""])
=============================================================================
