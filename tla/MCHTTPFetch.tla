---------------------------- MODULE MCHTTPFetch ----------------------------
(***************************************************************************)
(* Every way three https addresses and an http one can redirect to each     *)
(* other, serve pages around the limit, break off, or not answer.          *)
(***************************************************************************)
EXTENDS HTTPFetch, TLC

At(s, p) == [scheme |-> s, host |-> "a", path |-> p, frag |-> ""]

Plain  == At("http", "/x")
Secure == {At("https", p) : p \in {"/x", "/y", "/"}}

MCStarts == {At("https", "/x")}

Endings ==
  {[kind |-> "silent"], [kind |-> "unreachable"]}
  \cup {[kind |-> "page", size |-> n, whole |-> w] : n \in 0..(MaxBody + 2), w \in BOOLEAN}

RedirectTo(u) == [kind |-> "redirect", to |-> u]

(* The addresses form a chain or a loop of any length, and those that end   *)
(* it do so in one way.                                                     *)
MCSites ==
  LET Insecure == Plain :> [kind |-> "page", size |-> 0, whole |-> TRUE]
      Targets  == {RedirectTo(u) : u \in Secure \cup {Plain}}
  IN  UNION {{f @@ Insecure : f \in [Secure -> {x} \cup Targets]} : x \in Endings}
=============================================================================
