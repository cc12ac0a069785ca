----------------------------- MODULE HTTPFetch -----------------------------
(***************************************************************************)
(* One Fetch of discovery's httpFetcher with its default client: requests, *)
(* redirects and a body that arrives piece by piece, any of which the      *)
(* network may delay for ever, under a time limit that covers them all.    *)
(***************************************************************************)
EXTENDS HTTPServers

VARIABLES
  start,      \* the address Fetch was called with
  site,       \* what the servers answer
  stopped,    \* the client's timeout has passed, or the caller's context is done
  pc,         \* where the call stands
  at,         \* the address of the request at hand
  via,        \* the addresses requested, in order
  body,       \* how much of the body has been read
  result      \* what Fetch returned

vars == <<start, site, stopped, pc, at, via, body, result>>

Result == [status : {"running", "error"}]
          \cup [status : {"response"}, url : URL, size : Nat]

(* Definitions named Mutant... are plausible mistakes in the definition that *)
(* follows; the properties are tested by putting them in its place.         *)
MutantReadLimit == MaxBody

(* The reader ends one past the limit, so that a body of the limit is told   *)
(* from a longer one.                                                        *)
ReadLimit == MaxBody + 1

MutantFollowsHTTP(to, sent) == Len(sent) < MaxRedirects

MutantOneTooMany(to, sent) == IsHTTPS(to) /\ Len(sent) <= MaxRedirects

CheckRedirect(to, sent) == IsHTTPS(to) /\ Len(sent) < MaxRedirects

-----------------------------------------------------------------------------
Init ==
  /\ start \in Starts
  /\ site \in Sites
  /\ stopped = FALSE
  /\ pc = "send"
  /\ at = start
  /\ via = <<>>
  /\ body = 0
  /\ result = [status |-> "running"]

Return(r) == pc' = "done" /\ result' = r

Error == [status |-> "error"]

(* The timeout passes, or the caller cancels. *)
Stop ==
  /\ pc # "done"
  /\ ~stopped
  /\ stopped' = TRUE
  /\ UNCHANGED <<start, site, pc, at, via, body, result>>

GiveUp ==
  /\ pc # "done"
  /\ stopped
  /\ Return(Error)
  /\ UNCHANGED <<start, site, stopped, at, via, body>>

Send ==
  /\ pc = "send"
  /\ via' = Append(via, at)
  /\ pc' = "wait"
  /\ UNCHANGED <<start, site, stopped, at, body, result>>

ConnectionFails ==
  /\ pc = "wait"
  /\ AnswerAt(site, at).kind = "unreachable"
  /\ Return(Error)
  /\ UNCHANGED <<start, site, stopped, at, via, body>>

Redirected ==
  /\ pc = "wait"
  /\ AnswerAt(site, at).kind = "redirect"
  /\ IF CheckRedirect(AnswerAt(site, at).to, via)
     THEN pc' = "send" /\ at' = AnswerAt(site, at).to /\ UNCHANGED result
     ELSE Return(Error) /\ UNCHANGED at
  /\ UNCHANGED <<start, site, stopped, via, body>>

HeaderArrives ==
  /\ pc = "wait"
  /\ AnswerAt(site, at).kind = "page"
  /\ pc' = "read"
  /\ UNCHANGED <<start, site, stopped, at, via, body, result>>

MutantUnlimited ==
  /\ pc = "read"
  /\ body < AnswerAt(site, at).size
  /\ body' = body + 1
  /\ UNCHANGED <<start, site, stopped, pc, at, via, result>>

BodyArrives ==
  /\ pc = "read"
  /\ body < AnswerAt(site, at).size
  /\ body < ReadLimit
  /\ body' = body + 1
  /\ UNCHANGED <<start, site, stopped, pc, at, via, result>>

MutantLimitRefused ==
  /\ pc = "read"
  /\ body = AnswerAt(site, at).size \/ body = ReadLimit
  /\ IF body >= MaxBody \/ ~AnswerAt(site, at).whole
     THEN Return(Error)
     ELSE Return([status |-> "response", url |-> at, size |-> body])
  /\ UNCHANGED <<start, site, stopped, at, via, body>>

(* The end of the body, a broken connection, or the limit of the reader. *)
ReadEnds ==
  /\ pc = "read"
  /\ body = AnswerAt(site, at).size \/ body = ReadLimit
  /\ IF body > MaxBody \/ (body < ReadLimit /\ ~AnswerAt(site, at).whole)
     THEN Return(Error)
     ELSE Return([status |-> "response", url |-> at, size |-> body])
  /\ UNCHANGED <<start, site, stopped, at, via, body>>

(* The client's own steps; the others are the network's. *)
ClientStep  == GiveUp \/ Send \/ ReadEnds
NetworkStep == ConnectionFails \/ Redirected \/ HeaderArrives \/ BodyArrives

Next == Stop \/ ClientStep \/ NetworkStep

Spec == Init /\ [][Next]_vars

(* The client runs and its timeout passes; the network need not do anything. *)
FairSpec == Spec /\ WF_vars(ClientStep) /\ WF_vars(Stop)
-----------------------------------------------------------------------------
(* Every variable stays in its set, and a request waits only where one was  *)
(* sent.                                                                    *)
TypeOK ==
  /\ start \in Starts
  /\ IsSite(site)
  /\ stopped \in BOOLEAN
  /\ pc \in {"send", "wait", "read", "done"}
  /\ at \in URL
  /\ via \in Seq(URL)
  /\ body \in 0..ReadLimit
  /\ result \in Result

(* "Redirects to http are refused" (README.md:80): no server is asked for   *)
(* an address that is not https, and a redirect loop ends after             *)
(* MaxRedirects requests (fetcher.go:76-86).                                *)
RequestsAreBounded ==
  /\ Len(via) <= MaxRedirects
  /\ \A k \in DOMAIN via : IsHTTPS(via[k])

(* A response is never part of a page: its body is all the server has at    *)
(* the address the response names, which is the last one requested; a page  *)
(* over the limit is an error (fetcher.go:108-118).                         *)
ResponseIsWhole ==
  result.status = "response" =>
    /\ via # <<>> /\ result.url = via[Len(via)]
    /\ AnswerAt(site, result.url).kind = "page"
    /\ AnswerAt(site, result.url).whole
    /\ result.size = AnswerAt(site, result.url).size
    /\ result.size <= MaxBody

(* Fetch implements its promise: the page at the end of the redirects, or   *)
(* an error that the page or the time accounts for, and in any case an end. *)
Promise == INSTANCE FetchPromise
ImplementsPromise == Promise!Spec
=============================================================================
