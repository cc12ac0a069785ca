----------------------------- MODULE Discovery -----------------------------
(***************************************************************************)
(* One call of discovery.Discover, in the steps another goroutine can come *)
(* between: the caller's context may be done at any moment, in particular  *)
(* between the check of the context and the request it guards, and while   *)
(* a request is in flight.                                                 *)
(***************************************************************************)
EXTENDS Website, FiniteSets

CONSTANT Inputs     \* the inputs a call may be given

ASSUME InputsAssumption == Inputs \subseteq Ref

VARIABLES
  input,        \* what was asked for; host "" covers all that names no host
  web,          \* what the fetcher answers
  ctxDone,      \* ctx.Err() # nil
  pc,           \* where the call stands
  i,            \* the candidate at hand, 0 for the direct attempt
  candidates,   \* the candidates after the direct attempt
  requested,    \* discoverer.requested
  attempts,     \* discoverer.attempts
  outcome,      \* what the call returned
  fetches       \* history: the requests the fetcher has seen

vars == <<input, web, ctxDone, pc, i, candidates, requested, attempts, outcome, fetches>>

Methods    == {"direct", "link-header", "html-link", "well-known"}
Candidate  == [url : URL, method : Methods]
Attempt    == [url : URL, method : Methods, reason : {"scheme", "fetch", "document"}]
FetchEvent == [url : URL, method : Methods, late : BOOLEAN]
Outcome    == [status : {"running", "invalid", "cancelled", "not-found"}]
              \cup [status : {"found"}, url : URL, method : Methods]

(* https is assumed when the input has no scheme; an empty path becomes "/". *)
parseInput(in) ==
  LET u == [in EXCEPT !.scheme = IF @ = "" THEN "https" ELSE @]
  IN  IF ~IsHTTPS(u) \/ u.host = "" THEN None
      ELSE [u EXCEPT !.path = IF @ = EmptyPath THEN RootPath ELSE @]

start == parseInput(input)

(* Definitions named Mutant... are plausible mistakes in the definition that *)
(* follows; the properties are tested by putting them in its place.         *)
MutantUnresolvedHeaders(resp) ==
  [k \in DOMAIN resp.page.links |-> [url |-> resp.page.links[k], method |-> "link-header"]]

headerCandidates(resp) ==
  [k \in DOMAIN resp.page.links |->
     [url |-> Resolve(resp.url, resp.page.links[k]), method |-> "link-header"]]

htmlCandidates(resp) ==
  [k \in DOMAIN resp.page.hrefs |->
     [url |-> Resolve(HTMLBase(resp), resp.page.hrefs[k]), method |-> "html-link"]]

MutantHTMLFirst(resp) ==
  (IF resp.page.html THEN htmlCandidates(resp) ELSE <<>>) \o headerCandidates(resp)

linkCandidates(resp) ==
  headerCandidates(resp) \o (IF resp.page.html THEN htmlCandidates(resp) ELSE <<>>)

(* The well-known URI of the host reached, then that of the host asked for. *)
wellKnownCandidates(asked, resp) ==
  LET at(base) == [url |-> WellKnown(base), method |-> "well-known"]
  IN  IF resp # None /\ ~sameOrigin(resp.url, asked)
      THEN <<at(resp.url), at(asked)>>
      ELSE <<at(asked)>>

(* What is left to try after a direct attempt that ended with resp, or None. *)
candidatesAfter(asked, resp) ==
  (IF resp # None /\ resp.page.success THEN linkCandidates(resp) ELSE <<>>)
    \o wellKnownCandidates(asked, resp)

Current == IF i = 0 THEN [url |-> start, method |-> "direct"] ELSE candidates[i]

-----------------------------------------------------------------------------
Init ==
  /\ input \in Inputs
  /\ web \in Webs
  /\ ctxDone \in BOOLEAN
  /\ pc = "parse"
  /\ i = 0
  /\ candidates = <<>>
  /\ requested = {}
  /\ attempts = <<>>
  /\ outcome = [status |-> "running"]
  /\ fetches = <<>>

Return(o) == pc' = "done" /\ outcome' = o

fail(u, reason) ==
  attempts' = Append(attempts, [url |-> u, method |-> Current.method, reason |-> reason])

(* On to the next candidate; the direct attempt determines what those are. *)
Continue(resp) ==
  /\ pc' = "try"
  /\ i' = i + 1
  /\ candidates' = IF i = 0 THEN candidatesAfter(start, resp) ELSE candidates
  /\ UNCHANGED outcome

(* The caller cancels, or its deadline passes. *)
Cancel ==
  /\ pc # "done"
  /\ ~ctxDone
  /\ ctxDone' = TRUE
  /\ UNCHANGED <<input, web, pc, i, candidates, requested, attempts, outcome, fetches>>

ParseInput ==
  /\ pc = "parse"
  /\ IF start = None THEN Return([status |-> "invalid"])
                     ELSE pc' = "try" /\ UNCHANGED outcome
  /\ UNCHANGED <<input, web, ctxDone, i, candidates, requested, attempts, fetches>>

MutantRefuseStops ==
  /\ pc = "try"
  /\ i \in DOMAIN candidates
  /\ ~IsHTTPS(Current.url)
  /\ fail(Current.url, "scheme")
  /\ Return([status |-> "not-found"])
  /\ UNCHANGED <<input, web, ctxDone, i, candidates, requested, fetches>>

(* A candidate that is not https is refused; the context is not looked at. *)
Refuse ==
  /\ pc = "try"
  /\ i \in DOMAIN candidates
  /\ ~IsHTTPS(Current.url)
  /\ fail(Current.url, "scheme")
  /\ Continue(None)
  /\ UNCHANGED <<input, web, ctxDone, requested, fetches>>

MutantAnySchemeTried == pc = "try" /\ (i = 0 \/ i \in DOMAIN candidates)

(* The loop gets to try: the direct attempt, or an https candidate. *)
Trying ==
  /\ pc = "try"
  /\ i = 0 \/ (i \in DOMAIN candidates /\ IsHTTPS(Current.url))

TryCancelled ==
  /\ Trying
  /\ ctxDone
  /\ Return([status |-> "cancelled"])
  /\ UNCHANGED <<input, web, ctxDone, i, candidates, requested, attempts, fetches>>

MutantSkipStaysPut ==
  /\ Trying
  /\ ~ctxDone
  /\ requestKey(Current.url) \in requested
  /\ UNCHANGED vars

SkipRequested ==
  /\ Trying
  /\ ~ctxDone
  /\ requestKey(Current.url) \in requested
  /\ Continue(None)
  /\ UNCHANGED <<input, web, ctxDone, requested, attempts, fetches>>

MutantForgetsRequest ==
  /\ Trying
  /\ ~ctxDone
  /\ requestKey(Current.url) \notin requested
  /\ pc' = "fetch"
  /\ UNCHANGED <<input, web, ctxDone, i, candidates, requested, attempts, outcome, fetches>>

MutantIgnoresContext ==
  /\ Trying
  /\ requestKey(Current.url) \notin requested
  /\ requested' = requested \cup {requestKey(Current.url)}
  /\ pc' = "fetch"
  /\ UNCHANGED <<input, web, ctxDone, i, candidates, attempts, outcome, fetches>>

MarkRequested ==
  /\ Trying
  /\ ~ctxDone
  /\ requestKey(Current.url) \notin requested
  /\ requested' = requested \cup {requestKey(Current.url)}
  /\ pc' = "fetch"
  /\ UNCHANGED <<input, web, ctxDone, i, candidates, attempts, outcome, fetches>>

BeginFetch ==
  /\ pc = "fetch"
  /\ fetches' = Append(fetches, [url |-> Current.url, method |-> Current.method,
                                 late |-> ctxDone])
  /\ pc' = "wait"
  /\ UNCHANGED <<input, web, ctxDone, i, candidates, requested, attempts, outcome>>

MutantSilentFailure ==
  /\ pc = "wait"
  /\ ctxDone \/ Reply(web, Current.url) = None
  /\ IF ctxDone
     THEN Return([status |-> "cancelled"]) /\ UNCHANGED <<i, candidates>>
     ELSE Continue(None)
  /\ UNCHANGED <<input, web, ctxDone, requested, attempts, fetches>>

(* Fetch returns an error: there is no response, or the context is done. *)
FetchFails ==
  /\ pc = "wait"
  /\ ctxDone \/ Reply(web, Current.url) = None
  /\ IF ctxDone
     THEN /\ Return([status |-> "cancelled"])
          /\ UNCHANGED <<i, candidates, attempts>>
     ELSE fail(Current.url, "fetch") /\ Continue(None)
  /\ UNCHANGED <<input, web, ctxDone, requested, fetches>>

(* Fetch returns a response, which it may do although the context is done. *)
FetchReturns ==
  /\ pc = "wait"
  /\ Reply(web, Current.url) # None
  /\ LET resp == Reply(web, Current.url)
     IN  IF asCatalog(resp)
         THEN /\ Return([status |-> "found", url |-> resp.url, method |-> Current.method])
              /\ UNCHANGED <<i, candidates, attempts>>
         ELSE fail(resp.url, "document") /\ Continue(resp)
  /\ UNCHANGED <<input, web, ctxDone, requested, fetches>>

Exhausted ==
  /\ pc = "try"
  /\ i > Len(candidates)
  /\ i # 0
  /\ Return([status |-> "not-found"])
  /\ UNCHANGED <<input, web, ctxDone, i, candidates, requested, attempts, fetches>>

(* The steps of the call itself; Cancel is its caller's. *)
Step == \/ ParseInput \/ Refuse \/ TryCancelled \/ SkipRequested \/ MarkRequested
        \/ BeginFetch \/ FetchFails \/ FetchReturns \/ Exhausted

Next == Cancel \/ Step

Spec == Init /\ [][Next]_vars

(* A call runs on, and every request ends: the default client has a timeout. *)
FairSpec == Spec /\ WF_vars(Step)
-----------------------------------------------------------------------------
(* Every variable stays in its set, through every operation of a call.     *)
TypeOK ==
  /\ input \in Inputs
  /\ IsWeb(web)
  /\ ctxDone \in BOOLEAN
  /\ pc \in {"parse", "try", "fetch", "wait", "done"}
  /\ i \in Nat
  /\ candidates \in Seq(Candidate)
  /\ requested \subseteq URL
  /\ attempts \in Seq(Attempt)
  /\ outcome \in Outcome
  /\ fetches \in Seq(FetchEvent)
  /\ pc # "parse" /\ outcome.status # "invalid" => start # None

(* "Only https is requested" (discovery.go:20), whatever addresses the      *)
(* pages name: what the fetcher of a call sees is https.                    *)
OnlyHTTPSRequested == \A k \in DOMAIN fetches : IsHTTPS(fetches[k].url)

(* No page is asked for twice by one call, however many links, headers and  *)
(* fallbacks name it, with or without a fragment (discovery.go:214-219).    *)
RequestedOnce ==
  \A j, k \in DOMAIN fetches :
    requestKey(fetches[j].url) = requestKey(fetches[k].url) => j = k

(* A context that is done stops the search: of all the requests, at most    *)
(* the last begins with it done, the one already past the check of the      *)
(* context (discovery.go:210-221).                                          *)
CancelStopsRequests ==
  \A k \in DOMAIN fetches : fetches[k].late => k = Len(fetches)

(* Only a caller whose context is done is told so, and a call that reports  *)
(* that there is no catalog asked for every candidate that is https,        *)
(* cancelled or not: no candidate is passed over (discovery.go:178-190).    *)
NotFoundIsThorough ==
  /\ outcome.status = "cancelled" => ctxDone
  /\ outcome.status = "not-found" =>
       \A k \in DOMAIN candidates :
         \/ \E j \in DOMAIN fetches :
              requestKey(fetches[j].url) = requestKey(candidates[k].url)
         \/ \E j \in DOMAIN attempts :
              attempts[j].url = candidates[k].url /\ attempts[j].reason = "scheme"

(* The attempts of a NotFoundError account for every request, in order and  *)
(* by the method that led to it: no failure is lost and none is reported    *)
(* twice (discovery.go:227, 234).  Tried are those of the first k attempts  *)
(* that come from a request: the last of them is that of as many requests.  *)
Tried(log, k) == {j \in 1..k : log[j].reason # "scheme"}

AttemptsAccountForRequests ==
  outcome.status = "not-found" =>
    LET tried == Tried(attempts, Len(attempts))
    IN  /\ Cardinality(tried) = Len(fetches)
        /\ \A k \in tried :
             attempts[k].method = fetches[Cardinality(Tried(attempts, k))].method

(* Every call returns, whatever the web: the links of the first page are    *)
(* followed, those of the pages they lead to are not (discovery.go:16).     *)
Terminates == <>(pc = "done")

(* The answer is that of the procedure the package describes: the first     *)
(* catalog in the order direct, Link header, HTML link, well-known; and     *)
(* "not found" only when no place holds one, however the caller's           *)
(* cancellation is timed (discovery.go:7-17).                               *)
Procedure == INSTANCE DiscoveryProcedure
ImplementsProcedure == Procedure!Spec

-----------------------------------------------------------------------------
(* Two statements of the sources that the code does not keep.              *)

(* "try requests u, unless it was requested already" (discovery.go:206),   *)
(* and "An empty path is a request for /" (discovery.go:269), so no server *)
(* is asked for the same target twice.                                     *)
WireRequestedOnce ==
  \A j, k \in DOMAIN fetches :
    WireTarget(fetches[j].url) = WireTarget(fetches[k].url) => j = k

(* "NotFoundError lists every URL that was tried and why it failed"        *)
(* (README.md:71).                                                         *)
AttemptsNameEveryRequest ==
  outcome.status = "not-found" =>
    \A k \in DOMAIN fetches : \E j \in DOMAIN attempts : attempts[j].url = fetches[k].url
=============================================================================
