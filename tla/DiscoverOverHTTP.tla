-------------------------- MODULE DiscoverOverHTTP --------------------------
(***************************************************************************)
(* Discover with its default fetcher: each request of a call is a run of   *)
(* HTTPFetch, with redirects, a body that arrives in pieces and a timeout  *)
(* of its own, under the caller's context.  The steps are those of the two *)
(* modules; what is new is where one hands over to the other.              *)
(*                                                                         *)
(* Addresses have no fragment here; Discovery has them.                    *)
(***************************************************************************)
EXTENDS HTTPServers

CONSTANTS
  None,       \* the absent value
  Inputs,     \* the inputs a call may be given
  Networks    \* the servers a call may meet

VARIABLES
  network,      \* the servers of this call
  input, ctxDone, pc, i, candidates, requested, attempts, outcome, fetches,
                \* of the call; see Discovery
  timedOut,     \* the timeout of the request at hand has passed
  fpc, at, via, body, result
                \* of the request at hand; see HTTPFetch, where fpc is pc

callVars  == <<input, ctxDone, pc, i, candidates, requested, attempts, outcome, fetches>>
fetchVars == <<timedOut, fpc, at, via, body, result>>
vars      == <<network, callVars, fetchVars>>

(* contents: what the page at an address is.  late: the addresses whose      *)
(* request will time out, though there is a page to be had.                  *)
Addresses == {u \in URL : IsHTTPS(u) /\ u.frag = ""}

Response(n, u) == [url |-> u, page |-> n.contents[u]]

(* What a request for u comes to, as HTTPFetch promises. *)
Come(n, u) == IF u \in n.late \/ ~Obtainable(n.site, u) THEN None
              ELSE Response(n, ChainEnd(n.site, u))

(* The web of Discovery that a network amounts to. *)
Web  == [n \in Networks |-> [u \in Addresses |-> Come(n, u)]]
Webs == {Web[n] : n \in Networks}

Call == INSTANCE Discovery WITH web <- Web[network]

Request == INSTANCE HTTPFetch
             WITH start <- Call!Current.url, site <- network.site,
                  stopped <- timedOut \/ ctxDone, pc <- fpc,
                  Starts <- Addresses, Sites <- {n.site : n \in Networks}

ASSUME InputsAssumption == Inputs \subseteq Ref
ASSUME NoneAssumption == None \notin URL /\ None \notin Ref /\ None \notin Call!Response

ASSUME NetworksAssumption ==
  \A n \in Networks : /\ IsSite(n.site)
                      /\ n.late \subseteq Addresses
                      /\ \A u \in DOMAIN n.site : n.site[u].kind = "page" =>
                           u \in DOMAIN n.contents /\ n.contents[u] \in Call!Page

WithoutFragments(refs) == \A k \in DOMAIN refs : refs[k].frag = ""

(* No address that a call meets has a fragment. *)
ASSUME FragmentsAssumption ==
  /\ \A in \in Inputs : in.frag = ""
  /\ \A n \in Networks :
       /\ \A u \in DOMAIN n.site : n.site[u].kind = "redirect" => n.site[u].to.frag = ""
       /\ \A u \in DOMAIN n.contents :
            /\ WithoutFragments(n.contents[u].links) /\ WithoutFragments(n.contents[u].hrefs)
            /\ n.contents[u].base # None => n.contents[u].base.frag = ""

-----------------------------------------------------------------------------
Init ==
  /\ network \in Networks
  /\ Call!Init
  /\ timedOut = FALSE
  /\ fpc = "done"
  /\ at = None
  /\ via = <<>>
  /\ body = 0
  /\ result = [status |-> "running"]

Cancel == UNCHANGED <<network, fetchVars>> /\ Call!Cancel

(* The steps of the call between requests. *)
Search ==
  /\ UNCHANGED <<network, fetchVars>>
  /\ \/ Call!ParseInput \/ Call!Refuse \/ Call!TryCancelled
     \/ Call!SkipRequested \/ Call!MarkRequested \/ Call!Exhausted

(* Definitions named Mutant... are plausible mistakes in the definition that *)
(* follows; the properties are tested by putting them in its place.         *)
MutantOneClientState ==
  /\ UNCHANGED <<network, via>>
  /\ Call!BeginFetch
  /\ timedOut' = FALSE
  /\ fpc' = "send"
  /\ at' = Call!Current.url
  /\ body' = 0
  /\ result' = [status |-> "running"]

MutantOneTimeout ==
  /\ UNCHANGED <<network, timedOut>>
  /\ Call!BeginFetch
  /\ fpc' = "send"
  /\ at' = Call!Current.url
  /\ via' = <<>>
  /\ body' = 0
  /\ result' = [status |-> "running"]

(* The client starts afresh, with a timeout that covers this request only. *)
BeginFetch ==
  /\ UNCHANGED network
  /\ Call!BeginFetch
  /\ timedOut' = FALSE
  /\ fpc' = "send"
  /\ at' = Call!Current.url
  /\ via' = <<>>
  /\ body' = 0
  /\ result' = [status |-> "running"]

Fetching == pc = "wait" /\ fpc # "done"

(* A request whose page cannot be had, or not in time, may time out; one    *)
(* that is late does not get its page.                                      *)
TimesOut ==
  /\ Fetching
  /\ ~timedOut
  /\ Web[network][Call!Current.url] = None
  /\ timedOut' = TRUE
  /\ UNCHANGED <<network, callVars, fpc, at, via, body, result>>

Transfer ==
  /\ Fetching
  /\ UNCHANGED <<network, callVars, timedOut>>
  /\ Request!ClientStep \/ Request!NetworkStep
  /\ Call!Current.url \in network.late => result'.status # "response"

(* Fetch returns to try, which judges what it got. *)
EndFetch ==
  /\ pc = "wait"
  /\ fpc = "done"
  /\ UNCHANGED <<network, fetchVars, input, ctxDone, requested, fetches>>
  /\ IF result.status = "response"
     THEN LET resp == Response(network, result.url) IN
          IF Call!asCatalog(resp)
          THEN /\ Call!Return([status |-> "found", url |-> resp.url,
                               method |-> Call!Current.method])
               /\ UNCHANGED <<i, candidates, attempts>>
          ELSE Call!fail(resp.url, "document") /\ Call!Continue(resp)
     ELSE IF ctxDone
          THEN Call!Return([status |-> "cancelled"]) /\ UNCHANGED <<i, candidates, attempts>>
          ELSE Call!fail(Call!Current.url, "fetch") /\ Call!Continue(None)

Step == Search \/ BeginFetch \/ TimesOut \/ Transfer \/ EndFetch

Next == Cancel \/ Step

Spec == Init /\ [][Next]_vars

(* The call and its client run on, and a request that gets no answer times  *)
(* out: that is what it is to be late.                                      *)
FairSpec == Spec /\ WF_vars(Step)
-----------------------------------------------------------------------------
(* Every variable stays in its set: a request starts from nothing that is   *)
(* left of the one before, and runs only while the call waits for it.       *)
TypeOK ==
  /\ network \in Networks
  /\ Call!TypeOK
  /\ timedOut \in BOOLEAN
  /\ fpc # "done" => pc = "wait" /\ Request!TypeOK
  /\ via \in Seq(URL) /\ Len(via) <= MaxRedirects

(* The catalog that is found was served whole, within the limit and over    *)
(* https, at the address that is reported, whatever redirects led there     *)
(* and whatever timed out before (discovery.go:20, fetcher.go:76-118).      *)
FoundIsServed ==
  outcome.status = "found" =>
    /\ IsHTTPS(outcome.url)
    /\ LET answer == AnswerAt(network.site, outcome.url) IN
       answer.kind = "page" /\ answer.whole /\ answer.size <= MaxBody
    /\ network.contents[outcome.url].doc = "catalog"

(* With its default fetcher, Discover does what it does with a fetcher that *)
(* answers every request at once, with the page at the end of its redirects *)
(* or not at all: redirects, limits and timeouts of one request, and a      *)
(* cancellation in the middle of it, do not show in the search             *)
(* (discovery.go:206-242, fetcher.go:90-123).                               *)
ImplementsDiscovery == Call!FairSpec
=============================================================================
