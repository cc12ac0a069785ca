----------------------- MODULE DiscoverOverHTTPProofs -----------------------
(***************************************************************************)
(* That a call of Discover with its default client is a call of Discover   *)
(* as Discovery has it, for any servers and whatever times out.  What was  *)
(* proved of the search and of one Fetch is taken from their modules: C    *)
(* and R are Call and Request with their theorems.                         *)
(***************************************************************************)
EXTENDS DiscoverOverHTTP, TLAPS

C == INSTANCE DiscoveryProofs WITH web <- Web[network]

R == INSTANCE HTTPFetchProofs
       WITH start <- Call!Current.url, site <- network.site,
            stopped <- timedOut \/ ctxDone, pc <- fpc,
            Starts <- Addresses, Sites <- {n.site : n \in Networks}

-----------------------------------------------------------------------------
(* C has the operators of Call, and R those of Request.                    *)
LEMMA SameAddresses ==
  /\ C!URL = URL /\ C!Ref = Ref /\ R!URL = URL
  /\ \A u : (C!IsHTTPS(u) <=> IsHTTPS(u)) /\ (R!IsHTTPS(u) <=> IsHTTPS(u))
  /\ C!Page = Call!Page /\ C!Response = Call!Response
<1>1. C!URL = URL /\ R!URL = URL
  BY DEF C!URL, R!URL, URL, C!Schemes, R!Schemes, Schemes, C!Paths, R!Paths, Paths,
         C!EmptyPath, R!EmptyPath, EmptyPath, C!RootPath, R!RootPath, RootPath,
         C!WellKnownPath, R!WellKnownPath, WellKnownPath, C!Fragments, R!Fragments, Fragments
<1>2. C!Ref = Ref
  BY DEF C!Ref, Ref, C!Schemes, Schemes, C!Paths, Paths, C!EmptyPath, EmptyPath,
         C!RootPath, RootPath, C!WellKnownPath, WellKnownPath, C!Fragments, Fragments
<1>3. Call!URL = URL /\ Call!Ref = Ref
  BY DEF Call!URL, URL, Call!Ref, Ref, Call!Schemes, Schemes, Call!Paths, Paths,
         Call!EmptyPath, EmptyPath, Call!RootPath, RootPath, Call!WellKnownPath,
         WellKnownPath, Call!Fragments, Fragments
<1>4. C!Page = Call!Page BY <1>2, <1>3 DEF C!Page, Call!Page
<1>5. C!Response = Call!Response BY <1>1, <1>3, <1>4 DEF C!Response, Call!Response
<1>6. \A u : (C!IsHTTPS(u) <=> IsHTTPS(u)) /\ (R!IsHTTPS(u) <=> IsHTTPS(u))
  BY DEF C!IsHTTPS, R!IsHTTPS, IsHTTPS
<1>7. QED BY <1>1, <1>2, <1>4, <1>5, <1>6

LEMMA SameOperators ==
  /\ \A u : Call!requestKey(u) = C!requestKey(u)
  /\ \A u : Call!IsHTTPS(u) <=> C!IsHTTPS(u)
  /\ \A r : Call!asCatalog(r) <=> C!asCatalog(r)
<1>1. \A u : Call!requestKey(u) = C!requestKey(u) BY DEF Call!requestKey, C!requestKey
<1>2. \A u : Call!IsHTTPS(u) <=> C!IsHTTPS(u) BY DEF Call!IsHTTPS, C!IsHTTPS
<1>3. \A r : Call!asCatalog(r) <=> C!asCatalog(r) BY DEF Call!asCatalog, C!asCatalog
<1>4. QED BY <1>1, <1>2, <1>3

LEMMA SameCurrent == Call!start = C!start /\ Call!Current = C!Current
<1>1. \A in : Call!parseInput(in) = C!parseInput(in)
  BY SameOperators DEF Call!parseInput, C!parseInput, Call!EmptyPath, C!EmptyPath,
                       Call!RootPath, C!RootPath
<1>2. Call!start = C!start BY <1>1 DEF Call!start, C!start
<1>3. QED BY <1>2 DEF Call!Current, C!Current

LEMMA SameCandidates == \A u, r : Call!candidatesAfter(u, r) = C!candidatesAfter(u, r)
<1>1. \A b, r : Call!Resolve(b, r) = C!Resolve(b, r)
  BY DEF Call!Resolve, C!Resolve, Call!EmptyPath, C!EmptyPath
<1>2. \A b : Call!WellKnown(b) = C!WellKnown(b)
  BY <1>1 DEF Call!WellKnown, C!WellKnown, Call!WellKnownPath, C!WellKnownPath
<1>3. \A r : Call!HTMLBase(r) = C!HTMLBase(r) BY <1>1 DEF Call!HTMLBase, C!HTMLBase
<1>4. \A r : Call!headerCandidates(r) = C!headerCandidates(r)
  BY <1>1 DEF Call!headerCandidates, C!headerCandidates
<1>5. \A r : Call!htmlCandidates(r) = C!htmlCandidates(r)
  BY <1>1, <1>3 DEF Call!htmlCandidates, C!htmlCandidates
<1>6. \A r : Call!linkCandidates(r) = C!linkCandidates(r)
  BY <1>4, <1>5 DEF Call!linkCandidates, C!linkCandidates
<1>7. \A u, r : Call!wellKnownCandidates(u, r) = C!wellKnownCandidates(u, r)
  BY <1>2 DEF Call!wellKnownCandidates, C!wellKnownCandidates, Call!sameOrigin, C!sameOrigin
<1>8. QED BY <1>6, <1>7 DEF Call!candidatesAfter, C!candidatesAfter

LEMMA SameOutcomes ==
  /\ \A o : Call!Return(o) <=> C!Return(o)
  /\ \A u, r : Call!fail(u, r) <=> C!fail(u, r)
  /\ \A r : Call!Continue(r) <=> C!Continue(r)
<1>1. \A o : Call!Return(o) <=> C!Return(o) BY DEF Call!Return, C!Return
<1>2. \A u, r : Call!fail(u, r) <=> C!fail(u, r) BY SameCurrent DEF Call!fail, C!fail
<1>3. \A r : Call!Continue(r) <=> C!Continue(r)
  BY SameCurrent, SameCandidates DEF Call!Continue, C!Continue
<1>4. QED BY <1>1, <1>2, <1>3

(* The steps of the call that the composition takes as they are. *)
LEMMA SameSteps ==
  /\ Call!Init => C!Init
  /\ Call!Cancel => C!Cancel
  /\ Search => C!Step
  /\ Call!BeginFetch => C!BeginFetch
<1>1. Call!Init => C!Init BY DEF Call!Init, C!Init
<1>2. Call!Cancel => C!Cancel BY DEF Call!Cancel, C!Cancel
<1>3. Call!BeginFetch => C!BeginFetch BY SameCurrent DEF Call!BeginFetch, C!BeginFetch
<1>4. Call!Trying <=> C!Trying BY SameCurrent, SameOperators DEF Call!Trying, C!Trying
<1>5. Call!ParseInput => C!ParseInput
  BY SameCurrent, SameOutcomes DEF Call!ParseInput, C!ParseInput
<1>6. Call!Refuse => C!Refuse
  BY SameCurrent, SameOperators, SameOutcomes DEF Call!Refuse, C!Refuse
<1>7. Call!TryCancelled => C!TryCancelled
  BY <1>4, SameOutcomes DEF Call!TryCancelled, C!TryCancelled
<1>8. Call!SkipRequested => C!SkipRequested
  BY <1>4, SameCurrent, SameOperators, SameOutcomes DEF Call!SkipRequested, C!SkipRequested
<1>9. Call!MarkRequested => C!MarkRequested
  BY <1>4, SameCurrent, SameOperators DEF Call!MarkRequested, C!MarkRequested
<1>10. Call!Exhausted => C!Exhausted BY SameOutcomes DEF Call!Exhausted, C!Exhausted
<1>11. Search => C!Step
  BY <1>5, <1>6, <1>7, <1>8, <1>9, <1>10 DEF Search, C!Step
<1>12. QED BY <1>1, <1>2, <1>3, <1>11

LEMMA SameTransfer ==
  Request!ClientStep \/ Request!NetworkStep => R!ClientStep \/ R!NetworkStep
<1>1. \A s, u : Request!AnswerAt(s, u) = R!AnswerAt(s, u) BY DEF Request!AnswerAt, R!AnswerAt
<1>2. \A r : Request!Return(r) <=> R!Return(r) BY DEF Request!Return, R!Return
<1>3. Request!Error = R!Error /\ Request!ReadLimit = R!ReadLimit
  BY DEF Request!Error, R!Error, Request!ReadLimit, R!ReadLimit
<1>4. \A u, s : Request!CheckRedirect(u, s) <=> R!CheckRedirect(u, s)
  BY DEF Request!CheckRedirect, R!CheckRedirect, Request!IsHTTPS, R!IsHTTPS
<1>5. Request!GiveUp => R!GiveUp BY <1>2, <1>3 DEF Request!GiveUp, R!GiveUp
<1>6. Request!Send => R!Send BY DEF Request!Send, R!Send
<1>7. Request!ReadEnds => R!ReadEnds
  BY <1>1, <1>2, <1>3 DEF Request!ReadEnds, R!ReadEnds
<1>8. Request!ConnectionFails => R!ConnectionFails
  BY <1>1, <1>2, <1>3 DEF Request!ConnectionFails, R!ConnectionFails
<1>9. Request!Redirected => R!Redirected
  BY <1>1, <1>2, <1>3, <1>4 DEF Request!Redirected, R!Redirected
<1>10. Request!HeaderArrives => R!HeaderArrives
  BY <1>1 DEF Request!HeaderArrives, R!HeaderArrives
<1>11. Request!BodyArrives => R!BodyArrives
  BY <1>1, <1>3 DEF Request!BodyArrives, R!BodyArrives
<1>12. QED
  BY <1>5, <1>6, <1>7, <1>8, <1>9, <1>10, <1>11
  DEF Request!ClientStep, Request!NetworkStep, R!ClientStep, R!NetworkStep

LEMMA SameSites ==
  /\ \A s : R!IsSite(s) <=> IsSite(s)
  /\ \A s, u : R!AnswerAt(s, u) = AnswerAt(s, u)
  /\ \A s, u : R!ChainEnd(s, u) = ChainEnd(s, u)
  /\ \A s, u : R!Obtainable(s, u) <=> Obtainable(s, u)
<1>1. \A s : R!IsSite(s) <=> IsSite(s)
  BY SameAddresses DEF R!IsSite, IsSite, R!Answer, Answer
<1>2. \A s, u : R!AnswerAt(s, u) = AnswerAt(s, u) BY DEF R!AnswerAt, AnswerAt
<1>3. \A s, u : R!ChainEnd(s, u) = ChainEnd(s, u)
  BY DEF R!ChainEnd, ChainEnd, R!Followed, Followed, R!AnswerAt, AnswerAt, R!IsHTTPS, IsHTTPS
<1>4. \A s, u : R!Obtainable(s, u) <=> Obtainable(s, u)
  BY <1>2, <1>3 DEF R!Obtainable, Obtainable
<1>5. QED BY <1>1, <1>2, <1>3, <1>4

-----------------------------------------------------------------------------
(* The constants meet the assumptions of both.                             *)
LEMMA RequestAssumptions ==
  /\ \A u \in Addresses : u \in R!URL /\ R!IsHTTPS(u)
  /\ \A s \in {n.site : n \in Networks} : R!IsSite(s)
  /\ MaxRedirects \in Nat \ {0} /\ MaxBody \in Nat
<1>1. \A u \in Addresses : u \in R!URL /\ R!IsHTTPS(u) BY SameAddresses DEF Addresses
<1>2. \A s \in {n.site : n \in Networks} : R!IsSite(s) BY SameSites, NetworksAssumption
<1>3. QED BY <1>1, <1>2, BoundsAssumption

(* A chain of redirects that begins at an address ends at one. *)
LEMMA ChainsStay ==
  ASSUME NEW n \in Networks, NEW u \in Addresses
  PROVE  ChainEnd(n.site, u) \in Addresses
<1>1. IsSite(n.site) BY NetworksAssumption
<1>2. ASSUME NEW v \in Addresses PROVE R!After(n.site, v) \in Addresses
  <2>1. CASE R!Followed(n.site, v)
    <3>1. AnswerAt(n.site, v).kind = "redirect" /\ IsHTTPS(AnswerAt(n.site, v).to)
      BY <2>1, SameSites, SameAddresses DEF R!Followed
    <3>2. v \in DOMAIN n.site /\ AnswerAt(n.site, v) = n.site[v] BY <3>1 DEF AnswerAt
    <3>3. n.site[v] \in Answer BY <1>1, <3>2 DEF IsSite
    <3>4. n.site[v].to \in URL BY <3>1, <3>2, <3>3 DEF Answer
    <3>5. n.site[v].to.frag = "" BY <3>1, <3>2, FragmentsAssumption
    <3>6. R!After(n.site, v) = n.site[v].to BY <2>1, <3>2, SameSites DEF R!After
    <3>7. QED BY <3>1, <3>2, <3>4, <3>5, <3>6 DEF Addresses
  <2>2. CASE ~R!Followed(n.site, v) BY <2>2 DEF R!After
  <2>3. QED BY <2>1, <2>2
<1>3. Addresses \subseteq R!URL BY RequestAssumptions
<1>4. R!IsSite(n.site) BY <1>1, SameSites
<1> DEFINE s == n.site
<1> HIDE DEF s
<1>5. R!ChainEnd(s, u) \in Addresses
  BY <1>2, <1>3, <1>4, RequestAssumptions, R!ChainStays DEF s
<1>6. QED BY <1>5, SameSites DEF s

(* The page of a request that has one. *)
LEMMA PagesCome ==
  ASSUME NEW n \in Networks, NEW u \in Addresses, Obtainable(n.site, u)
  PROVE  LET end == ChainEnd(n.site, u) IN
         /\ end \in Addresses /\ end \in DOMAIN n.contents /\ n.contents[end] \in C!Page
         /\ Response(n, end) \in C!Response
<1> DEFINE end == ChainEnd(n.site, u)
<1>1. end \in Addresses BY ChainsStay
<1>2. AnswerAt(n.site, end).kind = "page" BY DEF Obtainable
<1> HIDE DEF end
<1>3. end \in DOMAIN n.site /\ n.site[end].kind = "page" BY <1>2 DEF AnswerAt
<1>4. end \in DOMAIN n.contents /\ n.contents[end] \in C!Page
  BY <1>3, NetworksAssumption, SameAddresses
<1>5. Response(n, end) \in C!Response
  BY <1>1, <1>4, SameAddresses DEF Response, C!Response, Addresses
<1>6. QED BY <1>1, <1>4, <1>5 DEF end

LEMMA CallAssumptions ==
  /\ Inputs \subseteq C!Ref
  /\ None \notin C!URL /\ None \notin C!Ref /\ None \notin C!Response
  /\ \A w \in Webs : C!IsWeb(w)
<1>1. Inputs \subseteq C!Ref BY SameAddresses, InputsAssumption
<1>2. None \notin C!URL /\ None \notin C!Ref /\ None \notin C!Response
  BY SameAddresses, NoneAssumption
<1>3. ASSUME NEW n \in Networks PROVE C!IsWeb(Web[n])
  <2>1. DOMAIN Web[n] = Addresses /\ \A u \in Addresses : Web[n][u] = Come(n, u) BY DEF Web
  <2>2. Addresses \subseteq C!URL BY SameAddresses DEF Addresses
  <2>3. \A u \in Addresses : Come(n, u) \in C!Response \cup {None} BY PagesCome DEF Come
  <2>4. QED BY <2>1, <2>2, <2>3 DEF C!IsWeb
<1>4. QED BY <1>1, <1>2, <1>3 DEF Webs

-----------------------------------------------------------------------------
(* The invariant: a request under way is a run of the client that began     *)
(* afresh; a timeout comes only where no page does; and a request that has  *)
(* ended came to what the web of this network says.                        *)
Asking == C!Current.url

OneRequest == fpc # "done" => pc = "wait" /\ R!IInv /\ R!OnTheChain

TimeoutIsDue == pc = "wait" /\ timedOut => Web[network][Asking] = None

Served(u) ==
  /\ IsHTTPS(u)
  /\ AnswerAt(network.site, u).kind = "page" /\ AnswerAt(network.site, u).whole
  /\ AnswerAt(network.site, u).size <= MaxBody

EndsAsTheWeb ==
  pc = "wait" /\ fpc = "done" =>
    IF result.status = "response"
    THEN Web[network][Asking] = Response(network, result.url) /\ Served(result.url)
    ELSE ctxDone \/ Web[network][Asking] = None

IInv ==
  /\ network \in Networks
  /\ C!IInv /\ C!SearchInv
  /\ timedOut \in BOOLEAN /\ via \in Seq(URL) /\ Len(via) <= MaxRedirects
  /\ OneRequest
  /\ TimeoutIsDue
  /\ EndsAsTheWeb
  /\ FoundIsServed

-----------------------------------------------------------------------------
(* Every address the call asks for is one of the network's.                *)
Plain(u) == u \in C!URL /\ u.frag = ""

LEMMA ResolvedPlain ==
  ASSUME NEW base, Plain(base), NEW ref \in C!Ref, ref.frag = ""
  PROVE  Plain(C!Resolve(base, ref))
<1>1. C!Resolve(base, ref) \in C!URL BY C!ResolveType, CallAssumptions DEF Plain
<1>2. C!Resolve(base, ref).frag = "" BY DEF C!Resolve, C!URL, C!Ref, Plain
<1>3. QED BY <1>1, <1>2 DEF Plain

LEMMA WellKnownPlain ==
  ASSUME NEW base, Plain(base)
  PROVE  C!WellKnown(base).frag = ""
BY DEF C!WellKnown, C!Resolve, C!URL, C!EmptyPath, C!WellKnownPath, Plain

PlainResponse(r) ==
  /\ r \in C!Response \cup {None}
  /\ r # None => /\ Plain(r.url)
                 /\ WithoutFragments(r.page.links) /\ WithoutFragments(r.page.hrefs)
                 /\ r.page.base # None => r.page.base.frag = ""

(* Where the address of a candidate comes from. *)
LEMMA CandidateSource ==
  ASSUME NEW asked, NEW r, NEW D, NEW a, NEW b, C!Layout(asked, r, D, a, b), NEW k \in DOMAIN D
  PROVE  \/ k \in 1..a /\ D[k].url = C!Headers(r)[k].url
         \/ \E j \in 1..b : D[k].url = C!Links(r)[j].url
         \/ D[k].url = C!WellKnown(asked)
         \/ r # None /\ D[k].url = C!WellKnown(r.url)
<1>1. a \in Nat /\ b \in Nat /\ k \in Nat /\ k >= 1 BY DEF C!Layout
<1>2. CASE k <= a BY <1>1, <1>2 DEF C!Layout
<1>3. CASE a < k /\ k <= a + b
  <2> DEFINE j == k - a
  <2>1. j \in 1..b /\ k = a + j BY <1>1, <1>3
  <2> HIDE DEF j
  <2>2. D[a + j].url = C!Links(r)[j].url BY <2>1 DEF C!Layout
  <2>3. QED BY <2>1, <2>2
<1>4. CASE a + b < k
  <2>1. CASE r # None /\ ~C!sameOrigin(r.url, asked)
    <3>1. /\ DOMAIN D = 1..(a + b + 2) /\ D[a + b + 1].url = C!WellKnown(r.url)
          /\ D[a + b + 2].url = C!WellKnown(asked)
      BY <2>1 DEF C!Layout
    <3>2. k = a + b + 1 \/ k = a + b + 2 BY <1>1, <1>4, <3>1
    <3>3. QED BY <2>1, <3>1, <3>2
  <2>2. CASE ~(r # None /\ ~C!sameOrigin(r.url, asked))
    <3>1. DOMAIN D = 1..(a + b + 1) /\ D[a + b + 1].url = C!WellKnown(asked)
      BY <2>2 DEF C!Layout
    <3>2. k = a + b + 1 BY <1>1, <1>4, <3>1
    <3>3. QED BY <3>1, <3>2
  <2>3. QED BY <2>1, <2>2
<1>5. QED BY <1>1, <1>2, <1>3, <1>4

LEMMA CandidatesPlain ==
  ASSUME NEW asked, Plain(asked), NEW r, PlainResponse(r), NEW D,
         D = C!candidatesAfter(asked, r), NEW k \in DOMAIN D
  PROVE  D[k].url.frag = ""
<1> DEFINE a == Len(C!Headers(r))
           b == Len(C!Links(r))
<1>0. asked \in C!URL /\ r \in C!Response \cup {None} BY DEF Plain, PlainResponse
<1>1. C!Layout(asked, r, D, a, b) BY <1>0, CallAssumptions, C!CandidateParts
<1>2. /\ r # None /\ r.page.success =>
           /\ DOMAIN r.page.links = 1..a
           /\ \A j \in 1..a : C!Headers(r)[j].url = C!Resolve(r.url, r.page.links[j])
           /\ r.page.html => DOMAIN r.page.hrefs = 1..b
           /\ r.page.html => \A j \in 1..b : C!Links(r)[j].url = C!Resolve(C!HTMLBase(r), r.page.hrefs[j])
      /\ r = None \/ ~r.page.success => a = 0 /\ b = 0
      /\ r # None /\ ~r.page.html => b = 0
  BY <1>0, CallAssumptions, C!Parts
<1> HIDE DEF a, b
<1>3. a \in Nat /\ b \in Nat BY <1>1 DEF C!Layout
<1>4. r # None => /\ r.page.links \in Seq(C!Ref) /\ r.page.hrefs \in Seq(C!Ref)
                  /\ r.page.base \in C!Ref \cup {None}
  BY <1>0 DEF C!Response, C!Page
<1>5. ASSUME NEW j \in 1..a PROVE C!Headers(r)[j].url.frag = ""
  <2>0. a # 0 BY <1>3
  <2>1. r # None /\ r.page.success /\ j \in DOMAIN r.page.links BY <1>2, <2>0
  <2>2. r.page.links[j] \in C!Ref BY <1>4, <2>1
  <2>3. r.page.links[j].frag = "" BY <2>1 DEF PlainResponse, WithoutFragments
  <2>4. C!Headers(r)[j].url = C!Resolve(r.url, r.page.links[j]) BY <1>2, <2>1
  <2>5. Plain(r.url) BY <2>1 DEF PlainResponse
  <2>6. Plain(C!Resolve(r.url, r.page.links[j])) BY <2>2, <2>3, <2>5, ResolvedPlain
  <2>7. QED BY <2>4, <2>6 DEF Plain
<1>6. ASSUME NEW j \in 1..b PROVE C!Links(r)[j].url.frag = ""
  <2>0. b # 0 BY <1>3
  <2>1. r # None /\ r.page.success /\ r.page.html /\ j \in DOMAIN r.page.hrefs BY <1>2, <2>0
  <2>2. r.page.hrefs[j] \in C!Ref BY <1>4, <2>1
  <2>3. r.page.hrefs[j].frag = "" BY <2>1 DEF PlainResponse, WithoutFragments
  <2>4. C!Links(r)[j].url = C!Resolve(C!HTMLBase(r), r.page.hrefs[j]) BY <1>2, <2>1
  <2>5. Plain(r.url) BY <2>1 DEF PlainResponse
  <2>6. Plain(C!HTMLBase(r))
    <3>1. CASE r.page.base = None BY <2>5, <3>1 DEF C!HTMLBase
    <3>2. CASE r.page.base # None
      <4>1. r.page.base \in C!Ref /\ r.page.base.frag = ""
        BY <1>4, <2>1, <3>2 DEF PlainResponse
      <4>2. QED BY <2>5, <3>2, <4>1, ResolvedPlain DEF C!HTMLBase
    <3>3. QED BY <3>1, <3>2
  <2>7. Plain(C!Resolve(C!HTMLBase(r), r.page.hrefs[j])) BY <2>2, <2>3, <2>6, ResolvedPlain
  <2>8. QED BY <2>4, <2>7 DEF Plain
<1>7. C!WellKnown(asked).frag = "" /\ (r # None => C!WellKnown(r.url).frag = "")
  BY WellKnownPlain DEF PlainResponse
<1>8. \/ k \in 1..a /\ D[k].url = C!Headers(r)[k].url
      \/ \E j \in 1..b : D[k].url = C!Links(r)[j].url
      \/ D[k].url = C!WellKnown(asked)
      \/ r # None /\ D[k].url = C!WellKnown(r.url)
  BY <1>1, CandidateSource
<1>9. QED BY <1>5, <1>6, <1>7, <1>8

LEMMA KeyOfPlain ==
  ASSUME NEW u \in Addresses
  PROVE  C!requestKey(u) = u
<1>1. u \in URL /\ u.frag = "" BY DEF Addresses
<1>2. QED BY <1>1 DEF C!requestKey, URL

LEMMA WebReplies ==
  ASSUME network \in Networks, NEW u \in Addresses
  PROVE  /\ C!Reply(Web[network], u) = Web[network][u]
         /\ Web[network][u] = Come(network, u)
         /\ PlainResponse(Come(network, u))
<1>1. DOMAIN Web[network] = Addresses /\ Web[network][u] = Come(network, u) BY DEF Web
<1>2. C!Reply(Web[network], u) = Web[network][u] BY <1>1, KeyOfPlain DEF C!Reply
<1>3. PlainResponse(Come(network, u))
  <2>1. CASE Come(network, u) = None BY <2>1 DEF PlainResponse
  <2>2. CASE Come(network, u) # None
    <3> DEFINE end == ChainEnd(network.site, u)
               r == Response(network, end)
    <3>1. Obtainable(network.site, u) /\ Come(network, u) = r BY <2>2 DEF Come
    <3>2. end \in Addresses /\ end \in DOMAIN network.contents /\ r \in C!Response
      BY <3>1, PagesCome
    <3>3. r.url = end /\ r.page = network.contents[end] BY DEF Response
    <3> HIDE DEF end, r
    <3>4. Plain(end) BY <3>2, SameAddresses DEF Addresses, Plain
    <3>5. /\ WithoutFragments(r.page.links) /\ WithoutFragments(r.page.hrefs)
          /\ r.page.base # None => r.page.base.frag = ""
      BY <3>2, <3>3, FragmentsAssumption
    <3>6. QED BY <3>1, <3>2, <3>3, <3>4, <3>5 DEF PlainResponse
  <2>3. QED BY <2>1, <2>2
<1>4. QED BY <1>1, <1>2, <1>3

LEMMA StartIsAddress ==
  ASSUME C!TypeOK, C!start # None
  PROVE  C!start \in Addresses /\ Plain(C!start)
<1>1. C!start \in C!URL /\ C!IsHTTPS(C!start) BY CallAssumptions, C!StartType
<1>2. C!start.frag = ""
  <2>1. input \in C!Ref /\ input.frag = ""
    BY CallAssumptions, FragmentsAssumption DEF C!TypeOK
  <2>2. \A in \in C!Ref : C!parseInput(in) # None => C!parseInput(in).frag = in.frag
    BY DEF C!parseInput, C!Ref
  <2>3. QED BY <2>1, <2>2 DEF C!start
<1>3. QED BY <1>1, <1>2, SameAddresses DEF Addresses, Plain

LEMMA AskingIsAddress ==
  ASSUME network \in Networks, C!IInv, C!SearchInv, pc \in {"fetch", "wait"}
  PROVE  Asking \in Addresses
<1>1. C!TypeOK /\ C!CursorInBounds /\ C!PlacesAreKnown /\ C!SecureAtHand
  BY DEF C!IInv, C!SearchInv
<1>2. C!start # None
  <2>1. outcome.status = "running" BY DEF C!IInv, C!StatusFollowsControl
  <2>2. QED BY <1>1, <2>1 DEF C!TypeOK
<1>3. i = 0 \/ i \in DOMAIN candidates BY <1>1 DEF C!CursorInBounds
<1>4. C!Current \in C!Candidate BY <1>1, <1>2, <1>3, CallAssumptions, C!CurrentType
<1>5. Asking \in C!URL /\ C!IsHTTPS(Asking)
  BY <1>1, <1>4 DEF C!Candidate, C!SecureAtHand, Asking
<1>6. Asking.frag = ""
  <2>1. CASE i = 0
    <3>1. Asking = C!start BY <2>1 DEF Asking, C!Current
    <3>2. QED BY <1>1, <1>2, <3>1, StartIsAddress DEF Plain
  <2>2. CASE i # 0
    <3> DEFINE r == C!Reply(Web[network], C!start)
    <3>1. C!start \in Addresses /\ Plain(C!start) BY <1>1, <1>2, StartIsAddress
    <3>2. PlainResponse(r) BY <3>1, WebReplies
    <3>3. i > 0 /\ i \in DOMAIN candidates BY <1>1, <1>3, <2>2 DEF C!TypeOK
    <3>4. candidates = C!candidatesAfter(C!start, r) BY <1>1, <3>3 DEF C!PlacesAreKnown
    <3> HIDE DEF r
    <3>5. candidates[i].url.frag = "" BY <3>1, <3>2, <3>3, <3>4, CandidatesPlain
    <3>6. QED BY <2>2, <3>5 DEF Asking, C!Current
  <2>3. QED BY <2>1, <2>2
<1>7. QED BY <1>5, <1>6, SameAddresses DEF Addresses

-----------------------------------------------------------------------------
(* Each step is one of the call, or does not show in it.                   *)
LEMMA EndFetchIsAStep == IInv /\ EndFetch => C!FetchFails \/ C!FetchReturns
<1> SUFFICES ASSUME IInv, EndFetch PROVE C!FetchFails \/ C!FetchReturns
  OBVIOUS
<1>1. pc = "wait" /\ fpc = "done" BY DEF EndFetch
<1>2. UNCHANGED <<input, Web[network], ctxDone, requested, fetches>> BY DEF EndFetch
<1>3. Asking \in Addresses BY <1>1, AskingIsAddress DEF IInv
<1>4. C!Reply(Web[network], Asking) = Web[network][Asking] BY <1>3, WebReplies DEF IInv
<1>5. CASE result.status = "response"
  <2> DEFINE resp == Response(network, result.url)
  <2>1. C!Reply(Web[network], Asking) = resp BY <1>1, <1>4, <1>5 DEF IInv, EndsAsTheWeb
  <2>2. resp # None
    <3>1. Web[network][Asking] = Come(network, Asking) BY <1>3, WebReplies DEF IInv
    <3>2. AnswerAt(network.site, result.url).kind = "page"
      BY <1>1, <1>5 DEF IInv, EndsAsTheWeb, Served
    <3>3. result.url \in DOMAIN network.site /\ network.site[result.url].kind = "page"
      BY <3>2 DEF AnswerAt
    <3>4. result.url \in C!URL /\ network.contents[result.url] \in C!Page
      BY <3>3, NetworksAssumption, SameAddresses DEF IInv, IsSite
    <3>5. resp \in C!Response BY <3>4 DEF Response, C!Response
    <3>6. QED BY <3>5, CallAssumptions
  <2> HIDE DEF resp
  <2>3. IF C!asCatalog(resp)
        THEN /\ C!Return([status |-> "found", url |-> resp.url, method |-> C!Current.method])
             /\ UNCHANGED <<i, candidates, attempts>>
        ELSE C!fail(resp.url, "document") /\ C!Continue(resp)
    BY <1>5, SameOperators, SameOutcomes, SameCurrent DEF EndFetch, resp
  <2>4. C!FetchReturns BY <1>1, <1>2, <2>1, <2>2, <2>3 DEF C!FetchReturns, Asking
  <2>5. QED BY <2>4
<1>6. CASE result.status # "response"
  <2>1. ctxDone \/ C!Reply(Web[network], Asking) = None
    BY <1>1, <1>4, <1>6 DEF IInv, EndsAsTheWeb
  <2>2. IF ctxDone
        THEN C!Return([status |-> "cancelled"]) /\ UNCHANGED <<i, candidates, attempts>>
        ELSE C!fail(Asking, "fetch") /\ C!Continue(None)
    BY <1>6, SameOutcomes, SameCurrent DEF EndFetch, Asking
  <2>3. C!FetchFails BY <1>1, <1>2, <2>1, <2>2 DEF C!FetchFails, Asking
  <2>4. QED BY <2>3
<1>7. QED BY <1>5, <1>6

LEMMA StepsOfTheCall == IInv /\ [Next]_vars => [C!Next]_(C!vars) /\ UNCHANGED network
<1> SUFFICES ASSUME IInv, [Next]_vars PROVE [C!Next]_(C!vars) /\ UNCHANGED network
  OBVIOUS
<1>1. CASE Cancel BY <1>1, SameSteps DEF Cancel, C!Next
<1>2. CASE Search BY <1>2, SameSteps DEF Search, C!Next
<1>3. CASE BeginFetch BY <1>3, SameSteps DEF BeginFetch, C!Next, C!Step
<1>4. CASE TimesOut \/ Transfer \/ UNCHANGED vars
  <2>1. UNCHANGED <<network, callVars>> BY <1>4 DEF TimesOut, Transfer, vars
  <2>2. UNCHANGED C!vars BY <2>1 DEF callVars, C!vars
  <2>3. QED BY <2>1, <2>2
<1>5. CASE EndFetch
  <2>1. C!Next BY <1>5, EndFetchIsAStep DEF C!Next, C!Step
  <2>2. QED BY <1>5, <2>1 DEF EndFetch
<1>6. QED BY <1>1, <1>2, <1>3, <1>4, <1>5 DEF Next, Step

LEMMA CallKeeps == IInv /\ [Next]_vars => C!IInv' /\ C!SearchInv'
<1>1. C!IInv /\ [C!Next]_(C!vars) => C!IInv' BY CallAssumptions, C!NextIInv
<1>2. C!IInv /\ C!SearchInv /\ [C!Next]_(C!vars) => C!SearchInv'
  BY CallAssumptions, C!NextSearches
<1>3. QED BY <1>1, <1>2, StepsOfTheCall DEF IInv

(* While nothing but the request moves, it is for the same address. *)
LEMMA AskingStays ==
  ASSUME UNCHANGED <<network, input, i, candidates>>
  PROVE  Asking' = Asking /\ Web[network]' = Web[network]
BY DEF Asking, C!Current, C!start

-----------------------------------------------------------------------------
LEMMA RequestStarts == (R!Fresh => R!IInv /\ R!OnTheChain)'
<1>1. R!Fresh => R!IInv BY RequestAssumptions, R!FreshHolds
<1>2. R!Fresh => R!OnTheChain BY RequestAssumptions, R!FreshOnTheChain
<1>3. QED BY <1>1, <1>2, PTL

LEMMA RequestRuns ==
  R!IInv /\ R!OnTheChain /\ [R!Next]_(R!vars) =>
    R!IInv' /\ R!OnTheChain' /\ [R!Promise!Next]_(R!Promise!vars)
<1>1. R!IInv /\ [R!Next]_(R!vars) => R!IInv' BY RequestAssumptions, R!StepHolds
<1>2. R!IInv /\ R!OnTheChain /\ [R!Next]_(R!vars) => R!OnTheChain'
  BY RequestAssumptions, R!StepOnTheChain
<1>3. R!IInv /\ R!OnTheChain /\ [R!Next]_(R!vars) => [R!Promise!Next]_(R!Promise!vars)
  BY RequestAssumptions, R!StepPromised
<1>4. QED BY <1>1, <1>2, <1>3

-----------------------------------------------------------------------------
(* What the composition adds is kept by each action.                       *)
Added == OneRequest /\ TimeoutIsDue /\ EndsAsTheWeb /\ FoundIsServed
           /\ timedOut \in BOOLEAN /\ via \in Seq(URL) /\ Len(via) <= MaxRedirects

LEMMA SameRequest ==
  ASSUME UNCHANGED <<network, input, i, candidates>>
  PROVE  (Call!Current.url)' = Call!Current.url
BY DEF Call!Current, Call!start

LEMMA FoundStays ==
  ASSUME FoundIsServed, UNCHANGED <<network, outcome>>
  PROVE  FoundIsServed'
BY DEF FoundIsServed

LEMMA CancelKeeps == IInv /\ Cancel => Added'
<1> SUFFICES ASSUME IInv, Cancel PROVE Added'
  OBVIOUS
<1>1. /\ UNCHANGED <<network, input, pc, i, candidates, outcome>> /\ UNCHANGED fetchVars
      /\ ctxDone' = TRUE /\ ~ctxDone
  BY DEF Cancel, Call!Cancel
<1>2. /\ Asking' = Asking /\ Web[network]' = Web[network] /\ (Call!Current.url)' = Call!Current.url
  BY <1>1, AskingStays, SameRequest
<1>3. OneRequest'
  <2> SUFFICES ASSUME fpc # "done" PROVE R!IInv' /\ R!OnTheChain'
    BY <1>1 DEF IInv, OneRequest, fetchVars
  <2>1. CASE timedOut
    <3>1. UNCHANGED R!vars BY <1>1, <1>2, <2>1 DEF fetchVars, R!vars
    <3>2. QED BY <3>1, RequestRuns DEF IInv, OneRequest
  <2>2. CASE ~timedOut
    <3>1. R!Stop BY <1>1, <1>2, <2>2 DEF fetchVars, R!Stop
    <3>2. QED BY <3>1, RequestRuns DEF IInv, OneRequest, R!Next
  <2>3. QED BY <2>1, <2>2
<1>4. TimeoutIsDue' BY <1>1, <1>2 DEF IInv, TimeoutIsDue, fetchVars
<1>5. EndsAsTheWeb'
  <2>1. UNCHANGED <<network, pc, fpc, result>> BY <1>1 DEF fetchVars
  <2>2. Response(network, result.url)' = Response(network, result.url)
        /\ (Served(result.url)' <=> Served(result.url))
    BY <2>1 DEF Response, Served
  <2>3. QED BY <1>1, <1>2, <2>1, <2>2 DEF IInv, EndsAsTheWeb
<1>6. FoundIsServed' BY <1>1, FoundStays DEF IInv
<1>7. QED BY <1>1, <1>3, <1>4, <1>5, <1>6 DEF IInv, Added, fetchVars

LEMMA SearchKeeps == IInv /\ Search => Added'
<1> SUFFICES ASSUME IInv, Search PROVE Added'
  OBVIOUS
<1>1. UNCHANGED network /\ UNCHANGED fetchVars BY DEF Search
<1>2. /\ pc \in {"parse", "try"} /\ pc' \in {"try", "fetch", "done"}
      /\ outcome' = outcome \/ outcome'.status \in {"invalid", "cancelled", "not-found"}
  BY DEF Search, Call!ParseInput, Call!Refuse, Call!TryCancelled, Call!SkipRequested,
         Call!MarkRequested, Call!Exhausted, Call!Trying, Call!Return, Call!Continue
<1>3. fpc = "done" BY <1>2 DEF IInv, OneRequest
<1>4. FoundIsServed' BY <1>1, <1>2 DEF IInv, FoundIsServed
<1>5. OneRequest' /\ TimeoutIsDue' /\ EndsAsTheWeb'
  BY <1>1, <1>2, <1>3 DEF OneRequest, TimeoutIsDue, EndsAsTheWeb, fetchVars
<1>6. QED BY <1>1, <1>4, <1>5 DEF IInv, Added, fetchVars

LEMMA BeginFetchKeeps == IInv /\ BeginFetch => Added'
<1> SUFFICES ASSUME IInv, BeginFetch PROVE Added'
  OBVIOUS
<1>1. /\ pc = "fetch" /\ pc' = "wait"
      /\ UNCHANGED <<network, input, ctxDone, i, candidates, outcome>>
      /\ timedOut' = FALSE /\ fpc' = "send" /\ at' = Call!Current.url /\ via' = <<>>
      /\ body' = 0 /\ result' = [status |-> "running"]
  BY DEF BeginFetch, Call!BeginFetch
<1>2. (Call!Current.url)' = Call!Current.url BY <1>1, SameRequest
<1>3. Call!Current.url \in Addresses BY <1>1, SameCurrent, AskingIsAddress DEF IInv, Asking
<1>4. ctxDone \in BOOLEAN BY DEF IInv, C!IInv, C!TypeOK
<1>5. R!Fresh' BY <1>1, <1>2, <1>3, <1>4 DEF IInv, R!Fresh
<1>6. OneRequest' BY <1>1, <1>5, RequestStarts DEF OneRequest
<1>7. TimeoutIsDue' /\ EndsAsTheWeb' BY <1>1 DEF TimeoutIsDue, EndsAsTheWeb
<1>8. FoundIsServed' BY <1>1, FoundStays DEF IInv
<1>9. via' \in Seq(URL) /\ Len(via') <= MaxRedirects BY <1>1, BoundsAssumption
<1>10. QED BY <1>1, <1>6, <1>7, <1>8, <1>9 DEF Added

LEMMA TimesOutKeeps == IInv /\ TimesOut => Added'
<1> SUFFICES ASSUME IInv, TimesOut PROVE Added'
  OBVIOUS
<1>1. /\ pc = "wait" /\ fpc # "done" /\ ~timedOut /\ timedOut' = TRUE
      /\ Web[network][Asking] = None
      /\ UNCHANGED <<network, input, ctxDone, pc, i, candidates, outcome>>
      /\ UNCHANGED <<fpc, at, via, body, result>>
  BY SameCurrent DEF TimesOut, Fetching, callVars, Asking
<1>2. Asking' = Asking /\ Web[network]' = Web[network] /\ (Call!Current.url)' = Call!Current.url
  BY <1>1, AskingStays, SameRequest
<1>3. OneRequest'
  <2>1. CASE ctxDone
    <3>1. UNCHANGED R!vars BY <1>1, <1>2, <2>1 DEF R!vars
    <3>2. QED BY <1>1, <3>1, RequestRuns DEF IInv, OneRequest
  <2>2. CASE ~ctxDone
    <3>1. R!Stop BY <1>1, <1>2, <2>2 DEF R!Stop
    <3>2. QED BY <1>1, <3>1, RequestRuns DEF IInv, OneRequest, R!Next
  <2>3. QED BY <2>1, <2>2
<1>4. TimeoutIsDue' /\ EndsAsTheWeb' BY <1>1, <1>2 DEF TimeoutIsDue, EndsAsTheWeb
<1>5. FoundIsServed' BY <1>1, FoundStays DEF IInv
<1>6. QED BY <1>1, <1>3, <1>4, <1>5 DEF IInv, Added

(* A request that ends has a result. *)
LEMMA ResultAtEnd ==
  ASSUME R!ClientStep \/ R!NetworkStep, fpc # "done", fpc' = "done"
  PROVE  result'.status \in {"response", "error"}
BY DEF R!ClientStep, R!NetworkStep, R!GiveUp, R!Send, R!ReadEnds, R!ConnectionFails,
       R!Redirected, R!HeaderArrives, R!BodyArrives, R!Return, R!Error

LEMMA TransferKeeps == IInv /\ Transfer => Added'
<1> SUFFICES ASSUME IInv, Transfer PROVE Added'
  OBVIOUS
<1>1. /\ pc = "wait" /\ fpc # "done" /\ UNCHANGED <<network, timedOut>> /\ UNCHANGED callVars
      /\ R!ClientStep \/ R!NetworkStep
      /\ Asking \in network.late => result'.status # "response"
  BY SameTransfer, SameCurrent DEF Transfer, Fetching, Asking
<1>2. UNCHANGED <<network, input, ctxDone, pc, i, candidates, outcome>>
  BY <1>1 DEF callVars
<1>3. Asking' = Asking /\ Web[network]' = Web[network] /\ (Call!Current.url)' = Call!Current.url
  BY <1>2, AskingStays, SameRequest
<1>4. R!IInv' /\ R!OnTheChain' /\ [R!Promise!Next]_(R!Promise!vars)
  BY <1>1, RequestRuns DEF IInv, OneRequest, R!Next
<1>5. OneRequest' BY <1>1, <1>2, <1>4 DEF OneRequest
<1>6. TimeoutIsDue' BY <1>1, <1>2, <1>3 DEF IInv, TimeoutIsDue
<1>7. FoundIsServed' BY <1>2, FoundStays DEF IInv
<1>8. via' \in Seq(URL) /\ Len(via') <= MaxRedirects
  BY <1>4, SameAddresses DEF R!IInv, R!TypeOK, R!RequestsLeft
<1>9. ASSUME fpc' = "done" PROVE EndsAsTheWeb'
  <2>1. result'.status \in {"response", "error"} BY <1>1, <1>9, ResultAtEnd
  <2>2. result.status = "running" BY <1>1 DEF IInv, OneRequest, R!IInv, R!RunsUntilDone
  <2>3. R!Promise!Conclude
    BY <1>4, <2>1, <2>2 DEF R!Promise!Next, R!Promise!Stop, R!Promise!vars
  <2>4. \/ Obtainable(network.site, Asking) /\ result' = R!Promise!Page
        \/ /\ (timedOut \/ ctxDone) \/ ~Obtainable(network.site, Asking)
           /\ result' = R!Promise!Error
    BY <2>3, RequestAssumptions, R!PromisedSites, SameSites, SameCurrent
    DEF R!Promise!Conclude, Asking
  <2>5. Asking \in Addresses /\ Web[network][Asking] = Come(network, Asking)
    BY <1>1, AskingIsAddress, WebReplies DEF IInv
  <2>6. CASE result'.status = "response"
    <3>1. Obtainable(network.site, Asking) /\ result' = R!Promise!Page
      BY <2>4, <2>6 DEF R!Promise!Error
    <3>2. result'.url = ChainEnd(network.site, Asking)
      BY <3>1, RequestAssumptions, R!PromisedSites, SameSites, SameCurrent
      DEF R!Promise!Page, Asking
    <3>3. Web[network][Asking] = Response(network, result'.url)
      BY <1>1, <2>5, <2>6, <3>1, <3>2 DEF Come
    <3>4. Served(result'.url)
      <4>1. result'.url \in Addresses BY <2>5, <3>2, ChainsStay DEF IInv
      <4>2. QED BY <3>1, <3>2, <4>1 DEF Served, Obtainable, Addresses
    <3>5. (Web[network][Asking] = Response(network, result.url))'
      BY <1>2, <1>3, <3>3 DEF Response
    <3>6. Served(result.url)' BY <1>2, <3>4 DEF Served
    <3>7. QED BY <2>6, <3>5, <3>6 DEF EndsAsTheWeb
  <2>7. CASE result'.status # "response"
    <3>1. (timedOut \/ ctxDone) \/ ~Obtainable(network.site, Asking)
      BY <2>4, <2>7 DEF R!Promise!Page
    <3>2. ctxDone \/ Web[network][Asking] = None
      BY <1>1, <2>5, <3>1 DEF Come, IInv, TimeoutIsDue
    <3>3. QED BY <1>2, <1>3, <2>7, <3>2 DEF EndsAsTheWeb
  <2>8. QED BY <2>6, <2>7
<1>10. EndsAsTheWeb'
  <2>1. CASE fpc' = "done" BY <1>9, <2>1
  <2>2. CASE fpc' # "done" BY <2>2 DEF EndsAsTheWeb
  <2>3. QED BY <2>1, <2>2
<1>11. timedOut' \in BOOLEAN BY <1>1 DEF IInv
<1>12. QED BY <1>5, <1>6, <1>7, <1>8, <1>10, <1>11 DEF Added

LEMMA EndFetchKeeps == IInv /\ EndFetch => Added'
<1> SUFFICES ASSUME IInv, EndFetch PROVE Added'
  OBVIOUS
<1>1. pc = "wait" /\ fpc = "done" /\ UNCHANGED network /\ UNCHANGED fetchVars BY DEF EndFetch
<1>2. pc' # "wait" BY SameOutcomes DEF EndFetch, C!Return, C!Continue
<1>3. OneRequest' /\ TimeoutIsDue' /\ EndsAsTheWeb'
  BY <1>1, <1>2 DEF OneRequest, TimeoutIsDue, EndsAsTheWeb, fetchVars
<1>4. FoundIsServed'
  <2> DEFINE resp == Response(network, result.url)
  <2>1. CASE result.status = "response" /\ C!asCatalog(resp)
    <3>1. outcome' = [status |-> "found", url |-> resp.url, method |-> Call!Current.method]
      BY <2>1, SameOperators, SameOutcomes DEF EndFetch, C!Return
    <3>2. resp.url = result.url /\ resp.page = network.contents[result.url] BY DEF Response
    <3>3. outcome'.url = result.url BY <3>1, <3>2
    <3>4. Served(result.url) BY <1>1, <2>1 DEF IInv, EndsAsTheWeb
    <3>5. network.contents[result.url].doc = "catalog" BY <2>1, <3>2 DEF C!asCatalog
    <3>6. QED BY <1>1, <3>3, <3>4, <3>5 DEF FoundIsServed, Served
  <2>2. CASE ~(result.status = "response" /\ C!asCatalog(resp))
    <3>1. outcome' = outcome \/ outcome' = [status |-> "cancelled"]
      BY <2>2, SameOperators, SameOutcomes DEF EndFetch, C!Return, C!Continue
    <3>2. QED BY <1>1, <3>1 DEF IInv, FoundIsServed
  <2>3. QED BY <2>1, <2>2
<1>5. QED BY <1>1, <1>3, <1>4 DEF IInv, Added, fetchVars

-----------------------------------------------------------------------------
LEMMA InitHolds == Init => IInv
<1> SUFFICES ASSUME Init PROVE IInv
  OBVIOUS
<1>1. /\ network \in Networks /\ timedOut = FALSE /\ fpc = "done" /\ via = <<>>
      /\ pc = "parse" /\ outcome = [status |-> "running"]
  BY DEF Init, Call!Init
<1>2. C!Init BY SameSteps DEF Init
<1>3. C!IInv BY <1>2, CallAssumptions, C!InitIInv
<1>4. C!SearchInv BY <1>2, CallAssumptions, C!InitSearches
<1>5. OneRequest /\ TimeoutIsDue /\ EndsAsTheWeb BY <1>1 DEF OneRequest, TimeoutIsDue, EndsAsTheWeb
<1>6. FoundIsServed BY <1>1 DEF FoundIsServed
<1>7. via \in Seq(URL) /\ Len(via) <= MaxRedirects BY <1>1, BoundsAssumption
<1>8. QED BY <1>1, <1>3, <1>4, <1>5, <1>6, <1>7 DEF IInv

LEMMA NextHolds == IInv /\ [Next]_vars => IInv'
<1> SUFFICES ASSUME IInv, [Next]_vars PROVE IInv'
  OBVIOUS
<1>1. Added'
  <2>1. CASE UNCHANGED vars
    <3>1. /\ UNCHANGED <<network, input, ctxDone, pc, i, candidates, outcome>>
          /\ UNCHANGED <<timedOut, fpc, at, via, body, result>>
      BY <2>1 DEF vars, callVars, fetchVars
    <3>2. Asking' = Asking /\ Web[network]' = Web[network] BY <3>1, AskingStays
    <3>3. (Call!Current.url)' = Call!Current.url BY <3>1, SameRequest
    <3>4. UNCHANGED R!vars BY <3>1, <3>3 DEF R!vars
    <3>5. OneRequest' BY <3>1, <3>4, RequestRuns DEF IInv, OneRequest
    <3>6. TimeoutIsDue' BY <3>1, <3>2 DEF IInv, TimeoutIsDue
    <3>7. EndsAsTheWeb' BY <3>1, <3>2 DEF IInv, EndsAsTheWeb, Response, Served
    <3>8. FoundIsServed' BY <3>1, FoundStays DEF IInv
    <3>9. QED BY <3>1, <3>5, <3>6, <3>7, <3>8 DEF IInv, Added
  <2>2. QED
    BY <2>1, CancelKeeps, SearchKeeps, BeginFetchKeeps, TimesOutKeeps, TransferKeeps,
       EndFetchKeeps DEF Next, Step
<1>2. C!IInv' /\ C!SearchInv' /\ network' = network BY CallKeeps, StepsOfTheCall
<1>3. network' \in Networks BY <1>2 DEF IInv
<1>4. QED BY <1>1, <1>2, <1>3 DEF Added, IInv

LEMMA InvariantHolds == Spec => []IInv
BY InitHolds, NextHolds, PTL DEF Spec

-----------------------------------------------------------------------------
(* A request starts from nothing that is left of the one before, and runs   *)
(* only while the call waits for it.                                       *)
THEOREM ComposedTypeCorrect == Spec => []TypeOK
<1>1. ASSUME IInv PROVE TypeOK
  <2>1. C!TypeOK => Call!TypeOK
    <3>1. Call!URL = C!URL
      BY DEF Call!URL, C!URL, Call!Schemes, C!Schemes, Call!Paths, C!Paths,
             Call!EmptyPath, C!EmptyPath, Call!RootPath, C!RootPath,
             Call!WellKnownPath, C!WellKnownPath, Call!Fragments, C!Fragments
    <3>2. Call!IsWeb(Web[network]) <=> C!IsWeb(Web[network])
      BY <3>1, SameAddresses DEF Call!IsWeb, C!IsWeb
    <3>3. Call!Candidate = C!Candidate /\ Call!Attempt = C!Attempt
          /\ Call!FetchEvent = C!FetchEvent /\ Call!Outcome = C!Outcome
      BY <3>1 DEF Call!Candidate, C!Candidate, Call!Attempt, C!Attempt, Call!FetchEvent,
                  C!FetchEvent, Call!Outcome, C!Outcome, Call!Methods, C!Methods
    <3>4. QED BY <3>1, <3>2, <3>3, SameCurrent DEF Call!TypeOK, C!TypeOK
  <2>2. R!TypeOK => Request!TypeOK
    <3>1. Request!URL = R!URL
      BY DEF Request!URL, R!URL, Request!Schemes, R!Schemes, Request!Paths, R!Paths,
             Request!EmptyPath, R!EmptyPath, Request!RootPath, R!RootPath,
             Request!WellKnownPath, R!WellKnownPath, Request!Fragments, R!Fragments
    <3>2. Request!IsSite(network.site) <=> R!IsSite(network.site)
      BY <3>1 DEF Request!IsSite, R!IsSite, Request!Answer, R!Answer
    <3>3. Request!Result = R!Result /\ Request!ReadLimit = R!ReadLimit
      BY <3>1 DEF Request!Result, R!Result, Request!ReadLimit, R!ReadLimit
    <3>4. QED BY <3>1, <3>2, <3>3 DEF Request!TypeOK, R!TypeOK
  <2>3. C!TypeOK /\ (fpc # "done" => pc = "wait" /\ R!TypeOK)
    BY <1>1 DEF IInv, C!IInv, OneRequest, R!IInv
  <2>4. QED BY <1>1, <2>1, <2>2, <2>3 DEF IInv, TypeOK
<1>2. QED BY <1>1, InvariantHolds, PTL

(* The catalog that is found was served whole, within the limit and over    *)
(* https, at the address that is reported, for any servers, redirects and   *)
(* timeouts (discovery.go:20, fetcher.go:76-118).                          *)
THEOREM FoundWasServed == Spec => []FoundIsServed
<1>1. IInv => FoundIsServed BY DEF IInv
<1>2. QED BY <1>1, InvariantHolds, PTL

(* With its default fetcher, Discover takes the steps it takes with a       *)
(* fetcher that answers every request at once: redirects, limits and        *)
(* timeouts of a request, and a cancellation in the middle of it, do not    *)
(* show in the search (discovery.go:206-242, fetcher.go:90-123).  This is   *)
(* ImplementsDiscovery, but for its fairness.                              *)
THEOREM ClientDoesNotShow == Spec => Call!Spec
<1>1. ASSUME IInv, [Next]_vars PROVE [Call!Next]_(Call!vars)
  <2>1. CASE Cancel BY <2>1 DEF Cancel, Call!Next
  <2>2. CASE Search BY <2>2 DEF Search, Call!Next, Call!Step
  <2>3. CASE BeginFetch BY <2>3 DEF BeginFetch, Call!Next, Call!Step
  <2>4. CASE TimesOut \/ Transfer \/ UNCHANGED vars
    <3>1. UNCHANGED <<network, callVars>> BY <2>4 DEF TimesOut, Transfer, vars
    <3>2. UNCHANGED Call!vars BY <3>1 DEF callVars, Call!vars
    <3>3. QED BY <3>2
  <2>5. CASE EndFetch
    <3>1. \A w, u : Call!Reply(w, u) = C!Reply(w, u)
      BY SameOperators DEF Call!Reply, C!Reply, Call!NotFoundPage, C!NotFoundPage
    <3>2. C!FetchFails => Call!FetchFails
      BY <3>1, SameCurrent, SameOutcomes DEF C!FetchFails, Call!FetchFails
    <3>3. C!FetchReturns => Call!FetchReturns
      BY <3>1, SameCurrent, SameOutcomes, SameOperators DEF C!FetchReturns, Call!FetchReturns
    <3>4. QED BY <1>1, <2>5, <3>2, <3>3, EndFetchIsAStep DEF Call!Next, Call!Step
  <2>6. QED BY <1>1, <2>1, <2>2, <2>3, <2>4, <2>5 DEF Next, Step
<1>2. Init => Call!Init BY DEF Init
<1>3. QED BY <1>1, <1>2, InvariantHolds, PTL DEF Spec, Call!Spec

(* Discover with its default fetcher answers as the package describes, for  *)
(* any servers: AnswersAsDescribed of the search holds of the whole, and    *)
(* what a page is, is what its servers have (discovery.go:7-20).           *)
THEOREM ClientAnswersAsDescribed == Spec => C!Procedure!Safety
<1>1. IInv /\ [Next]_vars => [C!Next]_(C!vars) BY StepsOfTheCall
<1>2. Init => C!Init BY SameSteps DEF Init
<1>3. Spec => C!Spec BY <1>1, <1>2, InvariantHolds, PTL DEF Spec, C!Spec
<1>4. C!Spec => C!Procedure!Safety BY CallAssumptions, C!AnswersAsDescribed
<1>5. QED BY <1>3, <1>4
=============================================================================
