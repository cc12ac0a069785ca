-------------------------- MODULE DiscoveryProofs --------------------------
(***************************************************************************)
(* What holds of every call of Discover, for every web and every input:    *)
(* the types of its variables, how often it fetches and how it reports;    *)
(* that it answers as the procedure the package describes; and that its    *)
(* report accounts for every request.                                      *)
(***************************************************************************)
EXTENDS Discovery, SequenceTheorems, FiniteSetTheorems, TLAPS

-----------------------------------------------------------------------------
(* The operators a call is built from return values of their sets.         *)

LEMMA ResolveType ==
  ASSUME NEW base \in URL, NEW ref \in Ref
  PROVE  Resolve(base, ref) \in URL
BY DEF Resolve, URL, Ref, Schemes, Paths, Fragments

LEMMA WellKnownType ==
  ASSUME NEW base \in URL
  PROVE  WellKnown(base) \in URL
<1>1. [scheme |-> "", host |-> "", path |-> WellKnownPath, frag |-> ""] \in Ref
  BY DEF Ref, Schemes, Paths, Fragments
<1>2. QED BY <1>1, ResolveType DEF WellKnown

LEMMA RequestKeyType ==
  ASSUME NEW u \in URL
  PROVE  requestKey(u) \in URL
BY DEF requestKey, URL, Fragments

LEMMA ParseInputType ==
  ASSUME NEW in \in Ref
  PROVE  parseInput(in) # None => parseInput(in) \in URL /\ IsHTTPS(parseInput(in))
<1> DEFINE u == [in EXCEPT !.scheme = IF @ = "" THEN "https" ELSE @]
<1>1. u \in URL BY DEF URL, Ref, Schemes
<1> HIDE DEF u
<1>2. QED BY <1>1, Zenon, SMT DEF parseInput, u, URL, IsHTTPS, Paths, Schemes

LEMMA NotFoundPageType == NotFoundPage \in Page
BY DEF NotFoundPage, Page

LEMMA ReplyType ==
  ASSUME NEW w, IsWeb(w), NEW u \in URL
  PROVE  Reply(w, u) \in Response \cup {None}
BY NotFoundPageType DEF Reply, IsWeb, Response

LEMMA HTMLBaseType ==
  ASSUME NEW resp \in Response
  PROVE  HTMLBase(resp) \in URL
BY ResolveType DEF HTMLBase, Response, Page

LEMMA MapsAreSequences ==
  ASSUME NEW S, NEW n \in Nat, NEW f \in [1..n -> S]
  PROVE  f \in Seq(S)
BY SeqDef

LEMMA HeaderCandidatesType ==
  ASSUME NEW resp \in Response
  PROVE  /\ headerCandidates(resp) \in Seq(Candidate)
         /\ DOMAIN resp.page.links = 1..Len(headerCandidates(resp))
<1>1. resp.url \in URL /\ resp.page.links \in Seq(Ref) BY DEF Response, Page
<1>2. \A k \in DOMAIN resp.page.links :
        [url |-> Resolve(resp.url, resp.page.links[k]), method |-> "link-header"] \in Candidate
  BY <1>1, ResolveType DEF Candidate, Methods
<1>3. DOMAIN resp.page.links = 1..Len(resp.page.links) /\ Len(resp.page.links) \in Nat
  BY <1>1
<1>4. headerCandidates(resp) \in [1..Len(resp.page.links) -> Candidate]
  BY <1>2, <1>3 DEF headerCandidates
<1>5. headerCandidates(resp) \in Seq(Candidate) BY <1>3, <1>4, MapsAreSequences
<1>6. DOMAIN headerCandidates(resp) = DOMAIN resp.page.links BY DEF headerCandidates
<1>7. QED BY <1>5, <1>6

LEMMA HTMLCandidatesType ==
  ASSUME NEW resp \in Response
  PROVE  /\ htmlCandidates(resp) \in Seq(Candidate)
         /\ DOMAIN resp.page.hrefs = 1..Len(htmlCandidates(resp))
<1>1. HTMLBase(resp) \in URL /\ resp.page.hrefs \in Seq(Ref)
  BY HTMLBaseType DEF Response, Page
<1>2. \A k \in DOMAIN resp.page.hrefs :
        [url |-> Resolve(HTMLBase(resp), resp.page.hrefs[k]), method |-> "html-link"]
          \in Candidate
  BY <1>1, ResolveType DEF Candidate, Methods
<1>3. DOMAIN resp.page.hrefs = 1..Len(resp.page.hrefs) /\ Len(resp.page.hrefs) \in Nat
  BY <1>1
<1>4. htmlCandidates(resp) \in [1..Len(resp.page.hrefs) -> Candidate]
  BY <1>2, <1>3 DEF htmlCandidates
<1>5. htmlCandidates(resp) \in Seq(Candidate) BY <1>3, <1>4, MapsAreSequences
<1>6. DOMAIN htmlCandidates(resp) = DOMAIN resp.page.hrefs BY DEF htmlCandidates
<1>7. QED BY <1>5, <1>6

LEMMA LinkCandidatesType ==
  ASSUME NEW resp \in Response
  PROVE  linkCandidates(resp) \in Seq(Candidate)
BY HeaderCandidatesType, HTMLCandidatesType DEF linkCandidates

LEMMA CandidatesAfterType ==
  ASSUME NEW asked \in URL, NEW resp \in Response \cup {None}
  PROVE  candidatesAfter(asked, resp) \in Seq(Candidate)
<1>1. wellKnownCandidates(asked, resp) \in Seq(Candidate)
  <2>1. \A b \in URL : [url |-> WellKnown(b), method |-> "well-known"] \in Candidate
    BY WellKnownType DEF Candidate, Methods
  <2>2. resp # None => resp.url \in URL BY DEF Response
  <2>3. QED BY <2>1, <2>2 DEF wellKnownCandidates
<1>2. resp # None => linkCandidates(resp) \in Seq(Candidate) BY LinkCandidatesType
<1>3. QED BY <1>1, <1>2 DEF candidatesAfter
-----------------------------------------------------------------------------
(* The inductive invariant.  Besides the properties it relates the sets the *)
(* call keeps to the history: a marked address is one the fetcher has seen, *)
(* or the one it is about to see; and the loop has dealt with every         *)
(* candidate it has passed.                                                 *)
CursorInBounds ==
  pc \in {"fetch", "wait"} => i = 0 \/ i \in DOMAIN candidates

StatusFollowsControl ==
  /\ pc = "done" <=> outcome.status # "running"
  /\ pc = "parse" \/ outcome.status = "invalid" => fetches = <<>>
  /\ outcome.status = "not-found" => i > Len(candidates)
  /\ outcome.status = "cancelled" => ctxDone

Asked(q) == \E j \in DOMAIN fetches : requestKey(fetches[j].url) = q

Refused(log, u) == \E j \in DOMAIN log : log[j].url = u /\ log[j].reason = "scheme"

AboutToFetch ==
  pc = "fetch" => /\ IsHTTPS(Current.url)
                  /\ requestKey(Current.url) \in requested
                  /\ ~Asked(requestKey(Current.url))

MarkedAreAsked ==
  /\ \A j \in DOMAIN fetches : requestKey(fetches[j].url) \in requested
  /\ \A q \in requested : Asked(q) \/ (pc = "fetch" /\ q = requestKey(Current.url))

PassedAreDealtWith ==
  /\ i = 0 => candidates = <<>>
  /\ \A k \in DOMAIN candidates :
       k < i \/ (k = i /\ pc \in {"fetch", "wait"}) =>
         requestKey(candidates[k].url) \in requested \/ Refused(attempts, candidates[k].url)

LateOnlyInFlight ==
  \A k \in DOMAIN fetches : fetches[k].late => ctxDone /\ pc # "fetch"

IInv ==
  /\ TypeOK
  /\ CursorInBounds
  /\ StatusFollowsControl
  /\ AboutToFetch
  /\ MarkedAreAsked
  /\ PassedAreDealtWith
  /\ LateOnlyInFlight
  /\ OnlyHTTPSRequested
  /\ RequestedOnce
  /\ CancelStopsRequests
-----------------------------------------------------------------------------
LEMMA StartType == TypeOK => start = None \/ (start \in URL /\ IsHTTPS(start))
BY ParseInputType, InputsAssumption DEF TypeOK, start

LEMMA CurrentType ==
  ASSUME TypeOK, start # None, i = 0 \/ i \in DOMAIN candidates
  PROVE  Current \in Candidate
<1>1. CASE i = 0 BY <1>1, StartType DEF Current, Candidate, Methods
<1>2. CASE i # 0 BY <1>2 DEF Current, TypeOK
<1>3. QED BY <1>1, <1>2

LEMMA CurrentStays ==
  ASSUME UNCHANGED <<input, i, candidates>>
  PROVE  Current' = Current /\ start' = start
BY DEF Current, start

(* fail appends one attempt, and keeps those there are. *)
LEMMA FailAppends ==
  ASSUME TypeOK, NEW u \in URL, NEW r \in {"scheme", "fetch", "document"},
         fail(u, r), Current \in Candidate
  PROVE  /\ attempts' \in Seq(Attempt)
         /\ \A j \in DOMAIN attempts : j \in DOMAIN attempts' /\ attempts'[j] = attempts[j]
         /\ \E j \in DOMAIN attempts' : attempts'[j].url = u /\ attempts'[j].reason = r
<1> DEFINE a == [url |-> u, method |-> Current.method, reason |-> r]
<1>1. a \in Attempt BY DEF Attempt, Candidate
<1>2. attempts \in Seq(Attempt) /\ attempts' = Append(attempts, a) BY DEF TypeOK, fail
<1>3. a.url = u /\ a.reason = r OBVIOUS
<1> HIDE DEF a
<1>4. Len(attempts) + 1 \in DOMAIN attempts' /\ attempts'[Len(attempts) + 1] = a
  BY <1>1, <1>2
<1>5. QED BY <1>1, <1>2, <1>3, <1>4

(* The loop goes on after a candidate it has dealt with. *)
LEMMA ContinueKeeps ==
  ASSUME IInv, pc \in {"try", "wait"}, NEW resp \in Response \cup {None}, Continue(resp),
         UNCHANGED <<input, web, ctxDone, requested, fetches>>,
         attempts' \in Seq(Attempt),
         \A j \in DOMAIN attempts : j \in DOMAIN attempts' /\ attempts'[j] = attempts[j],
         i = 0 \/ requestKey(Current.url) \in requested \/ Refused(attempts', Current.url)
  PROVE  IInv'
<1>1. start # None /\ start' = start /\ outcome.status = "running"
  BY DEF IInv, TypeOK, StatusFollowsControl, start
<1>2. candidates' \in Seq(Candidate) /\ i' = i + 1 /\ i' \in Nat /\ pc' = "try" /\ i \in Nat
  BY <1>1, StartType, CandidatesAfterType DEF IInv, TypeOK, Continue
<1>3. i # 0 => candidates' = candidates BY DEF Continue
<1>4. TypeOK' BY <1>1, <1>2 DEF IInv, TypeOK, Continue
<1>5. CursorInBounds' /\ AboutToFetch' BY <1>2 DEF CursorInBounds, AboutToFetch
<1>6. StatusFollowsControl' BY <1>1, <1>2 DEF StatusFollowsControl, Continue
<1>7. MarkedAreAsked' BY DEF IInv, MarkedAreAsked, Asked
<1>8. PassedAreDealtWith'
  <2>1. \A u : Refused(attempts, u) => Refused(attempts', u) BY DEF Refused
  <2>2. SUFFICES ASSUME NEW k \in DOMAIN candidates', k < i + 1
                 PROVE  \/ requestKey(candidates'[k].url) \in requested
                        \/ Refused(attempts', candidates'[k].url)
    BY <1>2 DEF PassedAreDealtWith
  <2>3. k \in Nat /\ k >= 1 /\ i # 0 BY <1>2, <2>2
  <2>4. CASE k < i BY <2>1, <2>2, <2>3, <2>4, <1>3 DEF IInv, PassedAreDealtWith
  <2>5. CASE k = i BY <2>3, <2>5, <1>3 DEF Current
  <2>6. QED BY <1>2, <2>2, <2>3, <2>4, <2>5
<1>9. LateOnlyInFlight' BY <1>2 DEF IInv, LateOnlyInFlight
<1>10. OnlyHTTPSRequested' /\ RequestedOnce' /\ CancelStopsRequests'
  BY DEF IInv, OnlyHTTPSRequested, RequestedOnce, CancelStopsRequests
<1>11. QED BY <1>4, <1>5, <1>6, <1>7, <1>8, <1>9, <1>10 DEF IInv

(* The call returns: what it has recorded stays as it is. *)
LEMMA ReturnKeeps ==
  ASSUME IInv, pc \in {"parse", "try", "wait"}, NEW o \in Outcome, Return(o),
         UNCHANGED <<input, web, ctxDone, i, candidates, requested, attempts, fetches>>,
         o.status # "running",
         IF o.status = "invalid" THEN pc = "parse" /\ fetches = <<>> ELSE pc # "parse",
         o.status = "not-found" => i > Len(candidates),
         o.status = "cancelled" => ctxDone
  PROVE  IInv'
<1>1. outcome.status = "running" BY DEF IInv, StatusFollowsControl
<1>2. TypeOK' BY <1>1 DEF IInv, TypeOK, Return, start
<1>3. CursorInBounds' /\ AboutToFetch' BY DEF CursorInBounds, AboutToFetch, Return
<1>4. StatusFollowsControl' BY DEF StatusFollowsControl, Return
<1>5. MarkedAreAsked' BY DEF IInv, MarkedAreAsked, Asked, Return
<1>6. PassedAreDealtWith' BY DEF IInv, PassedAreDealtWith, Refused, Return
<1>7. LateOnlyInFlight' BY DEF IInv, LateOnlyInFlight, Return
<1>8. OnlyHTTPSRequested' /\ RequestedOnce' /\ CancelStopsRequests'
  BY DEF IInv, OnlyHTTPSRequested, RequestedOnce, CancelStopsRequests
<1>9. QED BY <1>2, <1>3, <1>4, <1>5, <1>6, <1>7, <1>8 DEF IInv
-----------------------------------------------------------------------------
LEMMA InitIInv == Init => IInv
<1> SUFFICES ASSUME Init PROVE IInv
  OBVIOUS
<1>1. TypeOK BY WebsAssumption DEF Init, TypeOK, Outcome
<1>2. QED
  BY <1>1 DEF Init, IInv, CursorInBounds, StatusFollowsControl, AboutToFetch, MarkedAreAsked,
              PassedAreDealtWith, LateOnlyInFlight, OnlyHTTPSRequested, RequestedOnce,
              CancelStopsRequests

LEMMA CancelKeeps == IInv /\ Cancel => IInv'
<1> SUFFICES ASSUME IInv, Cancel PROVE IInv'
  OBVIOUS
<1>1. Current' = Current /\ start' = start BY CurrentStays DEF Cancel
<1>2. TypeOK' BY <1>1 DEF IInv, TypeOK, Cancel
<1>3. QED
  BY <1>1, <1>2 DEF IInv, Cancel, CursorInBounds, StatusFollowsControl, AboutToFetch,
                    MarkedAreAsked, Asked, PassedAreDealtWith, LateOnlyInFlight,
                    OnlyHTTPSRequested, RequestedOnce, CancelStopsRequests

LEMMA ParseInputKeeps == IInv /\ ParseInput => IInv'
<1> SUFFICES ASSUME IInv, ParseInput PROVE IInv'
  OBVIOUS
<1>1. CASE start = None
  <2>1. [status |-> "invalid"] \in Outcome BY DEF Outcome
  <2>2. Return([status |-> "invalid"]) BY <1>1 DEF ParseInput
  <2>3. fetches = <<>> BY DEF ParseInput, IInv, StatusFollowsControl
  <2>4. QED BY <2>1, <2>2, <2>3, ReturnKeeps DEF ParseInput
<1>2. CASE start # None
  <2>1. Current' = Current /\ start' = start BY CurrentStays DEF ParseInput
  <2>2. TypeOK' BY <1>2, <2>1 DEF IInv, TypeOK, ParseInput
  <2>3. QED
    BY <1>2, <2>1, <2>2 DEF IInv, ParseInput, CursorInBounds, StatusFollowsControl,
         AboutToFetch, MarkedAreAsked, Asked, PassedAreDealtWith, LateOnlyInFlight,
         OnlyHTTPSRequested, RequestedOnce, CancelStopsRequests
<1>3. QED BY <1>1, <1>2

LEMMA RefuseKeeps == IInv /\ Refuse => IInv'
<1> SUFFICES ASSUME IInv, Refuse PROVE IInv'
  OBVIOUS
<1>1. Current \in Candidate /\ Current.url \in URL
  BY CurrentType DEF IInv, TypeOK, Refuse, StatusFollowsControl, Candidate
<1>2. /\ attempts' \in Seq(Attempt)
      /\ \A j \in DOMAIN attempts : j \in DOMAIN attempts' /\ attempts'[j] = attempts[j]
      /\ Refused(attempts', Current.url)
  BY <1>1, FailAppends DEF IInv, Refuse, Refused
<1>3. QED BY <1>2, ContinueKeeps DEF Refuse

LEMMA TryCancelledKeeps == IInv /\ TryCancelled => IInv'
<1> SUFFICES ASSUME IInv, TryCancelled PROVE IInv'
  OBVIOUS
<1>1. [status |-> "cancelled"] \in Outcome BY DEF Outcome
<1>2. QED BY <1>1, ReturnKeeps DEF TryCancelled, Trying

LEMMA SkipRequestedKeeps == IInv /\ SkipRequested => IInv'
<1> SUFFICES ASSUME IInv, SkipRequested PROVE IInv'
  OBVIOUS
<1>1. attempts' \in Seq(Attempt) BY DEF IInv, TypeOK, SkipRequested
<1>2. QED BY <1>1, ContinueKeeps DEF SkipRequested, Trying

LEMMA MarkRequestedKeeps == IInv /\ MarkRequested => IInv'
<1> SUFFICES ASSUME IInv, MarkRequested PROVE IInv'
  OBVIOUS
<1> USE DEF MarkRequested, Trying
<1>1. start # None /\ outcome.status = "running" BY DEF IInv, TypeOK, StatusFollowsControl
<1>2. Current \in Candidate /\ requestKey(Current.url) \in URL
  BY <1>1, CurrentType, RequestKeyType DEF IInv, Candidate
<1>3. Current' = Current /\ start' = start BY CurrentStays
<1>4. TypeOK' BY <1>1, <1>2, <1>3 DEF IInv, TypeOK
<1>5. CursorInBounds' BY DEF CursorInBounds
<1>6. StatusFollowsControl' BY <1>1 DEF StatusFollowsControl
<1>7. AboutToFetch'
  <2>1. IsHTTPS(Current.url)
    BY <1>1, StartType DEF IInv, Current, IsHTTPS
  <2>2. ~Asked(requestKey(Current.url)) BY DEF IInv, MarkedAreAsked, Asked
  <2>3. QED BY <1>3, <2>1, <2>2 DEF AboutToFetch, Asked
<1>8. MarkedAreAsked' BY <1>3 DEF IInv, MarkedAreAsked, Asked
<1>9. PassedAreDealtWith' BY DEF IInv, PassedAreDealtWith, Refused, Current
<1>10. LateOnlyInFlight' BY DEF IInv, LateOnlyInFlight
<1>11. OnlyHTTPSRequested' /\ RequestedOnce' /\ CancelStopsRequests'
  BY DEF IInv, OnlyHTTPSRequested, RequestedOnce, CancelStopsRequests
<1>12. QED BY <1>4, <1>5, <1>6, <1>7, <1>8, <1>9, <1>10, <1>11 DEF IInv
LEMMA BeginFetchKeeps == IInv /\ BeginFetch => IInv'
<1> SUFFICES ASSUME IInv, BeginFetch PROVE IInv'
  OBVIOUS
<1> DEFINE e == [url |-> Current.url, method |-> Current.method, late |-> ctxDone]
<1>1. start # None /\ outcome.status = "running"
  BY DEF IInv, TypeOK, StatusFollowsControl, BeginFetch
<1>2. Current \in Candidate
  BY <1>1, CurrentType DEF IInv, CursorInBounds, BeginFetch
<1>3. e \in FetchEvent /\ e.url = Current.url /\ e.late = ctxDone
  BY <1>2 DEF IInv, TypeOK, FetchEvent, Candidate
<1>4. Current' = Current /\ start' = start BY CurrentStays DEF BeginFetch
<1>5. pc = "fetch" /\ pc' = "wait" /\ fetches' = Append(fetches, e) BY DEF BeginFetch
<1> HIDE DEF e
<1>6. fetches \in Seq(FetchEvent) BY DEF IInv, TypeOK
<1>7. /\ fetches' \in Seq(FetchEvent)
      /\ DOMAIN fetches' = 1..(Len(fetches) + 1) /\ Len(fetches') = Len(fetches) + 1
      /\ \A k \in DOMAIN fetches : k \in DOMAIN fetches' /\ fetches'[k] = fetches[k]
      /\ fetches'[Len(fetches) + 1] = e
      /\ \A k \in DOMAIN fetches' : k \in DOMAIN fetches \/ k = Len(fetches) + 1
      /\ Len(fetches) + 1 \in DOMAIN fetches' /\ Len(fetches) \in Nat
      /\ Len(fetches) + 1 \notin DOMAIN fetches
  BY <1>3, <1>5, <1>6
<1>8. TypeOK' BY <1>1, <1>4, <1>7 DEF IInv, TypeOK, BeginFetch
<1>9. CursorInBounds' /\ AboutToFetch' BY <1>5 DEF IInv, CursorInBounds, AboutToFetch, BeginFetch
<1>10. StatusFollowsControl' BY <1>1 DEF StatusFollowsControl, BeginFetch
<1>11. requested' = requested BY DEF BeginFetch
<1>12. MarkedAreAsked'
  <2>1. \A k \in DOMAIN fetches' : requestKey(fetches'[k].url) \in requested
    BY <1>3, <1>5, <1>7 DEF IInv, MarkedAreAsked, AboutToFetch
  <2>2. \A q \in requested : \E j \in DOMAIN fetches' : requestKey(fetches'[j].url) = q
    BY <1>3, <1>5, <1>7 DEF IInv, MarkedAreAsked, Asked
  <2>3. QED BY <1>11, <2>1, <2>2 DEF MarkedAreAsked, Asked
<1>13. PassedAreDealtWith' BY DEF IInv, PassedAreDealtWith, Refused, BeginFetch
<1>14. LateOnlyInFlight' BY <1>3, <1>5, <1>7 DEF IInv, LateOnlyInFlight, BeginFetch
<1>15. OnlyHTTPSRequested'
  BY <1>3, <1>5, <1>7 DEF IInv, AboutToFetch, OnlyHTTPSRequested
<1>16. RequestedOnce'
  BY <1>3, <1>5, <1>7 DEF IInv, AboutToFetch, Asked, RequestedOnce
<1>17. CancelStopsRequests'
  BY <1>3, <1>5, <1>7 DEF IInv, LateOnlyInFlight, CancelStopsRequests
<1>18. QED BY <1>8, <1>9, <1>10, <1>12, <1>13, <1>14, <1>15, <1>16, <1>17 DEF IInv

(* Before a wait the candidate at hand was marked. *)
LEMMA CurrentIsMarked ==
  ASSUME IInv, pc = "wait"
  PROVE  /\ start # None /\ Current \in Candidate /\ Current.url \in URL
         /\ Reply(web, Current.url) \in Response \cup {None}
         /\ i = 0 \/ requestKey(Current.url) \in requested \/ Refused(attempts, Current.url)
<1>1. start # None BY DEF IInv, TypeOK, StatusFollowsControl
<1>2. Current \in Candidate BY <1>1, CurrentType DEF IInv, CursorInBounds
<1>3. Current.url \in URL BY <1>2 DEF Candidate
<1>4. Reply(web, Current.url) \in Response \cup {None} BY <1>3, ReplyType DEF IInv, TypeOK
<1>5. i = 0 \/ requestKey(Current.url) \in requested \/ Refused(attempts, Current.url)
  BY DEF IInv, CursorInBounds, PassedAreDealtWith, Current
<1>6. QED BY <1>1, <1>2, <1>3, <1>4, <1>5

LEMMA FetchFailsKeeps == IInv /\ FetchFails => IInv'
<1> SUFFICES ASSUME IInv, FetchFails PROVE IInv'
  OBVIOUS
<1>1. pc = "wait" BY DEF FetchFails
<1>2. CASE ctxDone
  <2>1. [status |-> "cancelled"] \in Outcome BY DEF Outcome
  <2>2. QED BY <1>1, <1>2, <2>1, ReturnKeeps DEF FetchFails
<1>3. CASE ~ctxDone
  <2>1. /\ attempts' \in Seq(Attempt)
        /\ \A j \in DOMAIN attempts : j \in DOMAIN attempts' /\ attempts'[j] = attempts[j]
    BY <1>1, <1>3, CurrentIsMarked, FailAppends DEF IInv, FetchFails
  <2>2. i = 0 \/ requestKey(Current.url) \in requested \/ Refused(attempts', Current.url)
    BY <1>1, <2>1, CurrentIsMarked DEF Refused
  <2>3. QED BY <1>1, <1>3, <2>1, <2>2, ContinueKeeps DEF FetchFails
<1>4. QED BY <1>2, <1>3

LEMMA FetchReturnsKeeps == IInv /\ FetchReturns => IInv'
<1> SUFFICES ASSUME IInv, FetchReturns PROVE IInv'
  OBVIOUS
<1> DEFINE resp == Reply(web, Current.url)
<1>1. pc = "wait" /\ resp # None BY DEF FetchReturns
<1>2. resp \in Response /\ resp.url \in URL BY <1>1, CurrentIsMarked DEF Response
<1>3. CASE asCatalog(resp)
  <2> DEFINE o == [status |-> "found", url |-> resp.url, method |-> Current.method]
  <2>1. o \in Outcome /\ o.status = "found"
    BY <1>1, <1>2, CurrentIsMarked DEF Outcome, Candidate
  <2>2. Return(o) /\ UNCHANGED <<input, web, ctxDone, i, candidates, requested, attempts, fetches>>
    BY <1>3 DEF FetchReturns
  <2> HIDE DEF o
  <2>3. QED BY <1>1, <2>1, <2>2, ReturnKeeps
<1>4. CASE ~asCatalog(resp)
  <2>1. /\ attempts' \in Seq(Attempt)
        /\ \A j \in DOMAIN attempts : j \in DOMAIN attempts' /\ attempts'[j] = attempts[j]
    BY <1>1, <1>2, <1>4, CurrentIsMarked, FailAppends DEF IInv, FetchReturns
  <2>2. i = 0 \/ requestKey(Current.url) \in requested \/ Refused(attempts', Current.url)
    BY <1>1, <2>1, CurrentIsMarked DEF Refused
  <2>3. Continue(resp) /\ UNCHANGED <<input, web, ctxDone, requested, fetches>>
    BY <1>4 DEF FetchReturns
  <2> HIDE DEF resp
  <2>4. QED BY <1>1, <1>2, <2>1, <2>2, <2>3, ContinueKeeps
<1>5. QED BY <1>3, <1>4

LEMMA ExhaustedKeeps == IInv /\ Exhausted => IInv'
<1> SUFFICES ASSUME IInv, Exhausted PROVE IInv'
  OBVIOUS
<1>1. [status |-> "not-found"] \in Outcome BY DEF Outcome
<1>2. QED BY <1>1, ReturnKeeps DEF Exhausted

LEMMA StutterKeeps == IInv /\ UNCHANGED vars => IInv'
<1> SUFFICES ASSUME IInv, UNCHANGED vars PROVE IInv'
  OBVIOUS
<1>1. Current' = Current /\ start' = start BY CurrentStays DEF vars
<1>2. QED
  BY <1>1 DEF vars, IInv, TypeOK, CursorInBounds, StatusFollowsControl, AboutToFetch,
              MarkedAreAsked, Asked, PassedAreDealtWith, LateOnlyInFlight,
              OnlyHTTPSRequested, RequestedOnce, CancelStopsRequests

LEMMA NextIInv == IInv /\ [Next]_vars => IInv'
BY CancelKeeps, ParseInputKeeps, RefuseKeeps, TryCancelledKeeps, SkipRequestedKeeps,
   MarkRequestedKeeps, BeginFetchKeeps, FetchFailsKeeps, FetchReturnsKeeps,
   ExhaustedKeeps, StutterKeeps DEF Next, Step

-----------------------------------------------------------------------------
(* The invariant holds throughout every call. *)
THEOREM Invariance == Spec => []IInv
BY InitIInv, NextIInv, PTL DEF Spec

(* Every variable of a call stays in its set, whatever the pages hold.     *)
THEOREM TypeCorrect == Spec => []TypeOK
<1>1. IInv => TypeOK BY DEF IInv
<1>2. QED BY <1>1, Invariance, PTL

(* Discover requests https addresses and nothing else (discovery.go:20).   *)
THEOREM RequestsAreHTTPS == Spec => []OnlyHTTPSRequested
<1>1. IInv => OnlyHTTPSRequested BY DEF IInv
<1>2. QED BY <1>1, Invariance, PTL

(* Discover asks for no address twice (discovery.go:214-219).              *)
THEOREM RequestsAreDistinct == Spec => []RequestedOnce
<1>1. IInv => RequestedOnce BY DEF IInv
<1>2. QED BY <1>1, Invariance, PTL

(* A done context lets at most one more request begin (discovery.go:210).  *)
THEOREM CancellationStops == Spec => []CancelStopsRequests
<1>1. IInv => CancelStopsRequests BY DEF IInv
<1>2. QED BY <1>1, Invariance, PTL

(* A call that finds nothing has asked for every https candidate, and one   *)
(* that reports a cancellation was cancelled (discovery.go:178-190).        *)
THEOREM SearchIsThorough == Spec => []NotFoundIsThorough
<1>1. IInv => NotFoundIsThorough
  <2> SUFFICES ASSUME IInv PROVE NotFoundIsThorough
    OBVIOUS
  <2>1. outcome.status = "cancelled" => ctxDone BY DEF IInv, StatusFollowsControl
  <2>2. ASSUME outcome.status = "not-found", NEW k \in DOMAIN candidates
        PROVE  Asked(requestKey(candidates[k].url)) \/ Refused(attempts, candidates[k].url)
    <3>1. pc = "done" /\ i > Len(candidates) BY <2>2 DEF IInv, StatusFollowsControl
    <3>2. k < i BY <2>2, <3>1 DEF IInv, TypeOK
    <3>3. QED BY <3>1, <3>2 DEF IInv, PassedAreDealtWith, MarkedAreAsked
  <2>3. QED BY <2>1, <2>2 DEF NotFoundIsThorough, Asked, Refused
<1>2. QED BY <1>1, Invariance, PTL

-----------------------------------------------------------------------------
(* The procedure the package describes, and the report of a call.           *)
Serves(w, u) == Reply(w, u) # None /\ asCatalog(Reply(w, u))

-----------------------------------------------------------------------------
(* The operators of the procedure are those of the call.                    *)
LEMMA SameOperators ==
  /\ \A w, u : Procedure!Reply(w, u) = Reply(w, u)
  /\ \A w, u : Procedure!Serves(w, u) <=> Serves(w, u)
  /\ \A u : Procedure!IsHTTPS(u) <=> IsHTTPS(u)
  /\ \A b, r : Procedure!Resolve(b, r) = Resolve(b, r)
  /\ \A b : Procedure!WellKnown(b) = WellKnown(b)
  /\ \A r : Procedure!HTMLBase(r) = HTMLBase(r)
<1>1. \A w, u : Procedure!Reply(w, u) = Reply(w, u)
  BY DEF Reply, Procedure!Reply, requestKey, Procedure!requestKey, NotFoundPage, Procedure!NotFoundPage
<1>2. \A w, u : Procedure!Serves(w, u) <=> Serves(w, u)
  BY <1>1 DEF Serves, Procedure!Serves, asCatalog, Procedure!asCatalog
<1>3. \A u : Procedure!IsHTTPS(u) <=> IsHTTPS(u) BY DEF IsHTTPS, Procedure!IsHTTPS
<1>4. \A b, r : Procedure!Resolve(b, r) = Resolve(b, r)
  BY DEF Resolve, Procedure!Resolve, EmptyPath, Procedure!EmptyPath
<1>5. \A b : Procedure!WellKnown(b) = WellKnown(b)
  BY <1>4 DEF WellKnown, Procedure!WellKnown, WellKnownPath, Procedure!WellKnownPath
<1>6. \A r : Procedure!HTMLBase(r) = HTMLBase(r)
  BY <1>4 DEF HTMLBase, Procedure!HTMLBase
<1>7. QED BY <1>1, <1>2, <1>3, <1>4, <1>5, <1>6

(* An address is its four parts. *)
LEMMA URLIsItsParts ==
  ASSUME NEW u \in URL
  PROVE  u = [scheme |-> u.scheme, host |-> u.host, path |-> u.path, frag |-> u.frag]
<1>1. \A S, H, P, F : \A x \in [scheme : S, host : H, path : P, frag : F] :
        x = [scheme |-> x.scheme, host |-> x.host, path |-> x.path, frag |-> x.frag]
  OBVIOUS
<1> DEFINE H == Hosts \cup {""}
<1>2. u \in [scheme : Schemes, host : H, path : Paths, frag : Fragments] BY DEF URL
<1> HIDE DEF H
<1>3. QED BY <1>1, <1>2

(* The procedure refuses the inputs the call does, and asks for the same. *)
LEMMA SameStart ==
  ASSUME NEW in \in Ref
  PROVE  /\ Procedure!Acceptable(in) <=> parseInput(in) # None
         /\ parseInput(in) # None => Procedure!Asked(in) = parseInput(in)
<1> DEFINE u == [in EXCEPT !.scheme = IF @ = "" THEN "https" ELSE @]
           v == [u EXCEPT !.path = IF @ = EmptyPath THEN RootPath ELSE @]
<1>1. u \in URL BY DEF URL, Ref, Schemes
<1>2. v \in URL BY <1>1 DEF URL, Paths
<1>3. v # None BY <1>2, NoneAssumption
<1>4. /\ u.scheme = "https" <=> in.scheme \in {"", "https"}
      /\ u.host = in.host
  BY DEF Ref, Schemes
<1>5. u.scheme = "https" => v = Procedure!Asked(in)
  <2>1. /\ v.scheme = u.scheme /\ v.host = in.host /\ v.frag = in.frag
        /\ v.path = IF in.path = "" THEN "/" ELSE in.path
    BY DEF Ref, EmptyPath, RootPath
  <2> HIDE DEF v
  <2>2. v = [scheme |-> v.scheme, host |-> v.host, path |-> v.path, frag |-> v.frag]
    BY <1>2, URLIsItsParts
  <2>3. QED
    BY <2>1, <2>2 DEF Procedure!Asked, Procedure!EmptyPath, Procedure!RootPath
<1> HIDE DEF v
<1>6. parseInput(in) = IF u.scheme # "https" \/ u.host = "" THEN None ELSE v
  BY DEF parseInput, IsHTTPS, v
<1> HIDE DEF u
<1>7. QED BY <1>3, <1>4, <1>5, <1>6 DEF Procedure!Acceptable

-----------------------------------------------------------------------------
(* The candidates of a call are the places of the procedure, in its order.  *)
Headers(r) == IF r # None /\ r.page.success THEN headerCandidates(r) ELSE <<>>

Links(r) == IF r # None /\ r.page.success /\ r.page.html THEN htmlCandidates(r) ELSE <<>>

LEMMA Parts ==
  ASSUME NEW r \in Response \cup {None}
  PROVE  /\ Headers(r) \in Seq(Candidate) /\ Links(r) \in Seq(Candidate)
         /\ r # None /\ r.page.success =>
              /\ DOMAIN r.page.links = 1..Len(Headers(r))
              /\ \A k \in 1..Len(Headers(r)) :
                   Headers(r)[k].url = Resolve(r.url, r.page.links[k]) /\ Headers(r)[k].method = "link-header"
              /\ r.page.html => DOMAIN r.page.hrefs = 1..Len(Links(r))
              /\ r.page.html => \A k \in 1..Len(Links(r)) :
                   Links(r)[k].url = Resolve(HTMLBase(r), r.page.hrefs[k]) /\ Links(r)[k].method = "html-link"
         /\ r = None \/ ~r.page.success => Len(Headers(r)) = 0 /\ Len(Links(r)) = 0
         /\ r # None /\ ~r.page.html => Len(Links(r)) = 0
<1>1. CASE r = None \/ ~r.page.success BY <1>1 DEF Headers, Links
<1>2. CASE r # None /\ r.page.success
  <2>1. Headers(r) = headerCandidates(r) BY <1>2 DEF Headers
  <2>2. /\ Headers(r) \in Seq(Candidate)
        /\ DOMAIN r.page.links = 1..Len(Headers(r))
    BY <1>2, <2>1, HeaderCandidatesType
  <2>3. \A k \in 1..Len(Headers(r)) :
                   Headers(r)[k].url = Resolve(r.url, r.page.links[k]) /\ Headers(r)[k].method = "link-header"
    BY <2>1, <2>2 DEF headerCandidates
  <2>4. CASE ~r.page.html BY <1>2, <2>2, <2>3, <2>4 DEF Links
  <2>5. CASE r.page.html
    <3>1. Links(r) = htmlCandidates(r) BY <1>2, <2>5 DEF Links
    <3>2. /\ Links(r) \in Seq(Candidate)
          /\ DOMAIN r.page.hrefs = 1..Len(Links(r))
      BY <1>2, <3>1, HTMLCandidatesType
    <3>3. \A k \in 1..Len(Links(r)) :
                   Links(r)[k].url = Resolve(HTMLBase(r), r.page.hrefs[k]) /\ Links(r)[k].method = "html-link"
      BY <3>1, <3>2 DEF htmlCandidates
    <3>4. QED BY <1>2, <2>2, <2>3, <2>5, <3>2, <3>3
  <2>6. QED BY <2>4, <2>5
<1>3. QED BY <1>1, <1>2

LEMMA CandidateMethods ==
  ASSUME NEW r \in Response \cup {None}
  PROVE  /\ \A k \in 1..Len(Headers(r)) : Headers(r)[k].method = "link-header"
         /\ \A k \in 1..Len(Links(r)) : Links(r)[k].method = "html-link"
BY Parts

(* Headers, then links, then fallbacks, each at the position that follows. *)
LEMMA InOrder ==
  ASSUME NEW asked \in URL, NEW r \in Response \cup {None}
  PROVE  LET C == candidatesAfter(asked, r)
             W == wellKnownCandidates(asked, r)
             a == Len(Headers(r))
             b == Len(Links(r))
         IN  /\ a \in Nat /\ b \in Nat /\ Len(W) \in {1, 2}
             /\ DOMAIN C = 1..(a + b + Len(W))
             /\ \A k \in 1..a : C[k] = Headers(r)[k]
             /\ \A k \in 1..b : C[a + k] = Links(r)[k]
             /\ \A k \in 1..Len(W) : C[a + b + k] = W[k]
<1> DEFINE W == wellKnownCandidates(asked, r)
<1>1. candidatesAfter(asked, r) = (Headers(r) \o Links(r)) \o W
  <2>1. CASE r # None /\ r.page.success
    BY <2>1 DEF candidatesAfter, linkCandidates, Headers, Links
  <2>2. CASE ~(r # None /\ r.page.success)
    <3>1. <<>> \o <<>> = <<>> OBVIOUS
    <3>2. Headers(r) = <<>> /\ Links(r) = <<>> BY <2>2 DEF Headers, Links
    <3>3. QED BY <2>2, <3>1, <3>2 DEF candidatesAfter
  <2>3. QED BY <2>1, <2>2
<1>2. W \in Seq(Candidate) /\ Len(W) \in {1, 2}
  <2>1. \A x \in URL : [url |-> WellKnown(x), method |-> "well-known"] \in Candidate
    BY WellKnownType DEF Candidate, Methods
  <2>2. r # None => r.url \in URL BY DEF Response
  <2>3. QED BY <2>1, <2>2 DEF wellKnownCandidates
<1>3. Headers(r) \in Seq(Candidate) /\ Links(r) \in Seq(Candidate) BY Parts
<1> HIDE DEF W
<1>4. \A A, B, D \in Seq(Candidate) :
        /\ Len(A) \in Nat /\ Len(B) \in Nat /\ Len(D) \in Nat
        /\ DOMAIN ((A \o B) \o D) = 1..(Len(A) + Len(B) + Len(D))
        /\ \A k \in 1..Len(A) : ((A \o B) \o D)[k] = A[k]
        /\ \A k \in 1..Len(B) : ((A \o B) \o D)[Len(A) + k] = B[k]
        /\ \A k \in 1..Len(D) : ((A \o B) \o D)[Len(A) + Len(B) + k] = D[k]
  <2> SUFFICES ASSUME NEW A \in Seq(Candidate), NEW B \in Seq(Candidate), NEW D \in Seq(Candidate)
      PROVE /\ Len(A) \in Nat /\ Len(B) \in Nat /\ Len(D) \in Nat
            /\ DOMAIN ((A \o B) \o D) = 1..(Len(A) + Len(B) + Len(D))
            /\ \A k \in 1..Len(A) : ((A \o B) \o D)[k] = A[k]
            /\ \A k \in 1..Len(B) : ((A \o B) \o D)[Len(A) + k] = B[k]
            /\ \A k \in 1..Len(D) : ((A \o B) \o D)[Len(A) + Len(B) + k] = D[k]
    OBVIOUS
  <2>1. Len(A) \in Nat /\ Len(B) \in Nat /\ Len(D) \in Nat OBVIOUS
  <2>2. /\ A \o B \in Seq(Candidate) /\ Len(A \o B) = Len(A) + Len(B)
        /\ \A k \in 1..Len(A) : (A \o B)[k] = A[k]
        /\ \A k \in 1..Len(B) : (A \o B)[Len(A) + k] = B[k]
    BY <2>1
  <2> DEFINE E == A \o B
  <2> HIDE DEF E
  <2>3. /\ E \o D \in Seq(Candidate) /\ Len(E \o D) = Len(E) + Len(D)
        /\ DOMAIN (E \o D) = 1..(Len(E) + Len(D))
        /\ \A k \in 1..Len(E) : (E \o D)[k] = E[k]
        /\ \A k \in 1..Len(D) : (E \o D)[Len(E) + k] = D[k]
    BY <2>1, <2>2 DEF E
  <2>4. QED BY <2>1, <2>2, <2>3 DEF E
<1>5. QED BY <1>1, <1>2, <1>3, <1>4 DEF W

(* A place, and the places of an input on a web by the parts that name them. *)
Place(s, n, u, m) == [source |-> s, nth |-> n, url |-> u, method |-> m]

Bases(asked, r) == {asked} \cup (IF r = None THEN {} ELSE {r.url})

Rank(asked, b) == IF b = asked THEN 2 ELSE 1

LEMMA PlaceParts ==
  \A s, n, u, m : /\ Place(s, n, u, m).source = s /\ Place(s, n, u, m).nth = n
                  /\ Place(s, n, u, m).url = u /\ Place(s, n, u, m).method = m
BY DEF Place

LEMMA PlacesByPart ==
  ASSUME NEW in \in Ref, parseInput(in) # None, NEW w, IsWeb(w), NEW r, NEW asked,
         asked = parseInput(in), r = Reply(w, asked), NEW o
  PROVE  o \in Procedure!Places(in, w) <=>
           \/ o = Place(0, 1, asked, "direct")
           \/ \E k \in 1..Len(Headers(r)) : o = Place(1, k, Headers(r)[k].url, "link-header")
           \/ \E k \in 1..Len(Links(r)) : o = Place(2, k, Links(r)[k].url, "html-link")
           \/ \E b \in Bases(asked, r) : o = Place(3, Rank(asked, b), WellKnown(b), "well-known")
<1>1. Procedure!Asked(in) = asked BY SameStart
<1>2. Procedure!Reply(w, Procedure!Asked(in)) = r BY <1>1, SameOperators
<1>3. asked \in URL /\ r \in Response \cup {None} BY ParseInputType, ReplyType
<1> HIDE DEF Place
<1>4. o \in Procedure!Direct(in) <=> o = Place(0, 1, asked, "direct")
  BY <1>1 DEF Procedure!Direct, Place
<1>5. o \in Procedure!AtWellKnown(in, r) <=>
        \E b \in Bases(asked, r) : o = Place(3, Rank(asked, b), WellKnown(b), "well-known")
  BY <1>1, SameOperators DEF Procedure!AtWellKnown, Bases, Rank, Place
<1>6. o \in Procedure!InHeaders(r) <=>
        \E k \in DOMAIN r.page.links :
          o = Place(1, k, Resolve(r.url, r.page.links[k]), "link-header")
  BY SameOperators DEF Procedure!InHeaders, Place
<1>7. o \in Procedure!InHTML(r) <=>
        r.page.html /\ \E k \in DOMAIN r.page.hrefs :
          o = Place(2, k, Resolve(HTMLBase(r), r.page.hrefs[k]), "html-link")
  BY SameOperators DEF Procedure!InHTML, Place
<1>8. CASE r # None /\ r.page.success
  <2>1. o \in Procedure!InHeaders(r) <=>
          \E k \in 1..Len(Headers(r)) : o = Place(1, k, Headers(r)[k].url, "link-header")
    <3>1. \A k \in 1..Len(Headers(r)) : Headers(r)[k].url = Resolve(r.url, r.page.links[k])
      BY <1>3, <1>8, Parts
    <3>2. DOMAIN r.page.links = 1..Len(Headers(r)) BY <1>3, <1>8, Parts
    <3>3. QED BY <1>6, <3>1, <3>2
  <2>2. o \in Procedure!InHTML(r) <=>
          \E k \in 1..Len(Links(r)) : o = Place(2, k, Links(r)[k].url, "html-link")
    <3>1. CASE r.page.html
      <4>1. \A k \in 1..Len(Links(r)) : Links(r)[k].url = Resolve(HTMLBase(r), r.page.hrefs[k])
        BY <1>3, <1>8, <3>1, Parts
      <4>2. DOMAIN r.page.hrefs = 1..Len(Links(r)) BY <1>3, <1>8, <3>1, Parts
      <4>3. QED BY <1>7, <3>1, <4>1, <4>2
    <3>2. CASE ~r.page.html
      <4>1. 1..Len(Links(r)) = {} BY <1>3, <1>8, <3>2, Parts
      <4>2. QED BY <1>7, <3>2, <4>1
    <3>3. QED BY <3>1, <3>2
  <2>3. QED BY <1>2, <1>4, <1>5, <1>8, <2>1, <2>2 DEF Procedure!Places
<1>9. CASE ~(r # None /\ r.page.success)
  <2>1. 1..Len(Headers(r)) = {} /\ 1..Len(Links(r)) = {} BY <1>3, <1>9, Parts
  <2>2. QED BY <1>2, <1>4, <1>5, <1>9, <2>1 DEF Procedure!Places
<1>10. QED BY <1>8, <1>9

(* The parts of the candidates, and where each begins. *)
Layout(asked, r, C, a, b) ==
  /\ a \in Nat /\ b \in Nat
  /\ \A k \in 1..a : /\ k \in DOMAIN C /\ C[k].url = Headers(r)[k].url
                     /\ C[k].method = "link-header"
  /\ \A k \in 1..b : /\ a + k \in DOMAIN C /\ C[a + k].url = Links(r)[k].url
                     /\ C[a + k].method = "html-link"
  /\ IF r # None /\ ~sameOrigin(r.url, asked)
     THEN /\ DOMAIN C = 1..(a + b + 2)
          /\ C[a + b + 1] = [url |-> WellKnown(r.url), method |-> "well-known"]
          /\ C[a + b + 2] = [url |-> WellKnown(asked), method |-> "well-known"]
     ELSE /\ DOMAIN C = 1..(a + b + 1)
          /\ C[a + b + 1] = [url |-> WellKnown(asked), method |-> "well-known"]

LEMMA CandidateParts ==
  ASSUME NEW asked \in URL, NEW r \in Response \cup {None}, NEW C,
         C = candidatesAfter(asked, r)
  PROVE  Layout(asked, r, C, Len(Headers(r)), Len(Links(r)))
<1> DEFINE W == wellKnownCandidates(asked, r)
           a == Len(Headers(r))
           b == Len(Links(r))
<1>1. /\ a \in Nat /\ b \in Nat /\ Len(W) \in {1, 2}
      /\ DOMAIN C = 1..(a + b + Len(W))
      /\ \A k \in 1..a : C[k] = Headers(r)[k]
      /\ \A k \in 1..b : C[a + k] = Links(r)[k]
      /\ \A k \in 1..Len(W) : C[a + b + k] = W[k]
  BY InOrder
<1>0. /\ \A k \in 1..a : Headers(r)[k].method = "link-header"
      /\ \A k \in 1..b : Links(r)[k].method = "html-link"
  BY CandidateMethods
<1> HIDE DEF a, b
<1>2. CASE r # None /\ ~sameOrigin(r.url, asked)
  <2>1. W = <<[url |-> WellKnown(r.url), method |-> "well-known"],
              [url |-> WellKnown(asked), method |-> "well-known"]>>
    BY <1>2 DEF wellKnownCandidates
  <2>2. Len(W) = 2 /\ W[1] = [url |-> WellKnown(r.url), method |-> "well-known"]
        /\ W[2] = [url |-> WellKnown(asked), method |-> "well-known"]
    BY <2>1
  <2> HIDE DEF W
  <2>3. C[a + b + 1] = W[1] /\ C[a + b + 2] = W[2] BY <1>1, <2>2
  <2>4. DOMAIN C = 1..(a + b + 2) BY <1>1, <2>2
  <2>5. QED BY <1>1, <1>2, <2>2, <2>3, <2>4, <1>0 DEF a, b, Layout
<1>3. CASE ~(r # None /\ ~sameOrigin(r.url, asked))
  <2>1. W = <<[url |-> WellKnown(asked), method |-> "well-known"]>>
    BY <1>3 DEF wellKnownCandidates
  <2>2. Len(W) = 1 /\ W[1] = [url |-> WellKnown(asked), method |-> "well-known"]
    BY <2>1
  <2> HIDE DEF W
  <2>3. C[a + b + 1] = W[1] /\ DOMAIN C = 1..(a + b + 1) BY <1>1, <2>2
  <2>4. QED BY <1>1, <1>3, <2>2, <2>3, <1>0 DEF a, b, Layout
<1>4. QED BY <1>2, <1>3

(* Addresses of one origin have one well-known URI. *)
LEMMA OneWellKnown ==
  ASSUME NEW b \in URL, NEW c \in URL, sameOrigin(b, c)
  PROVE  WellKnown(b) = WellKnown(c)
<1>1. WellKnown(b) \in URL /\ WellKnown(c) \in URL BY WellKnownType
<1>2. \A x \in URL : /\ WellKnown(x).scheme = x.scheme /\ WellKnown(x).host = x.host
                     /\ WellKnown(x).path = WellKnownPath /\ WellKnown(x).frag = ""
  BY DEF WellKnown, Resolve, URL, EmptyPath, WellKnownPath
<1>3. b.scheme = c.scheme /\ b.host = c.host BY DEF sameOrigin
<1>4. \A x \in URL : WellKnown(x) = [scheme |-> x.scheme, host |-> x.host,
                                     path |-> WellKnownPath, frag |-> ""]
  <2> TAKE x \in URL
  <2> DEFINE y == WellKnown(x)
  <2>1. y \in URL BY WellKnownType
  <2>2. y.scheme = x.scheme /\ y.host = x.host /\ y.path = WellKnownPath /\ y.frag = ""
    BY <1>2
  <2> HIDE DEF y
  <2>3. y = [scheme |-> y.scheme, host |-> y.host, path |-> y.path, frag |-> y.frag]
    BY <2>1, URLIsItsParts
  <2>4. y = [scheme |-> x.scheme, host |-> x.host, path |-> WellKnownPath, frag |-> ""]
    BY <2>2, <2>3
  <2>5. QED BY <2>4 DEF y
<1>5. QED BY <1>3, <1>4

-----------------------------------------------------------------------------
(* Every place but the direct one is a candidate. *)
LEMMA PlacesAreCandidates ==
  ASSUME NEW in \in Ref, parseInput(in) # None, NEW w, IsWeb(w), NEW r, NEW asked,
         asked = parseInput(in), r = Reply(w, asked), NEW C, C = candidatesAfter(asked, r),
         NEW o \in Procedure!Places(in, w)
  PROVE  o.url = asked \/ \E j \in DOMAIN C : C[j].url = o.url
<1> DEFINE a == Len(Headers(r))
           b == Len(Links(r))
<1>1. asked \in URL /\ r \in Response \cup {None} /\ (r # None => r.url \in URL)
  BY ParseInputType, ReplyType DEF Response
<1>2. Layout(asked, r, C, a, b) BY <1>1, CandidateParts
<1>3. \/ o = Place(0, 1, asked, "direct")
      \/ \E k \in 1..a : o = Place(1, k, Headers(r)[k].url, "link-header")
      \/ \E k \in 1..b : o = Place(2, k, Links(r)[k].url, "html-link")
      \/ \E c \in Bases(asked, r) : o = Place(3, Rank(asked, c), WellKnown(c), "well-known")
  BY PlacesByPart
<1> HIDE DEF a, b
<1>4. r # None /\ sameOrigin(r.url, asked) => WellKnown(r.url) = WellKnown(asked)
  BY <1>1, OneWellKnown
<1>5. ASSUME NEW c \in Bases(asked, r) PROVE \E j \in DOMAIN C : C[j].url = WellKnown(c)
  <2>1. CASE r # None /\ ~sameOrigin(r.url, asked)
    <3>1. a + b + 1 \in DOMAIN C /\ a + b + 2 \in DOMAIN C BY <1>2, <2>1 DEF Layout
    <3>2. C[a + b + 1].url = WellKnown(r.url) /\ C[a + b + 2].url = WellKnown(asked)
      BY <1>2, <2>1 DEF Layout
    <3>3. QED BY <1>5, <3>1, <3>2 DEF Bases
  <2>2. CASE ~(r # None /\ ~sameOrigin(r.url, asked))
    <3>1. a + b + 1 \in DOMAIN C /\ C[a + b + 1].url = WellKnown(asked) BY <1>2, <2>2 DEF Layout
    <3>2. WellKnown(c) = WellKnown(asked) BY <1>4, <1>5, <2>2 DEF Bases
    <3>3. QED BY <3>1, <3>2
  <2>3. QED BY <2>1, <2>2
<1>6. \A k \in 1..a : k \in DOMAIN C /\ C[k].url = Headers(r)[k].url BY <1>2 DEF Layout
<1>7. \A k \in 1..b : a + k \in DOMAIN C /\ C[a + k].url = Links(r)[k].url BY <1>2 DEF Layout
<1>8. QED BY <1>3, <1>5, <1>6, <1>7, PlaceParts

(* Every candidate is a place, and what the procedure puts before that      *)
(* place is the direct one or an earlier candidate.                         *)
LEMMA CandidatesArePlaces ==
  ASSUME NEW in \in Ref, parseInput(in) # None, NEW w, IsWeb(w), NEW r, NEW asked,
         asked = parseInput(in), r = Reply(w, asked), NEW C, C = candidatesAfter(asked, r),
         NEW k \in DOMAIN C
  PROVE  \E p \in Procedure!Places(in, w) :
           /\ p.url = C[k].url /\ p.method = C[k].method
           /\ \A o \in Procedure!Places(in, w) : Procedure!Before(o, p) =>
                o.url = asked \/ \E j \in DOMAIN C : j < k /\ C[j].url = o.url
<1> DEFINE a == Len(Headers(r))
           b == Len(Links(r))
           Earlier(u) == \E j \in DOMAIN C : j < k /\ C[j].url = u
           Placed(o) == \/ o = Place(0, 1, asked, "direct")
                        \/ \E n \in 1..a : o = Place(1, n, Headers(r)[n].url, "link-header")
                        \/ \E n \in 1..b : o = Place(2, n, Links(r)[n].url, "html-link")
                        \/ \E c \in Bases(asked, r) :
                             o = Place(3, Rank(asked, c), WellKnown(c), "well-known")
<1>1. asked \in URL /\ r \in Response \cup {None} /\ (r # None => r.url \in URL)
  BY ParseInputType, ReplyType DEF Response
<1>2. Layout(asked, r, C, a, b) BY <1>1, CandidateParts
<1>3. \A o : o \in Procedure!Places(in, w) <=> Placed(o) BY PlacesByPart
<1> HIDE DEF a, b, Placed
<1>4. SUFFICES \E p : /\ Placed(p) /\ p.url = C[k].url /\ p.method = C[k].method
                      /\ \A o : Placed(o) /\ Procedure!Before(o, p) => o.url = asked \/ Earlier(o.url)
  BY <1>3
<1>5. \A o : Placed(o) =>
        \/ o.source = 0 /\ o.url = asked
        \/ o.source = 1 /\ o.nth \in 1..a /\ o.url = Headers(r)[o.nth].url
        \/ o.source = 2 /\ o.nth \in 1..b /\ o.url = Links(r)[o.nth].url
        \/ o.source = 3 /\ \E c \in Bases(asked, r) : o.nth = Rank(asked, c) /\ o.url = WellKnown(c)
  BY PlaceParts DEF Placed
<1>6. k \in Nat /\ k >= 1 /\ a \in Nat /\ b \in Nat BY <1>2 DEF Layout
<1>7. \A n \in 1..a : n < k => Earlier(Headers(r)[n].url) BY <1>2 DEF Layout
<1>8. \A n \in 1..b : a + n < k => Earlier(Links(r)[n].url) BY <1>2 DEF Layout
<1> HIDE DEF Earlier
<1>9. CASE k <= a
  <2> DEFINE p == Place(1, k, Headers(r)[k].url, "link-header")
  <2>1. k \in 1..a BY <1>2, <1>6, <1>9 DEF Layout
  <2>2. Placed(p) BY <2>1 DEF Placed
  <2>3. p.source = 1 /\ p.nth = k /\ p.url = C[k].url /\ p.method = C[k].method
    BY <1>2, <2>1, PlaceParts DEF Layout
  <2> HIDE DEF p
  <2>4. ASSUME NEW o, Placed(o), Procedure!Before(o, p) PROVE o.url = asked \/ Earlier(o.url)
    BY <1>5, <1>6, <1>7, <2>3, <2>4 DEF Procedure!Before
  <2>5. QED BY <2>2, <2>3, <2>4
<1>10. CASE a < k /\ k <= a + b
  <2> DEFINE n == k - a
             p == Place(2, n, Links(r)[n].url, "html-link")
  <2>1. n \in 1..b /\ k = a + n BY <1>2, <1>6, <1>10 DEF Layout
  <2>2. Placed(p) BY <2>1 DEF Placed
  <2>3. p.source = 2 /\ p.nth = n /\ p.url = Links(r)[n].url /\ p.method = "html-link"
    BY PlaceParts
  <2> HIDE DEF p, n
  <2>4. p.url = C[k].url /\ p.method = C[k].method BY <1>2, <2>1, <2>3 DEF Layout
  <2>5. ASSUME NEW o, Placed(o), Procedure!Before(o, p) PROVE o.url = asked \/ Earlier(o.url)
    BY <1>5, <1>6, <1>7, <1>8, <2>1, <2>3, <2>5 DEF Procedure!Before
  <2>6. QED BY <2>2, <2>3, <2>4, <2>5
<1>11. CASE a + b < k
  <2> DEFINE At(c) == Place(3, Rank(asked, c), WellKnown(c), "well-known")
  <2>1. ASSUME NEW c \in Bases(asked, r), C[k].url = WellKnown(c), C[k].method = "well-known",
               \A d \in Bases(asked, r) : Rank(asked, d) < Rank(asked, c) => Earlier(WellKnown(d))
        PROVE  \E p : /\ Placed(p) /\ p.url = C[k].url /\ p.method = C[k].method
                      /\ \A o : Placed(o) /\ Procedure!Before(o, p) =>
                           o.url = asked \/ Earlier(o.url)
    <3> DEFINE p == At(c)
    <3>1. Placed(p) BY DEF Placed
    <3>2. p.source = 3 /\ p.nth = Rank(asked, c) /\ p.url = C[k].url /\ p.method = C[k].method
      BY <2>1, PlaceParts
    <3> HIDE DEF p
    <3>3. \A n \in 1..a : Earlier(Headers(r)[n].url) BY <1>6, <1>7, <1>11
    <3>4. \A n \in 1..b : Earlier(Links(r)[n].url) BY <1>6, <1>8, <1>11
    <3>5. ASSUME NEW o, Placed(o), Procedure!Before(o, p) PROVE o.url = asked \/ Earlier(o.url)
      BY <1>5, <2>1, <3>2, <3>3, <3>4, <3>5 DEF Procedure!Before
    <3>6. QED BY <3>1, <3>2, <3>5
  <2>2. CASE r # None /\ ~sameOrigin(r.url, asked)
    <3>1. DOMAIN C = 1..(a + b + 2) BY <1>2, <2>2 DEF Layout
    <3>2. r.url # asked BY <2>2 DEF sameOrigin
    <3>3. r.url \in Bases(asked, r) /\ asked \in Bases(asked, r) BY <2>2 DEF Bases
    <3>4. Rank(asked, r.url) = 1 /\ Rank(asked, asked) = 2 BY <3>2 DEF Rank
    <3>5. \A d \in Bases(asked, r) : Rank(asked, d) < 2 => d = r.url BY <3>4 DEF Bases
    <3>6. CASE k = a + b + 1
      <4>1. C[k].url = WellKnown(r.url) /\ C[k].method = "well-known" BY <1>2, <2>2, <3>6 DEF Layout
      <4>2. \A d : ~(Rank(asked, d) < 1) BY DEF Rank
      <4>3. QED BY <2>1, <3>3, <3>4, <4>1, <4>2
    <3>7. CASE k = a + b + 2
      <4>1. C[k].url = WellKnown(asked) /\ C[k].method = "well-known" BY <1>2, <2>2, <3>7 DEF Layout
      <4>2. Earlier(WellKnown(r.url))
        <5>1. a + b + 1 \in DOMAIN C /\ a + b + 1 < k BY <1>2, <3>1, <3>7 DEF Layout
        <5>2. C[a + b + 1].url = WellKnown(r.url) BY <1>2, <2>2 DEF Layout
        <5>3. QED BY <5>1, <5>2 DEF Earlier
      <4>3. QED BY <2>1, <3>3, <3>4, <3>5, <4>1, <4>2
    <3>8. QED BY <1>2, <1>6, <1>11, <3>1, <3>6, <3>7 DEF Layout
  <2>3. CASE ~(r # None /\ ~sameOrigin(r.url, asked))
    <3> DEFINE c == IF r = None THEN asked ELSE r.url
    <3>1. k = a + b + 1 BY <1>2, <1>6, <1>11, <2>3 DEF Layout
    <3>2. C[k].url = WellKnown(asked) /\ C[k].method = "well-known" BY <1>2, <2>3, <3>1 DEF Layout
    <3>3. WellKnown(c) = WellKnown(asked) BY <1>1, <2>3, OneWellKnown
    <3>4. c \in Bases(asked, r) BY DEF Bases
    <3>5. \A d \in Bases(asked, r) : ~(Rank(asked, d) < Rank(asked, c)) BY DEF Rank, Bases
    <3> HIDE DEF c
    <3>6. QED BY <2>1, <3>2, <3>3, <3>4, <3>5
  <2>4. QED BY <2>2, <2>3
<1>12. QED BY <1>6, <1>9, <1>10, <1>11

-----------------------------------------------------------------------------
(* The invariant of a search: what it has passed serves no catalog, and its *)
(* attempts are its requests so far.                                        *)
NothingMarkedYet ==
  pc = "parse" \/ (pc = "try" /\ i = 0) => i = 0 /\ requested = {}

SecureAtHand == pc \in {"fetch", "wait"} => IsHTTPS(Current.url)

PlacesAreKnown == i > 0 => candidates = candidatesAfter(start, Reply(web, start))

NothingPassedServes ==
  i > 0 => /\ ~Serves(web, start)
           /\ \A k \in DOMAIN candidates :
                k < i => ~(IsHTTPS(candidates[k].url) /\ Serves(web, candidates[k].url))

MarkedDoNotServe ==
  \A q \in requested :
    Serves(web, q) => pc \in {"fetch", "wait", "done"} /\ q = requestKey(Current.url)

AllTried == Tried(attempts, Len(attempts))

AttemptsAreRequests ==
  /\ \A k \in AllTried :
       /\ Cardinality(Tried(attempts, k)) \in DOMAIN fetches
       /\ attempts[k].method = fetches[Cardinality(Tried(attempts, k))].method
  /\ outcome.status \in {"running", "not-found"} =>
       Len(fetches) = Cardinality(AllTried) + (IF pc = "wait" THEN 1 ELSE 0)
  /\ pc = "wait" => fetches[Len(fetches)].method = Current.method

SearchInv ==
  /\ NothingMarkedYet
  /\ SecureAtHand
  /\ PlacesAreKnown
  /\ NothingPassedServes
  /\ MarkedDoNotServe
  /\ AttemptsAreRequests

-----------------------------------------------------------------------------
(* Addresses that differ in their fragments have one answer. *)
LEMMA ServesByKey ==
  ASSUME NEW w, NEW u \in URL, NEW v \in URL, requestKey(u) = requestKey(v)
  PROVE  Serves(w, u) <=> Serves(w, v)
<1>1. ~asCatalog([url |-> u, page |-> NotFoundPage]) /\ ~asCatalog([url |-> v, page |-> NotFoundPage])
  BY DEF asCatalog, NotFoundPage
<1>2. CASE requestKey(u) \in DOMAIN w BY <1>2 DEF Serves, Reply
<1>3. CASE requestKey(u) \notin DOMAIN w BY <1>1, <1>3 DEF Serves, Reply
<1>4. QED BY <1>2, <1>3

LEMMA KeyOfKey ==
  ASSUME NEW u \in URL
  PROVE  requestKey(u) \in URL /\ requestKey(requestKey(u)) = requestKey(u)
<1>1. requestKey(u) \in URL BY RequestKeyType
<1>2. requestKey(requestKey(u)) = requestKey(u) BY DEF requestKey
<1>3. QED BY <1>1, <1>2

(* The attempts that come from a request, before and after one more. *)
LEMMA TriedIsFinite ==
  ASSUME NEW log, NEW k \in Nat
  PROVE  IsFiniteSet(Tried(log, k)) /\ Cardinality(Tried(log, k)) \in Nat
<1>1. IsFiniteSet(1..k) BY FS_Interval
<1>2. Tried(log, k) \subseteq 1..k BY DEF Tried
<1>3. QED BY <1>1, <1>2, FS_Subset, FS_CardinalityType

OneMoreTried(log, e, longer) ==
  /\ \A k \in 1..Len(log) : Tried(longer, k) = Tried(log, k) /\ longer[k] = log[k]
  /\ e.reason = "scheme" => Tried(longer, Len(longer)) = Tried(log, Len(log))
  /\ e.reason # "scheme" =>
       /\ Tried(longer, Len(longer)) = Tried(log, Len(log)) \cup {Len(longer)}
       /\ Cardinality(Tried(longer, Len(longer))) = Cardinality(Tried(log, Len(log))) + 1
       /\ longer[Len(longer)] = e

LEMMA TriedGrows ==
  ASSUME NEW log \in Seq(Attempt), NEW e \in Attempt, NEW longer, longer = Append(log, e)
  PROVE  OneMoreTried(log, e, longer)
<1>1. /\ Len(log) \in Nat /\ Len(longer) = Len(log) + 1 /\ longer[Len(longer)] = e
      /\ \A k \in 1..Len(log) : longer[k] = log[k]
  OBVIOUS
<1>2. \A k \in 1..Len(log) : Tried(longer, k) = Tried(log, k) BY <1>1 DEF Tried
<1>3. e.reason = "scheme" => Tried(longer, Len(longer)) = Tried(log, Len(log))
  BY <1>1 DEF Tried
<1>4. ASSUME e.reason # "scheme"
      PROVE  Tried(longer, Len(longer)) = Tried(log, Len(log)) \cup {Len(longer)}
  BY <1>1, <1>4 DEF Tried
<1>5. Len(longer) \notin Tried(log, Len(log)) BY <1>1 DEF Tried
<1>6. QED BY <1>1, <1>2, <1>3, <1>4, <1>5, TriedIsFinite, FS_AddElement DEF OneMoreTried
-----------------------------------------------------------------------------
LEMMA InitSearches == Init => SearchInv
<1> SUFFICES ASSUME Init PROVE SearchInv
  OBVIOUS
<1>1. attempts = <<>> /\ Len(attempts) = 0 /\ Len(fetches) = 0 BY DEF Init
<1>2. AllTried = {} /\ Cardinality(AllTried) = 0 BY <1>1, FS_EmptySet DEF AllTried, Tried
<1>3. AttemptsAreRequests BY <1>1, <1>2 DEF Init, AttemptsAreRequests
<1>4. QED
  BY <1>3 DEF Init, SearchInv, NothingMarkedYet, SecureAtHand, PlacesAreKnown,
              NothingPassedServes, MarkedDoNotServe

(* Where the call stands does not depend on its context. *)
LEMMA ContextSearches ==
  ASSUME SearchInv,
         UNCHANGED <<input, web, pc, i, candidates, requested, attempts, outcome, fetches>>
  PROVE  SearchInv'
<1>1. Current' = Current /\ start' = start BY CurrentStays
<1>2. QED
  BY <1>1 DEF SearchInv, NothingMarkedYet, SecureAtHand, PlacesAreKnown, NothingPassedServes,
              MarkedDoNotServe, AttemptsAreRequests, AllTried

LEMMA ReturnSearches ==
  ASSUME IInv, SearchInv, pc \in {"parse", "try", "wait"}, NEW o \in Outcome, Return(o),
         o.status # "running", o.status = "not-found" => pc # "wait",
         UNCHANGED <<input, web, i, candidates, requested, attempts, fetches>>
  PROVE  SearchInv'
<1>1. Current' = Current /\ start' = start BY CurrentStays
<1>2. pc' = "done" /\ outcome' = o BY DEF Return
<1>3. NothingMarkedYet' BY <1>2 DEF NothingMarkedYet
<1>4. SecureAtHand' BY <1>2 DEF SecureAtHand
<1>5. PlacesAreKnown' /\ NothingPassedServes'
  BY <1>1 DEF SearchInv, PlacesAreKnown, NothingPassedServes
<1>6. MarkedDoNotServe' BY <1>1, <1>2 DEF SearchInv, MarkedDoNotServe
<1>7. AttemptsAreRequests'
  <2>1. AllTried' = AllTried BY DEF AllTried
  <2>2. outcome.status = "running" BY DEF IInv, StatusFollowsControl
  <2>3. o.status = "not-found" => Len(fetches) = Cardinality(AllTried) + 0
    BY <2>2 DEF SearchInv, AttemptsAreRequests
  <2>4. QED BY <1>2, <2>1, <2>3 DEF SearchInv, AttemptsAreRequests
<1>8. QED BY <1>3, <1>4, <1>5, <1>6, <1>7 DEF SearchInv

(* On to the next candidate: the one at hand does not lead to a catalog. *)
LEMMA ContinueSearches ==
  ASSUME IInv, SearchInv, pc \in {"try", "wait"}, NEW resp, Continue(resp),
         UNCHANGED <<input, web, requested, fetches>>,
         i = 0 => resp = Reply(web, start),
         i = 0 \/ i \in DOMAIN candidates,
         ~(IsHTTPS(Current.url) /\ Serves(web, Current.url)),
         AttemptsAreRequests'
  PROVE  SearchInv'
<1>1. start' = start BY DEF start
<1>2. i \in Nat /\ i' = i + 1 /\ i' > 0 /\ pc' = "try" /\ start # None
  BY DEF IInv, TypeOK, StatusFollowsControl, Continue
<1>3. i # 0 => candidates' = candidates BY DEF Continue
<1>4. i = 0 => candidates' = candidatesAfter(start, Reply(web, start)) BY DEF Continue
<1>5. NothingMarkedYet' BY <1>2 DEF NothingMarkedYet
<1>6. SecureAtHand' BY <1>2 DEF SecureAtHand
<1>7. PlacesAreKnown' BY <1>1, <1>2, <1>3, <1>4 DEF SearchInv, PlacesAreKnown
<1>8. ~Serves(web, start)
  <2>1. CASE i = 0
    <3>1. Current.url = start BY <2>1 DEF Current
    <3>2. IsHTTPS(start) BY <1>2, StartType DEF IInv
    <3>3. QED BY <3>1, <3>2
  <2>2. CASE i # 0 BY <1>2, <2>2 DEF SearchInv, NothingPassedServes
  <2>3. QED BY <2>1, <2>2
<1>9. NothingPassedServes'
  <2>1. ASSUME NEW k \in DOMAIN candidates', k < i + 1
        PROVE  ~(IsHTTPS(candidates'[k].url) /\ Serves(web, candidates'[k].url))
    <3>1. candidates' \in Seq(Candidate)
      BY <1>2, <1>3, <1>4, StartType, ReplyType, CandidatesAfterType DEF IInv, TypeOK
    <3>2. k \in Nat /\ k >= 1 /\ i # 0 BY <1>2, <2>1, <3>1
    <3>3. CASE k < i BY <1>2, <1>3, <2>1, <3>2, <3>3 DEF SearchInv, NothingPassedServes
    <3>4. CASE k = i BY <1>3, <3>2, <3>4 DEF Current
    <3>5. QED BY <1>2, <2>1, <3>2, <3>3, <3>4
  <2>2. QED BY <1>1, <1>2, <1>8, <2>1 DEF NothingPassedServes
<1>10. MarkedDoNotServe'
  <2>1. SUFFICES ASSUME NEW q \in requested PROVE ~Serves(web, q)
    BY DEF MarkedDoNotServe
  <2>2. CASE pc = "try" BY <2>2 DEF SearchInv, MarkedDoNotServe
  <2>3. CASE pc = "wait"
    <3>1. CASE q = requestKey(Current.url)
      <4>1. Current.url \in URL /\ IsHTTPS(Current.url)
        BY <2>3, CurrentIsMarked DEF SearchInv, SecureAtHand
      <4>2. q \in URL /\ requestKey(q) = requestKey(Current.url) BY <3>1, <4>1, KeyOfKey
      <4>3. QED BY <4>1, <4>2, ServesByKey
    <3>2. CASE q # requestKey(Current.url) BY <3>2 DEF SearchInv, MarkedDoNotServe
    <3>3. QED BY <3>1, <3>2
  <2>4. QED BY <2>2, <2>3
<1>11. QED BY <1>5, <1>6, <1>7, <1>9, <1>10 DEF SearchInv

(* An attempt is recorded for the request that ended, and for no other. *)
LEMMA FailAccounts ==
  ASSUME IInv, SearchInv, NEW u \in URL, NEW r \in {"scheme", "fetch", "document"}, fail(u, r),
         Current \in Candidate, IF r = "scheme" THEN pc = "try" ELSE pc = "wait",
         NEW resp, Continue(resp), UNCHANGED fetches
  PROVE  AttemptsAreRequests'
<1> DEFINE e == [url |-> u, method |-> Current.method, reason |-> r]
<1>1. e \in Attempt /\ e.reason = r /\ e.method = Current.method BY DEF Attempt, Candidate
<1>2. attempts \in Seq(Attempt) /\ fetches \in Seq(FetchEvent) BY DEF IInv, TypeOK
<1>3. attempts' = Append(attempts, e) /\ pc' = "try" /\ outcome' = outcome
  BY DEF fail, Continue
<1> HIDE DEF e
<1>4. /\ \A k \in 1..Len(attempts) :
           Tried(attempts', k) = Tried(attempts, k) /\ attempts'[k] = attempts[k]
      /\ r = "scheme" => AllTried' = AllTried
      /\ r # "scheme" => /\ AllTried' = AllTried \cup {Len(attempts')}
                         /\ Cardinality(AllTried') = Cardinality(AllTried) + 1
                         /\ attempts'[Len(attempts')] = e
  <2>1. OneMoreTried(attempts, e, attempts') BY <1>1, <1>2, <1>3, TriedGrows
  <2>2. QED BY <1>1, <2>1 DEF AllTried, OneMoreTried
<1>5. AllTried \subseteq 1..Len(attempts) BY DEF AllTried, Tried
<1>6. Len(attempts) \in Nat /\ Len(fetches) \in Nat /\ DOMAIN fetches = 1..Len(fetches)
  BY <1>2
<1>7. Cardinality(AllTried) \in Nat BY <1>6, TriedIsFinite DEF AllTried
<1>8. \A k \in AllTried :
        /\ Cardinality(Tried(attempts', k)) \in DOMAIN fetches
        /\ attempts'[k].method = fetches[Cardinality(Tried(attempts', k))].method
  BY <1>4, <1>5 DEF SearchInv, AttemptsAreRequests
<1>9. outcome.status = "running" BY DEF IInv, StatusFollowsControl
<1>10. Len(fetches) = Cardinality(AllTried) + (IF pc = "wait" THEN 1 ELSE 0)
  BY <1>9 DEF SearchInv, AttemptsAreRequests
<1>11. CASE r = "scheme"
  BY <1>3, <1>4, <1>8, <1>10, <1>11 DEF AttemptsAreRequests
<1>12. CASE r # "scheme"
  <2>1. Len(fetches) = Cardinality(AllTried) + 1 BY <1>10, <1>12
  <2>2. Cardinality(Tried(attempts', Len(attempts'))) = Len(fetches)
    BY <1>4, <1>12, <2>1 DEF AllTried
  <2>3. attempts'[Len(attempts')].method = fetches[Len(fetches)].method
    BY <1>1, <1>4, <1>12 DEF SearchInv, AttemptsAreRequests
  <2>4. Len(fetches) \in DOMAIN fetches BY <1>6, <1>7, <2>1
  <2>5. \A k \in AllTried' :
          /\ Cardinality(Tried(attempts', k)) \in DOMAIN fetches
          /\ attempts'[k].method = fetches[Cardinality(Tried(attempts', k))].method
    BY <1>4, <1>8, <1>12, <2>2, <2>3, <2>4
  <2>6. Len(fetches) = Cardinality(AllTried') + 0 BY <1>4, <1>7, <1>12, <2>1
  <2>7. QED BY <1>3, <2>5, <2>6 DEF AttemptsAreRequests
<1>13. QED BY <1>11, <1>12
-----------------------------------------------------------------------------
LEMMA ParseInputSearches == IInv /\ SearchInv /\ ParseInput => SearchInv'
<1> SUFFICES ASSUME IInv, SearchInv, ParseInput PROVE SearchInv'
  OBVIOUS
<1>1. CASE start = None
  <2>1. [status |-> "invalid"] \in Outcome BY DEF Outcome
  <2>2. Return([status |-> "invalid"]) BY <1>1 DEF ParseInput
  <2>3. QED BY <2>1, <2>2, ReturnSearches DEF ParseInput
<1>2. CASE start # None
  <2>1. Current' = Current /\ start' = start BY CurrentStays DEF ParseInput
  <2>2. pc = "parse" /\ pc' = "try" /\ UNCHANGED <<input, web, i, candidates, requested, attempts, outcome, fetches>>
    BY <1>2 DEF ParseInput
  <2>3. AttemptsAreRequests' BY <2>2 DEF SearchInv, AttemptsAreRequests, AllTried
  <2>4. QED
    BY <2>1, <2>2, <2>3 DEF SearchInv, NothingMarkedYet, SecureAtHand, PlacesAreKnown,
                            NothingPassedServes, MarkedDoNotServe
<1>3. QED BY <1>1, <1>2

LEMMA RefuseSearches == IInv /\ SearchInv /\ Refuse => SearchInv'
<1> SUFFICES ASSUME IInv, SearchInv, Refuse PROVE SearchInv'
  OBVIOUS
<1>1. Current \in Candidate /\ Current.url \in URL
  BY CurrentType DEF IInv, TypeOK, Refuse, StatusFollowsControl, Candidate
<1>2. i # 0 BY DEF IInv, PassedAreDealtWith, Refuse
<1>3. AttemptsAreRequests' BY <1>1, FailAccounts DEF Refuse
<1>4. QED BY <1>2, <1>3, ContinueSearches DEF Refuse

LEMMA TryCancelledSearches == IInv /\ SearchInv /\ TryCancelled => SearchInv'
<1> SUFFICES ASSUME IInv, SearchInv, TryCancelled PROVE SearchInv'
  OBVIOUS
<1>1. [status |-> "cancelled"] \in Outcome BY DEF Outcome
<1>2. QED BY <1>1, ReturnSearches DEF TryCancelled, Trying

(* A candidate whose address was requested before served nothing then. *)
LEMMA SkipRequestedSearches == IInv /\ SearchInv /\ SkipRequested => SearchInv'
<1> SUFFICES ASSUME IInv, SearchInv, SkipRequested PROVE SearchInv'
  OBVIOUS
<1>1. pc = "try" /\ i # 0 /\ i \in DOMAIN candidates
  BY DEF SkipRequested, Trying, SearchInv, NothingMarkedYet
<1>2. Current \in Candidate /\ Current.url \in URL
  BY <1>1, CurrentType DEF IInv, TypeOK, StatusFollowsControl, Candidate
<1>3. ~Serves(web, requestKey(Current.url))
  BY <1>1 DEF SkipRequested, SearchInv, MarkedDoNotServe
<1>4. ~Serves(web, Current.url) BY <1>2, <1>3, KeyOfKey, ServesByKey
<1>5. AttemptsAreRequests'
  <2>1. AllTried' = AllTried BY DEF AllTried, SkipRequested
  <2>2. QED
    BY <1>1, <2>1 DEF SearchInv, AttemptsAreRequests, SkipRequested, Continue
<1>6. QED BY <1>1, <1>4, <1>5, ContinueSearches DEF SkipRequested

LEMMA MarkRequestedSearches == IInv /\ SearchInv /\ MarkRequested => SearchInv'
<1> SUFFICES ASSUME IInv, SearchInv, MarkRequested PROVE SearchInv'
  OBVIOUS
<1>1. Current' = Current /\ start' = start BY CurrentStays DEF MarkRequested
<1>2. pc = "try" /\ pc' = "fetch" /\ start # None
  BY DEF MarkRequested, Trying, IInv, TypeOK, StatusFollowsControl
<1>3. SecureAtHand'
  BY <1>1, <1>2, StartType DEF IInv, MarkRequested, Trying, SecureAtHand, Current, IsHTTPS
<1>4. NothingMarkedYet' BY <1>2 DEF NothingMarkedYet
<1>5. PlacesAreKnown' /\ NothingPassedServes'
  BY <1>1 DEF MarkRequested, SearchInv, PlacesAreKnown, NothingPassedServes
<1>6. MarkedDoNotServe' BY <1>1, <1>2 DEF MarkRequested, SearchInv, MarkedDoNotServe
<1>7. AttemptsAreRequests'
  BY <1>1, <1>2 DEF MarkRequested, SearchInv, AttemptsAreRequests, AllTried
<1>8. QED BY <1>3, <1>4, <1>5, <1>6, <1>7 DEF SearchInv

LEMMA BeginFetchSearches == IInv /\ SearchInv /\ BeginFetch => SearchInv'
<1> SUFFICES ASSUME IInv, SearchInv, BeginFetch PROVE SearchInv'
  OBVIOUS
<1> DEFINE e == [url |-> Current.url, method |-> Current.method, late |-> ctxDone]
<1>1. Current' = Current /\ start' = start BY CurrentStays DEF BeginFetch
<1>2. pc = "fetch" /\ pc' = "wait" /\ fetches' = Append(fetches, e) BY DEF BeginFetch
<1>3. start # None /\ outcome.status = "running"
  BY <1>2 DEF IInv, TypeOK, StatusFollowsControl
<1>4. Current \in Candidate BY <1>2, <1>3, CurrentType DEF IInv, CursorInBounds
<1>5. e \in FetchEvent /\ e.method = Current.method
  BY <1>4 DEF IInv, TypeOK, FetchEvent, Candidate
<1> HIDE DEF e
<1>6. fetches \in Seq(FetchEvent) BY DEF IInv, TypeOK
<1>7. /\ Len(fetches) \in Nat /\ Len(fetches') = Len(fetches) + 1 /\ fetches'[Len(fetches')] = e
      /\ \A k \in DOMAIN fetches : k \in DOMAIN fetches' /\ fetches'[k] = fetches[k]
  BY <1>2, <1>5, <1>6
<1>8. NothingMarkedYet' /\ SecureAtHand'
  BY <1>1, <1>2 DEF SearchInv, NothingMarkedYet, SecureAtHand
<1>9. PlacesAreKnown' /\ NothingPassedServes'
  BY <1>1 DEF BeginFetch, SearchInv, PlacesAreKnown, NothingPassedServes
<1>10. MarkedDoNotServe' BY <1>1, <1>2 DEF BeginFetch, SearchInv, MarkedDoNotServe
<1>11. AttemptsAreRequests'
  <2>1. AllTried' = AllTried /\ attempts' = attempts /\ outcome' = outcome
    BY DEF BeginFetch, AllTried
  <2>2. Len(fetches) = Cardinality(AllTried) + 0
    BY <1>2, <1>3 DEF SearchInv, AttemptsAreRequests
  <2>3. Cardinality(AllTried) \in Nat
    <3>1. Len(attempts) \in Nat BY DEF IInv, TypeOK
    <3>2. QED BY <3>1, TriedIsFinite DEF AllTried
  <2>4. QED
    BY <1>1, <1>2, <1>5, <1>7, <2>1, <2>2, <2>3 DEF SearchInv, AttemptsAreRequests
<1>12. QED BY <1>8, <1>9, <1>10, <1>11 DEF SearchInv

LEMMA FetchFailsSearches == IInv /\ SearchInv /\ FetchFails => SearchInv'
<1> SUFFICES ASSUME IInv, SearchInv, FetchFails PROVE SearchInv'
  OBVIOUS
<1>1. pc = "wait" BY DEF FetchFails
<1>2. CASE ctxDone
  <2>1. [status |-> "cancelled"] \in Outcome BY DEF Outcome
  <2>2. Return([status |-> "cancelled"]) BY <1>2 DEF FetchFails
  <2>3. QED BY <1>1, <1>2, <2>1, <2>2, ReturnSearches DEF FetchFails
<1>3. CASE ~ctxDone
  <2>1. Reply(web, Current.url) = None BY <1>3 DEF FetchFails
  <2>2. ~Serves(web, Current.url) BY <2>1 DEF Serves
  <2>3. i = 0 => None = Reply(web, start) BY <2>1 DEF Current
  <2>4. i = 0 \/ i \in DOMAIN candidates BY <1>1 DEF IInv, CursorInBounds
  <2>5. AttemptsAreRequests' BY <1>1, <1>3, CurrentIsMarked, FailAccounts DEF FetchFails
  <2>6. QED BY <1>1, <1>3, <2>2, <2>3, <2>4, <2>5, ContinueSearches DEF FetchFails
<1>4. QED BY <1>2, <1>3

LEMMA FetchReturnsSearches == IInv /\ SearchInv /\ FetchReturns => SearchInv'
<1> SUFFICES ASSUME IInv, SearchInv, FetchReturns PROVE SearchInv'
  OBVIOUS
<1> DEFINE resp == Reply(web, Current.url)
<1>1. pc = "wait" /\ resp # None BY DEF FetchReturns
<1>2. resp \in Response /\ resp.url \in URL BY <1>1, CurrentIsMarked DEF Response
<1>3. CASE asCatalog(resp)
  <2> DEFINE o == [status |-> "found", url |-> resp.url, method |-> Current.method]
  <2>1. o \in Outcome /\ o.status = "found"
    BY <1>1, <1>2, CurrentIsMarked DEF Outcome, Candidate
  <2>2. Return(o) /\ UNCHANGED <<input, web, ctxDone, i, candidates, requested, attempts, fetches>>
    BY <1>3 DEF FetchReturns
  <2> HIDE DEF o
  <2>3. QED BY <1>1, <2>1, <2>2, ReturnSearches
<1>4. CASE ~asCatalog(resp)
  <2>1. fail(resp.url, "document") /\ Continue(resp)
        /\ UNCHANGED <<input, web, ctxDone, requested, fetches>>
    BY <1>4 DEF FetchReturns
  <2>2. ~Serves(web, Current.url) BY <1>4 DEF Serves
  <2>3. i = 0 => resp = Reply(web, start) BY DEF Current
  <2>4. i = 0 \/ i \in DOMAIN candidates BY <1>1 DEF IInv, CursorInBounds
  <2> HIDE DEF resp
  <2>5. AttemptsAreRequests' BY <1>1, <1>2, <2>1, CurrentIsMarked, FailAccounts
  <2>6. QED BY <1>1, <2>1, <2>2, <2>3, <2>4, <2>5, ContinueSearches
<1>5. QED BY <1>3, <1>4

LEMMA ExhaustedSearches == IInv /\ SearchInv /\ Exhausted => SearchInv'
<1> SUFFICES ASSUME IInv, SearchInv, Exhausted PROVE SearchInv'
  OBVIOUS
<1>1. [status |-> "not-found"] \in Outcome BY DEF Outcome
<1>2. QED BY <1>1, ReturnSearches DEF Exhausted

LEMMA NextSearches == IInv /\ SearchInv /\ [Next]_vars => SearchInv'
<1>1. SearchInv /\ (Cancel \/ UNCHANGED vars) => SearchInv'
  BY ContextSearches DEF Cancel, vars
<1>2. QED
  BY <1>1, ParseInputSearches, RefuseSearches, TryCancelledSearches, SkipRequestedSearches,
     MarkRequestedSearches, BeginFetchSearches, FetchFailsSearches, FetchReturnsSearches,
     ExhaustedSearches DEF Next, Step

LEMMA SearchInvariance == Spec => [](IInv /\ SearchInv)
<1>1. Init => IInv /\ SearchInv BY InitIInv, InitSearches
<1>2. IInv /\ SearchInv /\ [Next]_vars => (IInv /\ SearchInv)' BY NextIInv, NextSearches
<1>3. QED BY <1>1, <1>2, PTL DEF Spec

-----------------------------------------------------------------------------
(* What the call returns is an answer of the procedure. *)
LEMMA CallIsAcceptable ==
  ASSUME IInv, start # None
  PROVE  /\ input \in Ref /\ parseInput(input) = start /\ IsWeb(web)
         /\ Procedure!Acceptable(input) /\ start \in URL /\ IsHTTPS(start)
BY InputsAssumption, SameStart, StartType DEF IInv, TypeOK, start

LEMMA GoodPlaces ==
  \A in, w, p : p \in Procedure!Good(in, w) <=>
                  p \in Procedure!Places(in, w) /\ IsHTTPS(p.url) /\ Serves(w, p.url)
BY SameOperators DEF Procedure!Good

LEMMA FoundIsAnswer ==
  ASSUME IInv, SearchInv, pc = "wait", Serves(web, Current.url)
  PROVE  [status |-> "found", url |-> Reply(web, Current.url).url, method |-> Current.method]
           \in Procedure!Answers(input, web)
<1> DEFINE G == Procedure!Good(input, web)
           r == Reply(web, start)
           C == candidatesAfter(start, r)
<1>1. start # None BY DEF IInv, TypeOK, StatusFollowsControl
<1>2. /\ input \in Ref /\ parseInput(input) = start /\ IsWeb(web)
      /\ Procedure!Acceptable(input) /\ start \in URL /\ IsHTTPS(start)
  BY <1>1, CallIsAcceptable
<1>3. IsHTTPS(Current.url) BY DEF SearchInv, SecureAtHand
<1>4. ASSUME NEW p \in Procedure!Places(input, web),
             p.url = Current.url, p.method = Current.method,
             \A o \in G : ~Procedure!Before(o, p)
      PROVE  [status |-> "found", url |-> Reply(web, Current.url).url, method |-> Current.method]
               \in Procedure!Answers(input, web)
  <2>1. p \in G BY <1>3, <1>4, GoodPlaces
  <2>2. p \in {q \in G : \A o \in G : ~Procedure!Before(o, q)} BY <1>4, <2>1
  <2>3. Procedure!Reply(web, p.url).url = Reply(web, Current.url).url
    BY <1>4, SameOperators
  <2> DEFINE F == {q \in G : \A o \in G : ~Procedure!Before(o, q)}
  <2>4. Procedure!Answers(input, web) =
          {[status |-> "found", url |-> Procedure!Reply(web, q.url).url, method |-> q.method] :
             q \in F}
    BY <1>2, <2>1 DEF Procedure!Answers
  <2>5. p \in F BY <2>2
  <2> HIDE DEF F
  <2>6. QED BY <1>4, <2>3, <2>4, <2>5
<1>5. CASE i = 0
  <2> DEFINE p == Place(0, 1, start, "direct")
  <2>1. Current.url = start /\ Current.method = "direct" BY <1>5 DEF Current
  <2>2. p \in Procedure!Places(input, web) BY <1>1, <1>2, PlacesByPart
  <2>3. p.url = start /\ p.method = "direct" /\ p.source = 0 /\ p.nth = 1 BY PlaceParts
  <2> HIDE DEF p
  <2>4. ASSUME NEW o \in G PROVE ~Procedure!Before(o, p)
    <3>1. o \in Procedure!Places(input, web) BY <2>4, GoodPlaces
    <3>2. \/ o = Place(0, 1, start, "direct")
          \/ \E k \in 1..Len(Headers(r)) : o = Place(1, k, Headers(r)[k].url, "link-header")
          \/ \E k \in 1..Len(Links(r)) : o = Place(2, k, Links(r)[k].url, "html-link")
          \/ \E b \in Bases(start, r) : o = Place(3, Rank(start, b), WellKnown(b), "well-known")
      BY <1>1, <1>2, <3>1, PlacesByPart
    <3>3. (o.source = 0 /\ o.nth = 1) \/ o.source \in {1, 2, 3} BY <3>2, PlaceParts
    <3>4. QED BY <2>3, <3>3 DEF Procedure!Before
  <2>5. QED BY <1>4, <2>1, <2>2, <2>3, <2>4
<1>6. CASE i # 0
  <2>1. i > 0 /\ i \in DOMAIN candidates /\ candidates = C /\ Current = C[i]
    BY <1>6 DEF IInv, TypeOK, CursorInBounds, SearchInv, PlacesAreKnown, Current
  <2>2. PICK p \in Procedure!Places(input, web) :
          /\ p.url = C[i].url /\ p.method = C[i].method
          /\ \A o \in Procedure!Places(input, web) : Procedure!Before(o, p) =>
               o.url = start \/ \E j \in DOMAIN C : j < i /\ C[j].url = o.url
    BY <1>1, <1>2, <2>1, CandidatesArePlaces
  <2>3. ASSUME NEW o \in G PROVE ~Procedure!Before(o, p)
    <3>1. o \in Procedure!Places(input, web) /\ IsHTTPS(o.url) /\ Serves(web, o.url)
      BY <2>3, GoodPlaces
    <3>2. o.url # start /\ \A j \in DOMAIN C : j < i => C[j].url # o.url
      BY <2>1, <3>1 DEF SearchInv, NothingPassedServes
    <3>3. QED BY <2>2, <3>1, <3>2
  <2>4. QED BY <1>4, <2>1, <2>2, <2>3
<1>7. QED BY <1>5, <1>6

LEMMA NotFoundIsAnswer ==
  ASSUME IInv, SearchInv, pc = "try", i # 0, i > Len(candidates)
  PROVE  [status |-> "not-found"] \in Procedure!Answers(input, web)
<1>1. start # None BY DEF IInv, TypeOK, StatusFollowsControl
<1>2. /\ input \in Ref /\ parseInput(input) = start /\ IsWeb(web)
      /\ Procedure!Acceptable(input) /\ start \in URL /\ IsHTTPS(start)
  BY <1>1, CallIsAcceptable
<1>3. i > 0 /\ candidates = candidatesAfter(start, Reply(web, start)) /\ candidates \in Seq(Candidate)
  BY DEF IInv, TypeOK, SearchInv, PlacesAreKnown
<1>4. ASSUME NEW p \in Procedure!Good(input, web) PROVE FALSE
  <2>1. p \in Procedure!Places(input, web) /\ IsHTTPS(p.url) /\ Serves(web, p.url)
    BY <1>4, GoodPlaces
  <2>2. p.url = start \/ \E j \in DOMAIN candidates : candidates[j].url = p.url
    BY <1>1, <1>2, <1>3, <2>1, PlacesAreCandidates
  <2>3. \A j \in DOMAIN candidates : j < i BY <1>3 DEF IInv, TypeOK
  <2>4. QED BY <1>3, <2>1, <2>2, <2>3 DEF SearchInv, NothingPassedServes
<1>5. Procedure!Good(input, web) = {} BY <1>4
<1>6. QED BY <1>2, <1>5 DEF Procedure!Answers
-----------------------------------------------------------------------------
(* A step of the call is the answer, the cancellation, or nothing.          *)
LEMMA InitAnswers == Init => Procedure!Init
BY DEF Init, Procedure!Init

LEMMA AnswerStep ==
  ASSUME outcome.status = "running", NEW o, outcome' = o, UNCHANGED <<input, web, ctxDone>>,
         \/ o \in Procedure!Answers(input, web)
         \/ o = [status |-> "cancelled"] /\ ctxDone /\ Procedure!Acceptable(input)
  PROVE  Procedure!Answer
BY DEF Procedure!Answer

LEMMA NextAnswers ==
  ASSUME IInv, SearchInv, [Next]_vars
  PROVE  [Procedure!Next]_(Procedure!vars)
<1> USE DEF Procedure!Next, Procedure!vars
<1>1. pc # "done" => outcome.status = "running" BY DEF IInv, StatusFollowsControl
<1>2. pc \notin {"parse", "done"} => start # None
  BY <1>1 DEF IInv, TypeOK
<1>3. CASE Cancel BY <1>1, <1>3 DEF Cancel, Procedure!Cancel
<1>4. CASE ParseInput
  <2>1. CASE start = None
    <3>1. ~Procedure!Acceptable(input)
      BY <2>1, InputsAssumption, SameStart DEF IInv, TypeOK, start
    <3>2. [status |-> "invalid"] \in Procedure!Answers(input, web)
      BY <3>1 DEF Procedure!Answers
    <3>3. outcome' = [status |-> "invalid"] BY <1>4, <2>1 DEF ParseInput, Return
    <3>4. QED BY <1>1, <1>4, <3>2, <3>3, AnswerStep DEF ParseInput
  <2>2. CASE start # None BY <1>4, <2>2 DEF ParseInput
  <2>3. QED BY <2>1, <2>2
<1>5. CASE Refuse \/ SkipRequested BY <1>5 DEF Refuse, SkipRequested, Continue
<1>6. CASE MarkRequested \/ BeginFetch BY <1>6 DEF MarkRequested, BeginFetch
<1>7. CASE TryCancelled
  <2>1. Procedure!Acceptable(input)
    BY <1>2, <1>7, CallIsAcceptable DEF TryCancelled, Trying
  <2>2. QED BY <1>1, <1>7, <2>1, AnswerStep DEF TryCancelled, Trying, Return
<1>8. CASE FetchFails
  <2>1. CASE ctxDone
    <3>1. Procedure!Acceptable(input) BY <1>2, <1>8, CallIsAcceptable DEF FetchFails
    <3>2. QED BY <1>1, <1>8, <2>1, <3>1, AnswerStep DEF FetchFails, Return
  <2>2. CASE ~ctxDone BY <1>8, <2>2 DEF FetchFails, Continue
  <2>3. QED BY <2>1, <2>2
<1>9. CASE FetchReturns
  <2>1. CASE asCatalog(Reply(web, Current.url))
    <3>1. pc = "wait" /\ Serves(web, Current.url) BY <1>9, <2>1 DEF FetchReturns, Serves
    <3>2. outcome' = [status |-> "found", url |-> Reply(web, Current.url).url,
                      method |-> Current.method]
      BY <1>9, <2>1 DEF FetchReturns, Return
    <3>3. QED BY <1>1, <1>9, <3>1, <3>2, FoundIsAnswer, AnswerStep DEF FetchReturns
  <2>2. CASE ~asCatalog(Reply(web, Current.url)) BY <1>9, <2>2 DEF FetchReturns, Continue
  <2>3. QED BY <2>1, <2>2
<1>10. CASE Exhausted
  <2>1. [status |-> "not-found"] \in Procedure!Answers(input, web)
    BY <1>10, NotFoundIsAnswer DEF Exhausted
  <2>2. outcome' = [status |-> "not-found"] BY <1>10 DEF Exhausted, Return
  <2>3. QED BY <1>1, <1>10, <2>1, <2>2, AnswerStep DEF Exhausted
<1>11. CASE UNCHANGED vars BY <1>11 DEF vars
<1>12. QED
  BY <1>3, <1>4, <1>5, <1>6, <1>7, <1>8, <1>9, <1>10, <1>11 DEF Next, Step
-----------------------------------------------------------------------------
(* The answer of a call is the one the package describes, at whatever       *)
(* moment the caller's context is done: the first catalog in the order      *)
(* direct, Link header, HTML link, well-known, and "not found" only when no *)
(* place holds one (discovery.go:7-17).  This is ImplementsProcedure, but   *)
(* for its fairness: that an answer comes at all.                           *)
THEOREM AnswersAsDescribed == Spec => Procedure!Safety
<1>1. IInv /\ SearchInv /\ [Next]_vars => [Procedure!Next]_(Procedure!vars)
  BY NextAnswers
<1>2. QED BY <1>1, InitAnswers, SearchInvariance, PTL DEF Spec, Procedure!Safety

(* The attempts of a NotFoundError are the requests of the call, in order   *)
(* and by method: none is lost, none is reported twice (discovery.go:227).  *)
THEOREM AttemptsAreComplete == Spec => []AttemptsAccountForRequests
<1>1. IInv /\ SearchInv => AttemptsAccountForRequests
  <2> SUFFICES ASSUME IInv, SearchInv, outcome.status = "not-found"
               PROVE  /\ Cardinality(AllTried) = Len(fetches)
                      /\ \A k \in AllTried :
                           attempts[k].method = fetches[Cardinality(Tried(attempts, k))].method
    BY DEF AttemptsAccountForRequests, AllTried
  <2>1. Len(attempts) \in Nat BY DEF IInv, TypeOK
  <2>2. Cardinality(AllTried) \in Nat BY <2>1, TriedIsFinite DEF AllTried
  <2>3. pc = "done" BY DEF IInv, StatusFollowsControl
  <2>4. QED BY <2>2, <2>3 DEF SearchInv, AttemptsAreRequests
<1>2. QED BY <1>1, SearchInvariance, PTL
=============================================================================
