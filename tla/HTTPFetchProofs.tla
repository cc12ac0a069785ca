-------------------------- MODULE HTTPFetchProofs --------------------------
(***************************************************************************)
(* What holds of every Fetch of the default client, for every site and     *)
(* every value of the limits.                                              *)
(***************************************************************************)
EXTENDS HTTPFetch, RecursionLemmas, SequenceTheorems, TLAPS

(* A redirect is followed only while there is a request left for it. *)
RequestsLeft ==
  /\ IsHTTPS(at)
  /\ Len(via) <= MaxRedirects
  /\ pc = "send" => Len(via) < MaxRedirects
  /\ \A k \in DOMAIN via : IsHTTPS(via[k])

(* An answer is awaited or read from the address requested last. *)
LastRequestAtHand == pc \in {"wait", "read"} => via # <<>> /\ via[Len(via)] = at

(* A body is read from a page, from its start and never past its end. *)
ReadsAPage ==
  /\ pc \in {"send", "wait"} => body = 0
  /\ pc = "read" => /\ AnswerAt(site, at).kind = "page"
                    /\ body <= AnswerAt(site, at).size

RunsUntilDone == pc # "done" => result.status = "running"

IInv ==
  /\ TypeOK /\ RequestsLeft /\ LastRequestAtHand
  /\ ReadsAPage /\ RunsUntilDone /\ ResponseIsWhole

-----------------------------------------------------------------------------
LEMMA AnswerAtType ==
  ASSUME NEW s, IsSite(s), NEW u \in URL
  PROVE  AnswerAt(s, u) \in Answer
BY DEF AnswerAt, IsSite, Answer

LEMMA Appended ==
  ASSUME NEW s \in Seq(URL), NEW u \in URL
  PROVE  /\ Append(s, u) \in Seq(URL)
         /\ Len(Append(s, u)) = Len(s) + 1
         /\ DOMAIN Append(s, u) = 1..(Len(s) + 1)
         /\ Append(s, u)[Len(s) + 1] = u
         /\ \A k \in DOMAIN s : Append(s, u)[k] = s[k]
         /\ Append(s, u) # <<>>
<1>1. QED OBVIOUS

LEMMA ErrorIsResult == Error \in Result /\ [status |-> "running"] \in Result
BY DEF Error, Result

(* A client that has not sent anything, under a context that may be done. *)
Fresh ==
  /\ start \in Starts /\ site \in Sites /\ stopped \in BOOLEAN
  /\ pc = "send" /\ at = start /\ via = <<>> /\ body = 0
  /\ result = [status |-> "running"]

LEMMA FreshHolds == Fresh => IInv
<1> SUFFICES ASSUME Fresh PROVE IInv
  OBVIOUS
<1>1. start \in URL /\ IsHTTPS(start) BY StartsAssumption DEF Fresh
<1>2. IsSite(site) BY SitesAssumption DEF Fresh
<1>3. TypeOK
  <2>1. body \in 0..ReadLimit BY BoundsAssumption DEF Fresh, ReadLimit
  <2>2. via \in Seq(URL) BY DEF Fresh
  <2>3. result \in Result BY ErrorIsResult DEF Fresh
  <2>4. QED BY <1>1, <1>2, <2>1, <2>2, <2>3 DEF Fresh, TypeOK
<1>4. RequestsLeft BY <1>1, BoundsAssumption DEF Fresh, RequestsLeft
<1>5. QED
  BY <1>3, <1>4 DEF Fresh, IInv, LastRequestAtHand, ReadsAPage, RunsUntilDone, ResponseIsWhole

LEMMA InitHolds == Init => IInv
BY FreshHolds DEF Init, Fresh

LEMMA StepHolds == IInv /\ [Next]_vars => IInv'
<1> SUFFICES ASSUME IInv, [Next]_vars PROVE IInv'
  OBVIOUS
<1> USE DEF IInv, TypeOK
<1>0. AnswerAt(site, at) \in Answer BY AnswerAtType
<1>1. CASE Stop
  BY <1>1 DEF Stop, RequestsLeft, LastRequestAtHand, ReadsAPage, RunsUntilDone, ResponseIsWhole
<1>2. CASE GiveUp
  BY <1>2 DEF GiveUp, Return, Error, Result, RequestsLeft, LastRequestAtHand, ReadsAPage,
              RunsUntilDone, ResponseIsWhole
<1>3. CASE Send
  <2>1. /\ via' \in Seq(URL)
        /\ Len(via') = Len(via) + 1
        /\ DOMAIN via' = 1..(Len(via) + 1)
        /\ via'[Len(via) + 1] = at
        /\ \A k \in DOMAIN via : via'[k] = via[k]
        /\ via' # <<>>
    BY <1>3, Appended DEF Send
  <2>2. TypeOK' BY <1>3, <2>1 DEF Send
  <2>3. RequestsLeft'
    <3>1. Len(via') <= MaxRedirects
      BY <1>3, <2>1, BoundsAssumption DEF Send, RequestsLeft
    <3>2. \A k \in DOMAIN via' : IsHTTPS(via'[k])
      BY <1>3, <2>1 DEF Send, RequestsLeft
    <3>3. QED BY <1>3, <3>1, <3>2 DEF Send, RequestsLeft
  <2>4. LastRequestAtHand' BY <1>3, <2>1 DEF Send, LastRequestAtHand
  <2>5. (ReadsAPage /\ RunsUntilDone /\ ResponseIsWhole)'
    BY <1>3 DEF Send, ReadsAPage, RunsUntilDone, ResponseIsWhole
  <2>6. QED BY <2>2, <2>3, <2>4, <2>5
<1>4. CASE ConnectionFails
  BY <1>4 DEF ConnectionFails, Return, Error, Result, RequestsLeft, LastRequestAtHand,
              ReadsAPage, RunsUntilDone, ResponseIsWhole
<1>5. CASE Redirected
  <2>1. AnswerAt(site, at).to \in URL BY <1>0, <1>5 DEF Redirected, Answer
  <2>2. TypeOK' BY <1>5, <2>1 DEF Redirected, Return, Error, Result
  <2>3. RequestsLeft' BY <1>5 DEF Redirected, Return, CheckRedirect, RequestsLeft
  <2>4. (LastRequestAtHand /\ ReadsAPage /\ RunsUntilDone /\ ResponseIsWhole)'
    BY <1>5 DEF Redirected, Return, Error, LastRequestAtHand, ReadsAPage, RunsUntilDone,
                ResponseIsWhole
  <2>5. QED BY <2>2, <2>3, <2>4
<1>6. CASE HeaderArrives
  <2>1. ReadsAPage'
    BY <1>0, <1>6 DEF HeaderArrives, ReadsAPage, Answer
  <2>2. QED
    BY <1>6, <2>1 DEF HeaderArrives, RequestsLeft, LastRequestAtHand, RunsUntilDone,
                      ResponseIsWhole
<1>7. CASE BodyArrives
  <2>1. pc = "read" /\ AnswerAt(site, at).kind = "page" BY <1>7 DEF BodyArrives, ReadsAPage
  <2>2. AnswerAt(site, at).size \in Nat BY <1>0, <2>1 DEF Answer
  <2>3. TypeOK' BY <1>7, BoundsAssumption DEF BodyArrives, ReadLimit
  <2>4. ReadsAPage' BY <1>7, <2>1, <2>2 DEF BodyArrives, ReadsAPage
  <2>5. QED
    BY <1>7, <2>3, <2>4 DEF BodyArrives, RequestsLeft, LastRequestAtHand, RunsUntilDone,
                            ResponseIsWhole
<1>8. CASE ReadEnds
  <2>1. /\ pc = "read" /\ AnswerAt(site, at).kind = "page"
        /\ body <= AnswerAt(site, at).size
    BY <1>8 DEF ReadEnds, ReadsAPage
  <2>2. AnswerAt(site, at).size \in Nat /\ AnswerAt(site, at).whole \in BOOLEAN
    BY <1>0, <2>1 DEF Answer
  <2>3. CASE result' = Error
    BY <1>8, <2>3 DEF ReadEnds, Return, Error, Result, RequestsLeft, LastRequestAtHand,
                      ReadsAPage, RunsUntilDone, ResponseIsWhole
  <2>4. CASE result' = [status |-> "response", url |-> at, size |-> body]
             /\ body <= MaxBody /\ AnswerAt(site, at).whole
    <3>1. body = AnswerAt(site, at).size
      BY <1>8, <2>4, BoundsAssumption DEF ReadEnds, ReadLimit
    <3>2. ResponseIsWhole'
      BY <1>8, <2>1, <2>4, <3>1 DEF ReadEnds, LastRequestAtHand, ResponseIsWhole
    <3>3. TypeOK'
      BY <1>8, <2>2, <2>4, <3>1 DEF ReadEnds, Return, Result
    <3>4. QED
      BY <1>8, <3>2, <3>3 DEF ReadEnds, Return, RequestsLeft, LastRequestAtHand, ReadsAPage,
                              RunsUntilDone
  <2>5. QED
    <3>1. body <= MaxBody => body < ReadLimit BY BoundsAssumption DEF ReadLimit
    <3>2. CASE body > MaxBody \/ (body < ReadLimit /\ ~AnswerAt(site, at).whole)
      BY <1>8, <2>3, <3>2 DEF ReadEnds, Return
    <3>3. CASE ~(body > MaxBody \/ (body < ReadLimit /\ ~AnswerAt(site, at).whole))
      <4>1. body <= MaxBody BY <3>3, BoundsAssumption DEF ReadLimit
      <4>2. AnswerAt(site, at).whole BY <2>2, <3>1, <3>3, <4>1
      <4>3. QED BY <1>8, <2>4, <3>3, <4>1, <4>2 DEF ReadEnds, Return
    <3>4. QED BY <3>2, <3>3
<1>9. CASE UNCHANGED vars
  BY <1>9 DEF vars, RequestsLeft, LastRequestAtHand, ReadsAPage, RunsUntilDone, ResponseIsWhole
<1>10. QED
  BY <1>1, <1>2, <1>3, <1>4, <1>5, <1>6, <1>7, <1>8, <1>9 DEF Next, ClientStep, NetworkStep

(* The strengthening is an invariant of every Fetch.                       *)
THEOREM FetchInvariance == Spec => []IInv
BY InitHolds, StepHolds, PTL DEF Spec

(* Every variable of a Fetch stays in its set (fetcher.go:90).             *)
THEOREM FetchTypeCorrect == Spec => []TypeOK
<1>1. IInv => TypeOK BY DEF IInv
<1>2. QED BY <1>1, FetchInvariance, PTL

(* However a site redirects, at most MaxRedirects requests are sent and     *)
(* each is https (fetcher.go:76-86).                                       *)
THEOREM FetchIsBounded == Spec => []RequestsAreBounded
<1>1. IInv => RequestsAreBounded BY DEF IInv, RequestsLeft, RequestsAreBounded
<1>2. QED BY <1>1, FetchInvariance, PTL

(* A response holds the whole body of the address it names, whatever the   *)
(* limit and wherever the connection breaks (fetcher.go:108-118).          *)
THEOREM ResponsesAreWhole == Spec => []ResponseIsWhole
<1>1. IInv => ResponseIsWhole BY DEF IInv
<1>2. QED BY <1>1, FetchInvariance, PTL

-----------------------------------------------------------------------------
(* The redirects from an address, one by one: ChainEnd is where they are    *)
(* after MaxRedirects - 1.                                                 *)
After(s, u) == IF Followed(s, u) THEN AnswerAt(s, u).to ELSE u

Hops(s, u) ==
  LET hop[n \in Nat] ==
        IF n = 0 THEN u
        ELSE IF Followed(s, hop[n - 1]) THEN AnswerAt(s, hop[n - 1]).to ELSE hop[n - 1]
  IN  hop

LEMMA HopsDef ==
  ASSUME NEW s, IsSite(s), NEW u \in URL
  PROVE  /\ Hops(s, u)[0] = u
         /\ \A n \in Nat : Hops(s, u)[n] \in URL /\ Hops(s, u)[n + 1] = After(s, Hops(s, u)[n])
         /\ ChainEnd(s, u) = Hops(s, u)[MaxRedirects - 1]
<1> DEFINE step == [x \in URL \X Nat |-> After(s, x[1])]
           Equation(h) == h = [n \in Nat |-> IF n = 0 THEN u ELSE After(s, h[n - 1])]
<1>1. ASSUME NEW v \in URL, NEW k \in Nat PROVE step[<<v, k>>] = After(s, v) /\ After(s, v) \in URL
  <2>1. AnswerAt(s, v).kind = "redirect" => AnswerAt(s, v).to \in URL
    BY AnswerAtType DEF Answer
  <2>2. After(s, v) \in URL BY <2>1 DEF After, Followed
  <2>3. QED BY <2>2
<1> HIDE DEF step
<1>2. StaysInNat(step, URL) BY <1>1 DEF StaysInNat
<1>3. PICK f \in [Nat -> URL] : f[0] = u /\ \A k \in Nat : f[k + 1] = step[<<f[k], k + 1>>]
  BY <1>2, RecursionOnNaturals
<1>4. Equation(f)
  <2>1. \A n \in Nat : f[n] = IF n = 0 THEN u ELSE After(s, f[n - 1])
    <3> TAKE n \in Nat
    <3>1. CASE n = 0 BY <1>3, <3>1
    <3>2. CASE n # 0
      <4>1. n - 1 \in Nat /\ (n - 1) + 1 = n /\ f[n - 1] \in URL BY <3>2
      <4>2. f[n] = step[<<f[n - 1], n>>] BY <1>3, <4>1
      <4>3. QED BY <1>1, <3>2, <4>1, <4>2
    <3>3. QED BY <3>1, <3>2
  <2>2. QED BY <2>1
<1> DEFINE h == Hops(s, u)
<1>5. h = CHOOSE g : Equation(g) BY DEF Hops, After
<1>6. Equation(h) BY <1>4, <1>5
<1>7. ChainEnd(s, u) = h[MaxRedirects - 1] BY DEF ChainEnd, Hops
<1> HIDE DEF h
<1>8. h[0] = u BY <1>6
<1>9. ASSUME NEW n \in Nat PROVE h[n + 1] = After(s, h[n])
  <2>1. n + 1 \in Nat /\ n + 1 # 0 /\ (n + 1) - 1 = n OBVIOUS
  <2>2. QED BY <1>6, <2>1
<1> DEFINE T == {n \in Nat : h[n] \in URL}
<1>10. 0 \in T BY <1>8
<1>11. ASSUME NEW n \in Nat, n \in T PROVE n + 1 \in T
  <2>1. h[n + 1] = After(s, h[n]) /\ h[n] \in URL BY <1>9, <1>11
  <2>2. h[n + 1] \in URL BY <1>1, <2>1
  <2>3. QED BY <2>2
<1> HIDE DEF T
<1>12. \A n \in Nat : n \in T BY <1>10, <1>11, Induction
<1>13. QED BY <1>7, <1>8, <1>9, <1>12 DEF T, h

(* A set that redirects do not leave holds the end of the chain. *)
LEMMA ChainStays ==
  ASSUME NEW s, IsSite(s), NEW S, S \subseteq URL, NEW u \in S, \A v \in S : After(s, v) \in S
  PROVE  ChainEnd(s, u) \in S
<1> DEFINE T == {n \in Nat : Hops(s, u)[n] \in S}
<1>1. 0 \in T BY HopsDef
<1>2. \A n \in Nat : n \in T => n + 1 \in T BY HopsDef
<1> HIDE DEF T
<1>3. \A n \in Nat : n \in T BY <1>1, <1>2, Induction
<1>4. MaxRedirects - 1 \in Nat BY BoundsAssumption
<1>5. QED BY <1>3, <1>4, HopsDef DEF T

(* Where a redirect is not followed the chain stays. *)
LEMMA HopsStay ==
  ASSUME NEW s, IsSite(s), NEW u \in URL, NEW m \in Nat, ~Followed(s, Hops(s, u)[m])
  PROVE  \A n \in Nat : n >= m => Hops(s, u)[n] = Hops(s, u)[m]
<1> DEFINE T == {n \in Nat : n >= m => Hops(s, u)[n] = Hops(s, u)[m]}
<1>1. 0 \in T OBVIOUS
<1>2. ASSUME NEW n \in Nat, n >= m => Hops(s, u)[n] = Hops(s, u)[m], n + 1 >= m
      PROVE  Hops(s, u)[n + 1] = Hops(s, u)[m]
  <2>1. CASE n + 1 = m BY <2>1
  <2>2. CASE n >= m BY <1>2, <2>2, HopsDef DEF After
  <2>3. QED BY <1>2, <2>1, <2>2
<1> HIDE DEF T
<1>3. \A n \in Nat : n \in T => n + 1 \in T BY <1>2 DEF T
<1>4. 0 \in T BY <1>1
<1>5. \A n \in Nat : n \in T BY <1>3, <1>4, Induction
<1>6. QED BY <1>5 DEF T

(* The address at hand is on the chain, one redirect further with each      *)
(* request.                                                                *)
OnTheChain ==
  /\ pc = "send" => at = Hops(site, start)[Len(via)]
  /\ pc \in {"wait", "read"} => Len(via) >= 1 /\ at = Hops(site, start)[Len(via) - 1]

(* Where no redirect is followed, or no request is left for it, is the end. *)
LEMMA EndOfTheChain ==
  ASSUME IInv, OnTheChain, pc \in {"wait", "read"},
         ~Followed(site, at) \/ Len(via) >= MaxRedirects
  PROVE  ChainEnd(site, start) = at
<1>1. start \in URL /\ IsSite(site) BY StartsAssumption DEF IInv, TypeOK
<1>2. /\ via \in Seq(URL) /\ Len(via) \in Nat /\ Len(via) >= 1 /\ Len(via) <= MaxRedirects
      /\ at = Hops(site, start)[Len(via) - 1]
  BY DEF IInv, TypeOK, RequestsLeft, OnTheChain
<1> DEFINE m == Len(via) - 1
<1>3. m \in Nat /\ m <= MaxRedirects - 1 /\ MaxRedirects - 1 \in Nat
  BY <1>2, BoundsAssumption
<1>4. ChainEnd(site, start) = Hops(site, start)[MaxRedirects - 1] BY <1>1, HopsDef
<1>5. CASE Len(via) >= MaxRedirects
  <2>1. m = MaxRedirects - 1 BY <1>2, <1>5, BoundsAssumption
  <2>2. QED BY <1>2, <1>4, <2>1
<1>6. CASE ~Followed(site, at)
  <2> HIDE DEF m
  <2>1. Hops(site, start)[MaxRedirects - 1] = Hops(site, start)[m]
    <3>1. ~Followed(site, Hops(site, start)[m]) BY <1>2, <1>6 DEF m
    <3>2. QED BY <1>1, <1>3, <3>1, HopsStay
  <2>2. QED BY <1>2, <1>4, <2>1 DEF m
<1>7. QED BY <1>5, <1>6

LEMMA FreshOnTheChain == Fresh => OnTheChain
<1> SUFFICES ASSUME Fresh PROVE OnTheChain OBVIOUS
<1>1. start \in URL /\ IsSite(site) /\ pc = "send" /\ at = start /\ Len(via) = 0
  BY StartsAssumption, SitesAssumption DEF Fresh
<1>2. QED BY <1>1, HopsDef DEF OnTheChain

LEMMA InitOnTheChain == Init => OnTheChain
BY FreshOnTheChain DEF Init, Fresh

LEMMA StepOnTheChain == IInv /\ OnTheChain /\ [Next]_vars => OnTheChain'
<1> SUFFICES ASSUME IInv, OnTheChain, [Next]_vars PROVE OnTheChain'
  OBVIOUS
<1>1. /\ start \in URL /\ IsSite(site) /\ via \in Seq(URL) /\ Len(via) \in Nat /\ at \in URL
  BY StartsAssumption DEF IInv, TypeOK
<1>2. CASE Send
  <2>1. Len(via') = Len(via) + 1 BY <1>1, <1>2, Appended DEF Send
  <2>2. pc = "send" /\ pc' = "wait" /\ UNCHANGED <<start, site, at>> BY <1>2 DEF Send
  <2>3. Len(via') >= 1 /\ Len(via') - 1 = Len(via) BY <1>1, <2>1
  <2>4. QED BY <2>2, <2>3 DEF OnTheChain
<1>3. CASE Redirected
  <2>1. /\ pc = "wait" /\ UNCHANGED <<start, site, via>>
        /\ \/ pc' = "send" /\ at' = AnswerAt(site, at).to /\ IsHTTPS(AnswerAt(site, at).to)
           \/ pc' = "done"
        /\ AnswerAt(site, at).kind = "redirect"
    BY <1>3 DEF Redirected, CheckRedirect, Return
  <2>2. ASSUME pc' = "send" PROVE at' = Hops(site, start)[Len(via)]
    <3>1. Len(via) - 1 \in Nat /\ (Len(via) - 1) + 1 = Len(via) /\ at = Hops(site, start)[Len(via) - 1]
      BY <1>1, <2>1 DEF OnTheChain
    <3>2. at' = After(site, at) BY <2>1, <2>2 DEF After, Followed
    <3>3. Hops(site, start)[Len(via)] = After(site, Hops(site, start)[Len(via) - 1])
      BY <1>1, <3>1, HopsDef
    <3>4. QED BY <3>1, <3>2, <3>3
  <2>3. QED BY <2>1, <2>2 DEF OnTheChain
<1>4. CASE HeaderArrives BY <1>4 DEF HeaderArrives, OnTheChain
<1>5. CASE BodyArrives BY <1>5 DEF BodyArrives, OnTheChain
<1>6. CASE GiveUp \/ ConnectionFails \/ ReadEnds
  <2>1. pc' = "done" BY <1>6 DEF GiveUp, ConnectionFails, ReadEnds, Return
  <2>2. QED BY <2>1 DEF OnTheChain
<1>7. CASE Stop BY <1>7 DEF Stop, OnTheChain
<1>8. CASE UNCHANGED vars BY <1>8 DEF vars, OnTheChain
<1>9. QED BY <1>2, <1>3, <1>4, <1>5, <1>6, <1>7, <1>8 DEF Next, ClientStep, NetworkStep

-----------------------------------------------------------------------------
(* Each step of a Fetch is one of its promise or does not show in it.      *)
LEMMA InitPromised == Init => Promise!Init
BY DEF Init, Promise!Init

(* The promise and the Fetch read the same sites.                           *)
LEMMA PromisedSites ==
  /\ Promise!ChainEnd(site, start) = ChainEnd(site, start)
  /\ Promise!AnswerAt(site, ChainEnd(site, start)) = AnswerAt(site, ChainEnd(site, start))
  /\ Promise!Obtainable(site, start) = Obtainable(site, start)
<1>1. Promise!ChainEnd(site, start) = ChainEnd(site, start)
  BY DEF Promise!ChainEnd, ChainEnd, Promise!Followed, Followed, Promise!AnswerAt, AnswerAt,
         Promise!IsHTTPS, IsHTTPS
<1>2. Promise!AnswerAt(site, ChainEnd(site, start)) = AnswerAt(site, ChainEnd(site, start))
  BY DEF Promise!AnswerAt, AnswerAt
<1>3. Promise!Obtainable(site, start) = Obtainable(site, start)
  BY <1>1, <1>2 DEF Promise!Obtainable, Obtainable
<1>4. QED BY <1>1, <1>2, <1>3

LEMMA FailureIsPromised ==
  ASSUME pc # "done", IInv, result' = Error, UNCHANGED <<start, site, stopped>>,
         stopped \/ ~Obtainable(site, start)
  PROVE  Promise!Conclude
<1>1. result.status = "running" BY DEF IInv, RunsUntilDone
<1>2. Error = Promise!Error BY DEF Error, Promise!Error
<1>3. QED BY <1>1, <1>2, PromisedSites DEF Promise!Conclude

LEMMA StepPromised ==
  IInv /\ OnTheChain /\ [Next]_vars => [Promise!Next]_(Promise!vars)
<1> SUFFICES ASSUME IInv, OnTheChain, [Next]_vars PROVE [Promise!Next]_(Promise!vars)
  OBVIOUS
<1>1. result.status = "running" \/ pc = "done" BY DEF IInv, RunsUntilDone
<1>2. CASE Stop
  <2>1. Promise!Stop BY <1>1, <1>2 DEF Stop, Promise!Stop
  <2>2. QED BY <2>1 DEF Promise!Next
<1>3. CASE GiveUp
  <2>1. Promise!Conclude BY <1>3, FailureIsPromised DEF GiveUp, Return
  <2>2. QED BY <2>1 DEF Promise!Next
<1>4. CASE Send \/ HeaderArrives \/ BodyArrives
  <2>1. UNCHANGED <<start, site, stopped, result>> BY <1>4 DEF Send, HeaderArrives, BodyArrives
  <2>2. QED BY <2>1 DEF Promise!vars
<1>5. CASE ConnectionFails
  <2>1. ChainEnd(site, start) = at BY <1>5, EndOfTheChain DEF ConnectionFails, Followed
  <2>2. ~Obtainable(site, start) BY <1>5, <2>1 DEF ConnectionFails, Obtainable
  <2>3. Promise!Conclude BY <1>5, <2>2, FailureIsPromised DEF ConnectionFails, Return
  <2>4. QED BY <2>3 DEF Promise!Next
<1>6. CASE Redirected
  <2>1. CASE CheckRedirect(AnswerAt(site, at).to, via)
    <3>1. UNCHANGED <<start, site, stopped, result>> BY <1>6, <2>1 DEF Redirected
    <3>2. QED BY <3>1 DEF Promise!vars
  <2>2. CASE ~CheckRedirect(AnswerAt(site, at).to, via)
    <3>1. /\ pc = "wait" /\ AnswerAt(site, at).kind = "redirect" /\ result' = Error
          /\ UNCHANGED <<start, site, stopped>>
      BY <1>6, <2>2 DEF Redirected, Return
    <3>2. ~Followed(site, at) \/ Len(via) >= MaxRedirects
      BY <2>2, BoundsAssumption DEF CheckRedirect, Followed, IInv, TypeOK
    <3>3. ChainEnd(site, start) = at BY <3>1, <3>2, EndOfTheChain
    <3>4. ~Obtainable(site, start) BY <3>1, <3>3 DEF Obtainable
    <3>5. Promise!Conclude BY <3>1, <3>4, FailureIsPromised
    <3>6. QED BY <3>5 DEF Promise!Next
  <2>3. QED BY <2>1, <2>2
<1>7. CASE ReadEnds
  <2>1. pc = "read" /\ UNCHANGED <<start, site, stopped>> BY <1>7 DEF ReadEnds
  <2>2. /\ AnswerAt(site, at).kind = "page" /\ body <= AnswerAt(site, at).size
        /\ AnswerAt(site, at).size \in Nat /\ AnswerAt(site, at).whole \in BOOLEAN
        /\ body \in Nat /\ MaxBody \in Nat /\ ReadLimit = MaxBody + 1
    <3>1. AnswerAt(site, at) \in Answer BY AnswerAtType DEF IInv, TypeOK
    <3>2. QED BY <2>1, <3>1, BoundsAssumption DEF IInv, TypeOK, ReadsAPage, Answer, ReadLimit
  <2>3. ChainEnd(site, start) = at BY <2>1, <2>2, EndOfTheChain DEF Followed
  <2>4. CASE body > MaxBody \/ (body < ReadLimit /\ ~AnswerAt(site, at).whole)
    <3>1. ~Obtainable(site, start) BY <2>2, <2>3, <2>4 DEF Obtainable
    <3>2. result' = Error BY <1>7, <2>4 DEF ReadEnds, Return
    <3>3. Promise!Conclude BY <2>1, <3>1, <3>2, FailureIsPromised
    <3>4. QED BY <3>3 DEF Promise!Next
  <2>5. CASE ~(body > MaxBody \/ (body < ReadLimit /\ ~AnswerAt(site, at).whole))
    <3>1. result' = [status |-> "response", url |-> at, size |-> body]
      BY <1>7, <2>5 DEF ReadEnds, Return
    <3>2. body < ReadLimit /\ AnswerAt(site, at).whole BY <2>2, <2>5
    <3>3. body = AnswerAt(site, at).size BY <1>7, <2>2, <3>2 DEF ReadEnds
    <3>4. Obtainable(site, start) BY <2>2, <2>3, <2>5, <3>2, <3>3 DEF Obtainable
    <3>5. result' = Promise!Page BY <2>3, <3>1, <3>3, PromisedSites DEF Promise!Page
    <3>6. Promise!Conclude BY <1>1, <2>1, <3>4, <3>5, PromisedSites DEF Promise!Conclude
    <3>7. QED BY <3>6 DEF Promise!Next
  <2>6. QED BY <2>4, <2>5
<1>8. CASE UNCHANGED vars BY <1>8 DEF vars, Promise!vars
<1>9. QED
  BY <1>2, <1>3, <1>4, <1>5, <1>6, <1>7, <1>8 DEF Next, ClientStep, NetworkStep

(* A Fetch ends, if it ends, with the page its redirects lead to, whole, or *)
(* with an error that this page or the time accounts for (fetcher.go:90):   *)
(* ImplementsPromise, but for its fairness.                                *)
THEOREM FetchKeepsPromise == Spec => Promise!Safety
<1>1. Spec => []OnTheChain BY InitOnTheChain, StepOnTheChain, FetchInvariance, PTL DEF Spec
<1>2. QED BY <1>1, InitPromised, StepPromised, FetchInvariance, PTL DEF Spec, Promise!Safety
=============================================================================
