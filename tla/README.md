# A verification of ai-catalog-go

TLA+ models of the Go SDK for AI Catalogs, checked with TLC on small instances
and, where TLAPS reaches, proved for every instance. Paths are relative to the
repository; `discovery.go:210` is a line of `discovery/discovery.go`.

## The system

The SDK is a library: every operation is one call, and what is hard in it is
what the world does during the call. Nothing is persisted, and no state is
shared between calls except the immutable bytes of a provider.

| Component | State of one call or object | Operations | Interacts with |
|---|---|---|---|
| `discovery` (discovery.go) | `requested`, `attempts`, the candidates | `Discover` | the caller's context, a `Fetcher` |
| `discovery` default fetcher (fetcher.go) | the redirect chain, the body read so far | `Fetch` | `net/http`, a timeout |
| `discovery` link parsers (link.go, html.go) | a cursor over a string, a tokenizer | `parseLinkHeader`, `findHTMLLinks` | called on the first response |
| `validate.Validate` | errors, warnings, nesting depth | the walk over a document | reads the clock once |
| `validate.Verify` | the clock it read, the outcomes so far | signature, release, artifact checks | calls `Validate`, a `Fetcher`, `trust` |
| `validate` DID documents (did.go) | none | `selectKey` | called by `Verify` |
| `catalog` | the parsed document, the source bytes of manifests | parsing, filters, `GetLatest` | used by all |
| `provider` | the bytes of one document | `JSON`, `Web`, `Load`, `Raw` | a `Fetcher`, a file |
| `trust` | none | digests, JCS, ES256 | called by `Verify` |
| `internal/identity`, `internal/jws` | none | DIDs and URNs, protected headers | called by `validate` |

What is hard, and what correctness means:

* **Discover.** The context can be done at any moment: between the check and
  the request it guards (`discovery.go:210-221`), or during a request. The
  order of the candidates depends on where a redirect led and on what failed.
  The answer must be the first catalog in the documented order; "not found"
  must mean that every place was tried; nothing but https may be requested,
  nothing twice, and after a cancellation at most the request already decided
  on.
* **The default fetcher.** Redirect loops, a body at the limit, connections
  that break off or never answer. A response is a whole page; everything else
  is an error, in bounded time and requests.
* **Validate.** A recursive walk with a depth limit, and a one-pass uniqueness
  check over three maps. The verdict must not depend on the order of entries,
  and must cover every level.
* **Verify.** Keys rotate and servers fail between the fetches of one call,
  the clock moves, and several parties sign one entry. `Trusted` must be
  earned; an outage must not look like a forgery, nor an assessor's failure
  like the publisher's; and `Validate` and `Verify`, which state the same rules
  twice, must agree.
* **Link parsers.** Marks that separate links may stand inside their targets
  and values, and any text may arrive. The links found are those written, and
  reading ends.
* **Providers and manifests.** Many callers share one source and change what
  they were given; a manifest remembers bytes that may no longer describe it.
  Callers must not see each other, and a signature must be judged by what the
  manifest says now, and by what was published while nobody changed it.
* **Lookups.** The latest entry is found in one pass over versions and times;
  it must be a greatest one, whatever the order of the entries.

PROJECT.json lists the hazards one by one, each with the properties that cover
it or the reason none does.

## The modules

| Module | What it models |
|---|---|
| `WebURL` | a URL as scheme, host, path, fragment; resolution of references; `requestKey`, `sameOrigin` |
| `Website` | what a `Fetcher` may answer: pages, responses, `asCatalog`, the base of an HTML head |
| `Discovery` | one call of `Discover`, one action per step another goroutine can come between |
| `DiscoveryProcedure` | what `Discover` promises, in one step |
| `DiscoverOverHTTP` | `Discovery` with each of its requests a run of `HTTPFetch` |
| `LinkSyntax` | Link header fields: how they are written and what they mean |
| `PageLinks` | the parsers of Link headers and HTML heads, round by round |
| `DiscoveryProofs` | theorems about `Discovery`: what is requested, its answer and its report |
| `PageLinksProofs` | theorems about `PageLinks`, and where the parts of a field are |
| `HTTPServers` | what the servers of one fetch may answer, where redirects lead, and the two limits |
| `HTTPFetch` | one `Fetch` of the default client: requests, redirects, the body, timeout |
| `FetchPromise` | what that `Fetch` promises, in one step |
| `HTTPFetchProofs` | theorems about `HTTPFetch` |
| `CatalogQueries` | `GetByIDAndVersion`, `Versions`, `GetLatest` |
| `Validate` | the walk of `Validate` over nested catalogs, with the rules on single members |
| `SignedCatalog` | the signed parts of a document, and the diagnostics of `Validate` on them |
| `DIDDocument` | `selectKey` over DID documents |
| `Verify` | one call of `Verify` |
| `TrustManifest` | a manifest as JSON and as a Go value: decoding, encoding, the signing payload |
| `CatalogSource` | a source of `provider`, and the callers that load, change, sign and publish |
| `DiscoverOverHTTPProofs`, `ValidateProofs`, `VerifyProofs`, `CatalogSourceProofs` | theorems about the modules they are named for |
| `RecursionLemmas` | induction and recursion over the natural numbers, for the proofs |
| `MCDiscovery`, `MCHTTPFetch`, `MCDiscoverOverHTTP`, `MCPageLinks`, `MCValidate`, `MCVerify`, `MCCatalogSource` | the instances TLC checks |

`Discovery` sees a fetcher as a function from addresses to responses;
`HTTPFetch` is the default fetcher, and `FetchPromise` says what it comes to:
the page at the end of the redirects, or an error. `DiscoverOverHTTP` composes
the two, with the steps of both taken from their modules. `PageLinks` produces
what a page of `Website` has as its references, in the order `Discovery` tries
them. `Validate` and `CatalogQueries` share their entries, since the uniqueness
one checks is what the lookups of the other need. `Verify` builds on
`SignedCatalog`, whose seals stand for the payloads `TrustManifest` computes.

Definitions named `Mutant...` are plausible mistakes in the definition after
them. They take no part in the specifications; each shows that a property
notices when the code is wrong.

### Discovery

`pc` is where the call stands: `parse` (parseInput), `try` (the head of `try`
and the scheme test of the loop before it), `fetch` (the address is marked,
the request not yet made), `wait` (the request is out), `done`. `i` is 0 for
the direct attempt and otherwise the position in `candidates`, which the
direct attempt determines and nothing changes after. `fetches` is history:
what the fetcher has seen, and whether the context was done by then.
`ctxDone` is set by `Cancel`, which is enabled at any time before the call
returns.

A web is a fixed function of the address. That loses nothing: since no
address is requested twice by one call (`RequestedOnce`, proved), a fetcher
whose answers change cannot be told from one whose answers do not.

### HTTPFetch

`via` holds the requests so far, as `http.Client` hands them to
`CheckRedirect`; `body` counts what has been read. The timeout and the
caller's context are one variable, `stopped`, since `Fetch` treats them alike.
A site does not change during a fetch, so that the end of a redirect chain is
defined. The default transport is external; the model has of it what
`httpFetcher` relies on.

### DiscoverOverHTTP

A network is what the servers answer (`site`), what the pages say (`contents`),
and the addresses whose request will not be answered in time (`late`).
`BeginFetch` is that of `Discovery` and the fresh state of a client at once;
`Transfer` is a step of `HTTPFetch`; `EndFetch` hands the result over to `try`,
which decides as `FetchFails` and `FetchReturns` do. `stopped` of `HTTPFetch`
becomes `timedOut \/ ctxDone`: the timeout of this request, or the context of
the whole call.

`Discovery` knows a request that failed from the web alone, so the web of a
network must say beforehand which requests will: `late` is a prophecy. A
request that is late does not get its page, and one whose page is there and is
not late does not time out; between them these are all the outcomes there are.

### PageLinks

A text is a sequence of the marks the parser looks for and of words, with case
folded. `at` is where the rest of the field begins; each action is one round of
one of the loops: `link` (`parseLinkHeader`), `param` (`parseLinkParams`),
`quoted` (`parseLinkValue`), `head` (`findHTMLLinks`). A page keeps its fields
as they were written, element by element, and `LinkSyntax` says what those mean
without reading the text; the parser sees only the text. The HTML tokenizer is
external: a page has its tags in order, with attributes in order.

### CatalogSource

Bytes live in cells, so that a copy can be told from a slice that is shared:
one cell for the source, and for each caller one for the source bytes of its
manifest and one for the bytes it asked for. A document is the manifest of one
entry, as often as its member occurs in the text, with a size and an end for
the limit. Each caller takes a bounded number of steps (`Bounds`): `Load`,
`Raw`, and what a program may do with what it got: change fields, overwrite
bytes, decode more JSON into the manifest, sign it, publish it and parse it
back. `made` is history: what was decoded into the manifest, and whether it was
changed since.

A manifest has a member of each kind decoding and serializing treat apart:
required strings (`body`, and `meta` of the signature), optional strings
(`expiresAt`), pointers, slices and maps (`optional`), the two a signature does
not cover (`jws`, `additional`), and one the SDK does not model (`future`). In
JSON the members that are signed may be absent or null, and the strings empty.

### Validate

The stack holds the calls of `validateCatalog` under way, each with the
position of its loop and its `depth` argument. A document is a sequence of
catalogs in which data refers to earlier ones only, as bytes can nest only
smaller bytes. A member is what its rule can tell apart: a version a sequence of
numbers, a timestamp an instant or none, an extension key a kind of key. The
rules on manifests and signatures are the Boolean `trust`, and diagnostics are
a set, of code and place. Where a version ranks is the constant `Precedence`;
two spellings may rank alike.

### Verify

A signature carries `seal`, the key that made it over the bytes as served:
JCS and ECDSA are ideal, so that a signature verifies under that key alone.
Digests are names of contents. Each fetch returns, by choice, any document of
a set or nothing; that covers rotation, outages and a context that is done,
which reaches `Verify` only as fetches that fail. `clock` advances at any time;
`validatedAt` and `now` are its two readings. `evidence` is history: what each
fetch returned, and for which check.

## What is checked

Runs that pass:

| Run | Bounds | Shows |
|---|---|---|
| `discovery_call` | 2 hosts, 4 inputs, 49 first responses, 19 combinations of what the other addresses answer; about 75,000 states | https only, nothing twice, at most one request after the cancellation, every candidate and every failure accounted for; `DiscoveryProcedure` implemented, and every call returns |
| `http_fetch` | 3 https addresses and one http address in every arrangement of redirects, bodies of 0 to limit + 2, `MaxRedirects` 2, `MaxBody` 2; about 10,000 states | bounded https requests, whole pages, and `FetchPromise` implemented |
| `discover_over_http` | 2 hosts, 6 addresses, 80 arrangements of answers, 4 of contents, 3 of lateness; about 117,000 states | the catalog found was served whole over https at the address reported; `Discovery` implemented, liveness included |
| `link_parsers` | links of 0 to 2 of 13 parameters between links and junk; any 3 marks alone, after a link and inside a quote; heads of any 3 of 12 tags; about 154,000 states | the links found are those written, and those of the head; reading ends on any text |
| `validate_walk` | 3 entries of 2 identifiers and 3 versions, and of 5 versions and 3 times, in every order; each rule on a member; 4 catalogs in each other in every way; nesting limits 0 to 2; about 104,000 states | a document is valid exactly when each part is; diagnostics name the faulty places and no others; no entry is hidden from `GetByIDAndVersion`; `GetLatest` returns a greatest entry |
| `catalog_source` | one caller with 4 steps and one with 1; 17 texts whole, and documents of 1 to 3 bytes around a limit of 2, complete or broken off; about 1,163,000 states | the source keeps what was served, callers do not see each other, source bytes and payload are those of the manifest as it is, and what was signed is what is verified, where serializing gives it back |
| `verify_safety` | 2 DIDs, 2 keys, 2 digests, clock 0 to 2, documents that depart from a good one in one or two respects, 8 DID documents; about 72,000 states | `Trusted` is earned and has no publisher failure, assessors are neutral, outages are unverifiable, `Validate` reports what `Verify` refuses |

Why these bounds are enough to be of use. Two hosts: the code compares a
host only with that of the input and of the response. Three addresses with
`MaxRedirects` 2: chains shorter than the limit, as long, and longer, and loops
of every length. Three entries: a clash is between two, and a third comes
before, between or after. Four catalogs with limits to 2: nesting below, at
and beyond the limit. Four steps of a caller: load, change, sign, publish; the
other's one step may come between any two. Three marks: enough to open, break
and close anything after each prefix. Horizon 2: a window that begins or ends before, at
and after a reading of the clock, with one reading before it.

Runs that find a disagreement between the code and its own words:

| Run | The words | The code |
|---|---|---|
| `discovery_wire` | "unless it was requested already" (discovery.go:206), "An empty path is a request for /" (:269) | a link to the bare origin requests `/` a second time: only the input's empty path is spelled out |
| `discovery_attempts` | "lists every URL that was tried" (README.md:71) | after a redirect it lists the address reached instead |
| `verify_clocks` | "MUST NOT be accepted yet" (signature.go:110) | a signature that becomes valid between the two readings of the clock is warned of and verified in one result |
| `verify_catalog_window` | "expired or not-yet-valid signatures are warnings" (README.md:152) | only those of manifests: a catalog signature outside its window draws no diagnostic from `Validate` |
| `validate_spec_version` | "major and minor components must be non-negative integers" (validate.go:408) | only the major component is tested; `1.-1` is valid |

All are small. None changes which catalogs are trusted: `Verify` judges a
catalog signature by its own reading of the clock.

### Fairness

* `Discovery`: weak fairness of the call's own steps, so that every request
  ends. For the default client that is what its timeout gives
  (`fetcher.go:75`) and what `http_fetch` checks; another `Fetcher` must have a
  limit of its own.
* `DiscoverOverHTTP`: weak fairness of the steps of the call, of its client and
  of the timeout, as one. A request that is answered is answered in time, which
  is what it means not to be late; every other request is ended by its timeout.
* `PageLinks`: weak fairness of the one thread there is.
* `HTTPFetch`: weak fairness of the client's steps and of the timeout, none of
  the network's. A server may stop answering at any point.
* `Validate`: weak fairness of the one thread there is.
* `CatalogSource`: none; it makes no promise of progress.
* `Verify`: weak fairness of the call's steps; `README.md:156` requires time
  limits of the fetcher. The clock need not advance.

`CHECK_DEADLOCK FALSE` is set throughout because a call that returned has no
next step; that it does return is the liveness property of each model
(for `HTTPFetch` and `DiscoverOverHTTP`, part of what they implement). Callers of
`CatalogSource` just stop.

### What the models show besides

These are limits of the code that its words allow; no property claims more.

* `provider` reads 10 MiB and no more (`provider.go:93`): of a longer document
  that is blank, or trash, beyond its end and the limit, the part that was read
  is kept. `SourceIsAsServed` therefore says "as served" up to the limit, and
  beyond it that the catalog is the same.
* Putting a signature into a decoded manifest makes its source bytes stale, and
  what only they held is signed and then lost or changed (`canonical.go:124`):
  members the SDK does not model; optional members decoded from `""` or `null`,
  which `omitempty` and `omitzero` leave out; required members that were absent
  or `null`, which are written as `""`. `GivenBack` names these cases and
  `SignatureSurvives` excludes them, and no others: without any one of its
  conditions TLC finds the signature broken.
* Of a field with an unclosed `<` or quote, the links after it are not seen:
  `LinksAsWritten` is about well-formed fields.
* Two spellings of one version are two releases to the uniqueness check and
  equal to `GetLatest`, which then goes by time.

## What is proved

Theorems hold for every value of the constants that their assumptions allow.
What is assumed is only what the code's inputs and the reading of the model
give:

* inputs, webs, sites, documents, DID documents and servings are well typed;
  addresses handed to `HTTPFetch` are https; limits and horizons are natural
  numbers, nesting limits integers;
* the addresses that `DiscoverOverHTTP` meets have no fragment
  (`FragmentsAssumption`): a restriction of that model, which `Discovery` does
  not have;
* a document of `Validate` nests smaller documents only, as bytes do;
* sentinels (`None`, `Absent`, `Null`, `Failed`, ...) differ from the values
  they stand beside, and from each other where both may occur;
* `SourceAssumption`, besides: JSON that is served, or decoded into a manifest
  by a caller, does not carry the signature that a caller of the model is going
  to make (`Foreign`). A signature is over one payload, and nobody has it before
  it is made.

Two ways of arguing recur. A safety property is seldom inductive: each
component has an invariant `IInv`, of named parts, that is. And what a recursive function computes is
proved by induction over the natural numbers. The library states induction
with an operator parameter, which the installed provers cannot instantiate;
`RecursionLemmas` states it with sets and functions instead, from the fact that
`<` on them is well founded: `Induction`, and that a recursive definition over
an interval or over all of them has one solution, which stays in the set its
step stays in (`RecursionExists`, `RecursionIsUnique`, `RecursionOnNaturals`).

### Discover: requests (`DiscoveryProofs`)

For every web and every set of inputs:

* `TypeCorrect`: `TypeOK`.
* `RequestsAreHTTPS`: `OnlyHTTPSRequested`.
* `RequestsAreDistinct`: `RequestedOnce`.
* `CancellationStops`: `CancelStopsRequests`.
* `SearchIsThorough`: `NotFoundIsThorough`.

`IInv` adds what the control flow keeps: the cursor is at or one past a
candidate (`CursorInBounds`); at `fetch` the address at hand is https, is
marked, and is not among the requests made (`AboutToFetch`); marked addresses
are those requested and the one about to be (`MarkedAreAsked`); every candidate
the cursor has passed was requested or refused (`PassedAreDealtWith`); a request
that began late is the last one and still in flight or the end of the call
(`LateOnlyInFlight`); and the outcome follows the control state
(`StatusFollowsControl`). Distinctness rests on `AboutToFetch` and
`MarkedAreAsked`; thoroughness on `PassedAreDealtWith` at the point where the
cursor has passed them all.

### Discover: the answer (`DiscoveryProofs`)

* `AnswersAsDescribed`: `Spec => Procedure!Safety`. Every step of a call is a
  step of `DiscoveryProcedure` or does not show in it: the answer is the first
  catalog in the documented order, "not found" comes only when no place holds
  one, and an error only after a cancellation. This is `ImplementsProcedure`
  but for its fairness.
* `AttemptsAreComplete`: `AttemptsAccountForRequests`.

`SearchInv`, on top of `IInv`: the candidates are the places of the procedure
in its order, with their methods (`PlacesAreKnown` and lemmas on the parts of
the list); nothing passed so far serves a catalog, neither a candidate nor an
address that is marked; and of the attempts the one with number k made the
request with the number of attempts that were tried up to k. The last part
counts by cardinality of sets of positions, which is why the property does.

### The default fetcher (`HTTPFetchProofs`)

For every site and every value of both limits:

* `FetchTypeCorrect`: `TypeOK`.
* `FetchIsBounded`: `RequestsAreBounded`.
* `ResponsesAreWhole`: `ResponseIsWhole`.
* `FetchKeepsPromise`: `Spec => Promise!Safety`, which is `ImplementsPromise`
  but for its fairness: the page the redirects lead to, or an error that this
  page or the time accounts for.

The invariant adds that before sending there is a request left
(`RequestsLeft`), that an answer is read from the address requested last
(`LastRequestAtHand`), and that a body is read from a page and not past its end
(`ReadsAPage`). With them a read that ended below the limit has read it all.
For the promise, `OnTheChain` says that the request after n others is for the
nth address of the redirect chain; `HopsDef` and `HopsStay` are the inductions
on what that chain is and that it stays where it ends.

### Discover over HTTP (`DiscoverOverHTTPProofs`)

For every network: any sites, redirects, contents and late addresses.

* `ComposedTypeCorrect`: `TypeOK`.
* `FoundWasServed`: `FoundIsServed`.
* `ClientDoesNotShow`: `Spec => Call!Spec`, which is `ImplementsDiscovery` but
  for its fairness.
* `ClientAnswersAsDescribed`: `Spec => C!Procedure!Safety`. With its default
  client, `Discover` answers as the package describes.

Nothing about a search or about a fetch is proved again here. The module
instantiates `DiscoveryProofs` as `C` and `HTTPFetchProofs` as `R`, shows
that the constants of a composition meet their assumptions (a web that comes of
a network is a web), and uses their invariants and step lemmas. What is added
is where the two meet: a request under way is a run that began afresh
(`OneRequest`), a timeout comes only where the web has no answer
(`TimeoutIsDue`), and a request that ended came to what the web says
(`EndsAsTheWeb`), which is what `R!StepPromised` gives. Since the call reads
the web at its current address, that address must be one of the network's:
`AskingIsAddress`, from the parts of the candidates.

### The link parsers (`PageLinksProofs`)

For every page: any number of fields, elements, parameters, escapes, tags and
attributes, and texts of any length.

* `LinksTypeCorrect`: `TypeOK`, which keeps the cursor within what is read.
* `EveryRoundAdvances`: `RoundsAdvance`, an action property stated there, on
  any text. With `TypeOK` it is the variant behind `Terminates`: part, field,
  place and loop go on in this order of precedence, and all are bounded.
* `HeadIsRead`: `HeadAsRead`.
* `LinksAreWritten`: `LinksAsWritten`, for well-formed fields.

`HeadSoFar` says of the tags read so far what `HeadAsRead` says of all.

`LinksAreWritten` is about a parser that sees a text and a meaning that sees
none, so its invariant ties places to elements. `Begin`, `Body`, `ParamAt`,
`ValueAt` and `EscapedTo` give, from the elements alone, the place where an
element begins, with and without its comma, where the parameters after the
first j are, the value of one of them, and what follows m characters of that
value, escaped; `ReadsIn` says that a text has another at a place. Each is the
length of a prefix of what `FlattenSeq` joins (`FlatTo`), which is a recursive
function: that a prefix grows by one part, and that each part is read where
the parts before it end (`ReadsPart`), are inductions, and all else about
places follows from them. `LinkInv` then has four cases:

* `link` (`LinkAt`): the cursor is where some element begins, and the targets
  found are those meant before it (`Before`);
* `param` (`ParamFrom`): the cursor is after j parameters of some link and
  perhaps blanks; the target is that link's and the parameters those j;
* `quoted` (`QuoteAt`): the cursor is after m characters of the quoted value of
  some parameter, and the text is those m characters;
* afterwards the targets are all that were meant.

That a step keeps it is where the syntax is used: the text of a name, token or
target holds none of the marks that end it, and the mark after it is there
(`TextRead`, `NameIsRead`, `ValueIsRead`, `TargetIsRead`); between links there
is no mark but commas (`LinkStartPlace`, `AfterParams`); a quote within a value
has a backslash before it (`EscapeAt`), so the first that has none is the end
(`QuoteNow`); and the first of the parameters named `rel` decides
(`SaidRelation`). TLC checked `LinkInv` on the instance of `link_parsers` before
it was proved.

### Validate (`ValidateProofs`)

For every document, however wide and deep, and every limit:

* `TypesHold`: `TypeOK`, which has the walk stay within its limit.
* `FaultsAreLocated`: `DiagnosticsLocateFaults`.
* `ValidThroughout`: `ValidMeansThroughout`.
* `EntriesAreFound`: `EveryEntryIsFound`.
* `LatestIsTheGreatest`: `LatestIsGreatest`.

`IInv` says that the calls under way are catalogs of the document at the depth
they were called with (`CallsAreCatalogs`); that what is reported is a fault
(`ReportedAreFaults`); and that a fault is reported unless the walk has yet to
come to it (`FaultsAreReported`, where `Due` says what is yet to come: a place
at or below the entry some call under way is at, or after it). When no call is
under way nothing is due, and reported places are the faulty ones. The levels
of a document are a recursive function; which catalogs are on them, and that
levels beyond the limit make a document invalid, are inductions. The code's
rules and those of the properties are stated apart and proved equal. One
entry per identifier and version then follows for valid documents, and with
it that the first match of `GetByIDAndVersion` is the only one.
`LatestIsGreatest` is an induction over the loop of `GetLatest`: what it holds
after k versions is the first greatest of these k, since "newer" is a strict
order in which what is not newer is older or equal (`OnePassFindsBest`).

### Verify (`VerifyProofs`)

For every set of documents and DID documents, every clock and every answer:

* `VerifyTypeCorrect`: `TypeOK`.
* `TrustIsEarned`: `TrustedIsEarned`.
* `TrustHasNoFailure`: `TrustedHasNoFailure`.
* `AssessorsNeutral`: `AssessorsAreNeutral`.
* `OutagesAreUnverifiable`: `UnreachableIsNotFailure`.
* `RefusalsReported`: `RefusalsAreReported`.
* `ProfileWarningsRefused`: `ProfileWarningsNotAccepted`.

`IInv` explains each outcome the call has come to so far by one answer that was
fetched for that check, or by none (`ManifestsExplained`, `EntriesExplained`,
`ArtifactsExplained`, `CatalogExplained`), places every fetch in a check that
was begun (`EvidencePlaced`), and gives the level as `Conclude` works it out
(`LevelFollows`). What is left is about operators: when `checkSignature` and
`checkArtifact` return what, and that the diagnostics of `Validate` cover what
they refuse without a fetch.

### Providers and manifests (`CatalogSourceProofs`)

For any number of callers, steps, texts and limits:

* `SourceTypeCorrect`: `TypeOK`.
* `SourceKeepsDocument`: `SourceIsAsServed`.
* `BytesAreTheSource`: `RawIsTheSource`.
* `SignatureIsJudgedByFields`: `PayloadIsCurrent`.
* `PublishedIsJudged`: `PayloadIsPublished`.
* `SignaturesSurvive`: `SignatureSurvives`, for payloads that are `GivenBack`.
* `CallersApart`: `CallersAreApart`, an action property.

`IInv` gives every caller cells of its own, and has its manifest, the bytes of
that manifest, what it was made from and what it signed agree (`Agree`): source
bytes are there only if one object was decoded and nothing overwritten, and
then every field is that of the object. A manifest is judged by its source
bytes or by what `Marshal` makes of its fields: `MarshalPayload` and
`BytesPayload` give both payloads, which are one where `GivenBack` holds.
Decoding a document whose member occurs several times is a recursive function
over the text; the lemmas on it are inductions.

## Only model-checked

* All liveness, and with it the fairness of the refinements: temporal reasoning
  about `WF_` needs `ENABLED`, which the prover does not have. The safety halves
  of `ImplementsProcedure`, `ImplementsPromise` and `ImplementsDiscovery` are
  proved, and the variant behind the end of the link parsers. Every other
  property of a passing run is a theorem.

## What is not modelled, and why

* The syntax of URLs, base64, JSON, JCS, ECDSA, RFC 3339 and mime types: library
  code, or data no property here looks into.
* References that do not parse as URLs: the code drops them.
* `WithHTTPClient`: the redirect policy is the caller's.
* The order and wording of diagnostics; in `SignedCatalog`, the rules on
  attestations, provenance, trust schema and substance, each a test of one member.
* Filters and searches over the entries of a catalog (`GetByTag`, `Search` and
  their like): each is one loop that tests one entry at a time.
* The tokenizer of HTML, and character sets.
* A `Fetcher` of the caller that changes the slice it returned to `Web`.
* Error results of `Verify` for bytes that are no catalog: it returns before any
  step that is modelled.
* `examples/`, `internal/fixture`, `internal/jwstest`: no logic of the library.

## Plan

Done: every component above, modelled, checked and proved as far as said, with the safety
halves of the three refinements. What could be added are variants, as that of
the link parsers, for `Discover`, `Validate` and `Verify`, and the members that
"What is not modelled" leaves to library code.
