------------------------------ MODULE Validate ------------------------------
(***************************************************************************)
(* One call of validate.Validate: the walk over a document and the         *)
(* catalogs nested in it, and what their readers find in them.  The rules  *)
(* on trust manifests and signatures are one Boolean of a catalog or       *)
(* entry, trust; SignedCatalog has them.  The order of the diagnostics is  *)
(* left out.                                                               *)
(***************************************************************************)
EXTENDS CatalogQueries

CONSTANTS
  Identifiers,   \* the identifiers an entry may have
  NotURIs,       \* those of them without a colon
  Documents,     \* the documents a call may be given
  Limits         \* WithMaxNestingDepth

ASSUME NoneAssumption == None \notin Identifiers /\ None # "partial"

VARIABLES
  doc,        \* the document
  maxDepth,   \* config.maxDepth
  stack,      \* the calls of validateCatalog under way
  errors,     \* validator.errors
  warnings,   \* validator.warnings
  result      \* what the call returned

vars == <<doc, maxDepth, stack, errors, warnings, result>>

(* A document is the sequence of the catalogs in it, the outermost last: the *)
(* data of an entry parses as a catalog that comes before its own.           *)
(* specVersion: the numbers between its dots; <<>> when it is empty.  Times  *)
(* are counted from the zero time; there are none before it.                *)
Keys    == {"url", "reverse-dns", "plain"}     \* the kinds of keys of extensions
Policy  == [{"privacyPolicyUrl", "termsOfServiceUrl"} -> {"absent", "string", "other"}]
Entry   == [id : Identifiers \cup {None}, version : Versions \cup {None},
            type : {None, "catalog", "other"}, url : BOOLEAN, data : Nat \cup {None, Bad},
            updatedAt : (Nat \ {ZeroTime}) \cup {None, Bad},
            publisher : {None, "complete", "partial"},
            extensions : SUBSET Keys, policy : Policy \cup {None, Bad}, trust : BOOLEAN]
Catalog == [specVersion : Seq(Int \cup {Bad}), host : {"absent", "named", "unnamed"},
            extensions : SUBSET Keys, trust : BOOLEAN, entries : Seq(Entry)]

IsNestedCatalog(x) == x.type = "catalog"

IsDocument(d) ==
  /\ d # <<>>
  /\ \A n \in DOMAIN d : /\ d[n] \in Catalog
                         /\ \A k \in DOMAIN d[n].entries :
                              d[n].entries[k].data \in Nat => d[n].entries[k].data \in 1..(n - 1)

ASSUME DocumentsAssumption == \A d \in Documents : d \in Seq(Catalog) /\ IsDocument(d)
ASSUME LimitsAssumption    == Limits \subseteq Int

(* Where in a document: the entries that lead there. *)
Path       == Seq(Nat)
Diagnostic == [code : {"spec-version", "host-member-missing", "entry-member-missing",
                       "entry-artifact-source", "entry-duplicate", "entry-version-conflict",
                       "identifier-not-uri", "timestamp-invalid", "publisher-member-missing",
                       "extension-key-invalid", "policy-urls-invalid",
                       "nested-depth-exceeded", "nested-catalog-invalid", "trust"},
               path : Path]
Frame      == [cat : Nat, path : Path, depth : Nat, next : Nat]
Result     == [isValid : BOOLEAN, level : {"minimal", "discoverable"}]

-----------------------------------------------------------------------------
(* Definitions named Mutant... are plausible mistakes in the definition that *)
(* follows; the properties are tested by putting them in its place.         *)

(* validateSpecVersion: one error at most. *)
specVersionErrors(v) ==
  {c \in {"spec-version"} :
     \/ Len(v) # 2
     \/ \E k \in DOMAIN v : v[k] = Bad
     \/ v[1] < 0 \/ v[1] > 1}

extensionErrors(keys) == {c \in {"extension-key-invalid"} : "plain" \in keys}

(* A policy that is no object, JSON null included, or has a member of another type. *)
policyErrors(policy) ==
  {c \in {"policy-urls-invalid"} :
     /\ policy # None
     /\ policy = Bad \/ \E m \in DOMAIN policy : policy[m] = "other"}

(* The errors of one catalog that are not of its entries. *)
catalogErrors(c) ==
  specVersionErrors(c.specVersion)
  \cup {e \in {"host-member-missing"} : c.host = "unnamed"}
  \cup extensionErrors(c.extensions)
  \cup {e \in {"trust"} : ~c.trust}

MutantUnversionedLast(es, k) ==
  LET sameID == {j \in 1..(k - 1) : es[j].id = es[k].id} IN
  {c \in {"entry-duplicate", "entry-version-conflict"} :
     \/ /\ c = "entry-duplicate"
        /\ \E j \in sameID : es[j].version = es[k].version
     \/ /\ c = "entry-version-conflict"
        /\ es[k].version # None
        /\ \E j \in sameID : es[j].version = None}

MutantForgotUnversioned(es, k) ==
  LET before        == {es[j] : j \in 1..(k - 1)}
      seenVersioned == {<<x.id, x.version>> : x \in {y \in before : y.version # None}}
  IN  {c \in {"entry-duplicate"} :
         \/ <<es[k].id, es[k].version>> \in seenVersioned
         \/ es[k].version = None /\ es[k].id \in {pair[1] : pair \in seenVersioned}}

(* validateEntryUniqueness, for the k-th entry.  The three maps of the code *)
(* hold the entries before it: seenVersioned the pairs, seenUnversioned and *)
(* versionedIDs the identifiers of those without and with a version.        *)
uniquenessErrors(es, k) ==
  LET before          == {es[j] : j \in 1..(k - 1)}
      seenVersioned   == {<<x.id, x.version>> : x \in {y \in before : y.version # None}}
      seenUnversioned == {x.id : x \in {y \in before : y.version = None}}
      versionedIDs    == {pair[1] : pair \in seenVersioned}
  IN  {c \in {"entry-duplicate", "entry-version-conflict"} :
         \/ /\ es[k].version # None
            /\ \/ c = "entry-version-conflict" /\ es[k].id \in seenUnversioned
               \/ c = "entry-duplicate" /\ <<es[k].id, es[k].version>> \in seenVersioned
         \/ /\ es[k].version = None
            /\ c = "entry-duplicate" /\ es[k].id \in seenUnversioned \cup versionedIDs}

(* The errors of an entry by itself. *)
entryErrors(x) ==
  {c \in {"entry-member-missing"} : None \in {x.id, x.type}}
  \cup {c \in {"entry-artifact-source"} : x.url <=> x.data # None}
  \cup {c \in {"timestamp-invalid"} : x.updatedAt = Bad}
  \cup extensionErrors(x.extensions)
  \cup policyErrors(x.policy)
  \cup {c \in {"publisher-member-missing"} : x.publisher = "partial"}
  \cup {c \in {"trust"} : ~x.trust}

MutantDepthOffByOne(x, depth) ==
  {c \in {"nested-depth-exceeded", "nested-catalog-invalid"} :
     /\ IsNestedCatalog(x)
     /\ IF depth > maxDepth THEN c = "nested-depth-exceeded"
                            ELSE c = "nested-catalog-invalid" /\ x.data = Bad}

(* validateNestedCatalog, but for its descent. *)
nestedErrors(x, depth) ==
  {c \in {"nested-depth-exceeded", "nested-catalog-invalid"} :
     /\ IsNestedCatalog(x)
     /\ IF depth >= maxDepth THEN c = "nested-depth-exceeded"
                             ELSE c = "nested-catalog-invalid" /\ x.data = Bad}

MutantDescendsTooDeep(x, depth) == IsNestedCatalog(x) /\ depth <= maxDepth /\ x.data \in DOMAIN doc

descends(x, depth) == IsNestedCatalog(x) /\ depth < maxDepth /\ x.data \in DOMAIN doc

entryWarnings(x) == IF x.id \in NotURIs THEN {"identifier-not-uri"} ELSE {}

At(codes, path) == {[code |-> c, path |-> path] : c \in codes}

-----------------------------------------------------------------------------
Top     == stack[Len(stack)]
Below   == SubSeq(stack, 1, Len(stack) - 1)
Entries == doc[Top.cat].entries

Init ==
  /\ doc \in Documents
  /\ maxDepth \in Limits
  /\ stack = <<[cat |-> Len(doc), path |-> <<>>, depth |-> 0, next |-> 0]>>
  /\ errors = {}
  /\ warnings = {}
  /\ result = None

Proceed == [Top EXCEPT !.next = @ + 1]

(* The head of a catalog, its uniqueness check included. *)
ValidateCatalog ==
  /\ stack # <<>>
  /\ Top.next = 0
  /\ errors' = errors
       \cup At(catalogErrors(doc[Top.cat]), Top.path)
       \cup UNION {At(uniquenessErrors(Entries, k), Append(Top.path, k)) : k \in DOMAIN Entries}
  /\ stack' = Append(Below, Proceed)
  /\ UNCHANGED <<doc, maxDepth, warnings, result>>

MutantEntryAgain ==
  /\ stack # <<>>
  /\ Top.next \in DOMAIN Entries
  /\ LET x == Entries[Top.next]  path == Append(Top.path, Top.next) IN
     /\ errors' = errors \cup At(entryErrors(x) \cup nestedErrors(x, Top.depth), path)
     /\ warnings' = warnings \cup At(entryWarnings(x), path)
     /\ stack' = IF descends(x, Top.depth)
                 THEN Append(stack, [cat |-> x.data, path |-> path,
                                     depth |-> Top.depth + 1, next |-> 0])
                 ELSE Append(Below, Proceed)
  /\ UNCHANGED <<doc, maxDepth, result>>

(* An entry, and on to the catalog nested in it, if there is one. *)
ValidateEntry ==
  /\ stack # <<>>
  /\ Top.next \in DOMAIN Entries
  /\ LET x == Entries[Top.next]  path == Append(Top.path, Top.next) IN
     /\ errors' = errors \cup At(entryErrors(x) \cup nestedErrors(x, Top.depth), path)
     /\ warnings' = warnings \cup At(entryWarnings(x), path)
     /\ stack' = Append(Below, Proceed)
          \o IF descends(x, Top.depth)
             THEN <<[cat |-> x.data, path |-> path, depth |-> Top.depth + 1, next |-> 0]>>
             ELSE <<>>
  /\ UNCHANGED <<doc, maxDepth, result>>

(* A catalog is done, and the walk goes on in the one around it. *)
LeaveCatalog ==
  /\ stack # <<>>
  /\ Top.next > Len(Entries)
  /\ stack' = Below
  /\ UNCHANGED <<doc, maxDepth, errors, warnings, result>>

Conclude ==
  /\ stack = <<>>
  /\ result = None
  /\ result' = [isValid |-> errors = {},
                level |-> IF errors # {} \/ doc[Len(doc)].host = "absent"
                          THEN "minimal" ELSE "discoverable"]
  /\ UNCHANGED <<doc, maxDepth, stack, errors, warnings>>

Next == ValidateCatalog \/ ValidateEntry \/ LeaveCatalog \/ Conclude

Spec == Init /\ [][Next]_vars

(* A call runs on. *)
FairSpec == Spec /\ WF_vars(Next)
-----------------------------------------------------------------------------
(* Every variable stays in its set, and the walk within its limit.         *)
TypeOK ==
  /\ IsDocument(doc)
  /\ maxDepth \in Limits
  /\ stack \in Seq(Frame)
  /\ \A n \in DOMAIN stack : /\ stack[n].cat \in DOMAIN doc
                            /\ (stack[n].depth = 0 \/ stack[n].depth <= maxDepth)
  /\ errors \subseteq Diagnostic
  /\ warnings \subseteq Diagnostic
  /\ result \in Result \cup {None}

(* The catalogs n levels down, and where they are, whatever the limit. *)
Nested(p) == {k \in DOMAIN doc[p.cat].entries : IsNestedCatalog(doc[p.cat].entries[k])}

Level[n \in Nat] ==
  IF n = 0 THEN {[cat |-> Len(doc), path |-> <<>>]}
  ELSE UNION {{[cat |-> doc[p.cat].entries[k].data, path |-> Append(p.path, k)] :
                 k \in {j \in Nested(p) : doc[p.cat].entries[j].data \in DOMAIN doc}} :
                p \in Level[n - 1]}

Levels == 0..Len(doc)

(* Two entries a reader cannot tell apart by identifier and version. *)
Clash(x, y) == x.id = y.id /\ (x.version = y.version \/ None \in {x.version, y.version})

(* What the specification asks of a catalog and of an entry by themselves.  *)
Conforming(c) ==
  /\ Len(c.specVersion) = 2 /\ c.specVersion[1] \in 0..1 /\ c.specVersion[2] # Bad
  /\ c.host # "unnamed" /\ "plain" \notin c.extensions /\ c.trust

ConformingEntry(x) ==
  /\ x.id # None /\ x.type # None /\ (x.url \/ x.data # None) /\ ~(x.url /\ x.data # None)
  /\ x.updatedAt # Bad /\ x.publisher \in {None, "complete"} /\ x.trust
  /\ "plain" \notin x.extensions
  /\ x.policy # None => x.policy # Bad /\ \A m \in DOMAIN x.policy : x.policy[m] # "other"

(* A document is valid if and only if every part of it is: its catalogs at  *)
(* every level, whose entries can be told apart in whatever order they are  *)
(* listed, and no level is below the limit (validate.go:169-329).           *)
ValidMeansThroughout ==
  result # None =>
    (result.isValid <=>
       \A n \in Levels : \A p \in Level[n] :
         LET es == doc[p.cat].entries IN
         /\ Conforming(doc[p.cat])
         /\ \A k \in DOMAIN es : /\ ConformingEntry(es[k])
                                 /\ \A j \in DOMAIN es \ {k} : ~Clash(es[j], es[k])
         /\ \A k \in Nested(p) : n < maxDepth /\ es[k].data # Bad)

(* A diagnostic names each place that is at fault, and no other: a catalog, *)
(* or an entry that is malformed, clashes with an earlier one, or nests a   *)
(* catalog that is malformed or too deep (validate.go:169-329).             *)
DiagnosticsLocateFaults ==
  result # None =>
    {d.path : d \in errors} =
      UNION {UNION {(IF Conforming(doc[p.cat]) THEN {} ELSE {p.path}) \cup
                    {Append(p.path, k) : k \in
                       {k \in DOMAIN doc[p.cat].entries :
                          LET es == doc[p.cat].entries IN
                          \/ ~ConformingEntry(es[k])
                          \/ \E j \in 1..(k - 1) : Clash(es[j], es[k])
                          \/ k \in Nested(p) /\ (n >= maxDepth \/ es[k].data = Bad)}} :
                      p \in Level[n]} : n \in {l \in Levels : l <= maxDepth \/ l = 0}}

(* In a valid document no entry is hidden from its readers: looked up by    *)
(* its identifier and version, each is found (version.go:15, validate.go:198). *)
EveryEntryIsFound ==
  result # None /\ result.isValid =>
    \A n \in Levels : \A p \in Level[n] :
      LET es == doc[p.cat].entries IN
      \A k \in DOMAIN es : GetByIDAndVersion(es, es[k].id, es[k].version) = k

(* GetLatest returns the greatest entry of an identifier: one with a        *)
(* semantic version before one without, by version and then by time, or by  *)
(* time if none has; the first of those that are equal (version.go:38-81).  *)
Newer(x, y) ==
  LET semver(e) == e.version # None /\ Precedence[e.version] # None
      later     == /\ x.updatedAt \notin {None, Bad}
                   /\ y.updatedAt \in {None, Bad} \/ x.updatedAt > y.updatedAt
  IN  \/ semver(x) /\ ~semver(y)
      \/ semver(x) /\ semver(y) /\ Precedence[x.version] > Precedence[y.version]
      \/ semver(x) /\ semver(y) /\ Precedence[x.version] = Precedence[y.version] /\ later
      \/ ~semver(x) /\ ~semver(y) /\ later

LatestIsGreatest ==
  result # None =>
    LET es == doc[Len(doc)].entries IN
    \A id \in Identifiers :
      LET same == {k \in DOMAIN es : es[k].id = id}  latest == GetLatest(es, id) IN
      IF same = {} THEN latest = 0
      ELSE /\ latest \in same
           /\ \A k \in same : /\ ~Newer(es[k], es[latest])
                              /\ k < latest => Newer(es[latest], es[k])

(* Every call returns (validate.go:130).                                   *)
Terminates == <>(result # None)

-----------------------------------------------------------------------------
(* A statement of the sources that the code does not keep.                 *)

(* "specVersion major and minor components must be non-negative integers"  *)
(* (validate.go:408): those of a valid document are.                       *)
SpecVersionIsNonNegative ==
  result # None /\ result.isValid =>
    LET v == doc[Len(doc)].specVersion IN \A k \in DOMAIN v : v[k] >= 0
=============================================================================
