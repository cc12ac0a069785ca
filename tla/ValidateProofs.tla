--------------------------- MODULE ValidateProofs ---------------------------
(***************************************************************************)
(* What holds of every call of Validate, for every document and limit.     *)
(***************************************************************************)
EXTENDS Validate, RecursionLemmas, SequenceTheorems

(* The walk is in the calls under way: the outer ones and the top one.  x is *)
(* to come from f if f is still to reach the entry at x or one around it.   *)
Calls   == Range(stack)
Waiting == Range(Below)

Under(x, y) == Len(y) < Len(x) /\ \A j \in 1..Len(y) : x[j] = y[j]

ToCome(f, x) == Under(x, f.path) /\ x[Len(f.path) + 1] >= f.next

Due(x)     == \E f \in Calls : ToCome(f, x)
HeadDue(x) == \E f \in Calls : x = f.path /\ f.next = 0

Reported == {d.path : d \in errors}

(* The faults of the catalog at p that its head shows, and those of its     *)
(* entries by themselves, n levels down.                                    *)
Clashes(es, k) == \E j \in 1..(k - 1) : Clash(es[j], es[k])

HeadFaults(p) ==
  (IF Conforming(doc[p.cat]) THEN {} ELSE {p.path})
  \cup {Append(p.path, k) : k \in {j \in DOMAIN doc[p.cat].entries : Clashes(doc[p.cat].entries, j)}}

FaultyEntry(x, n) ==
  ~ConformingEntry(x) \/ (IsNestedCatalog(x) /\ (n >= maxDepth \/ x.data = Bad))

EntryFaults(p, n) ==
  {Append(p.path, k) : k \in {j \in DOMAIN doc[p.cat].entries : FaultyEntry(doc[p.cat].entries[j], n)}}

(* How far down the walk goes. *)
Walked == {n \in Nat : n <= maxDepth \/ n = 0}

NodeOf(f) == [cat |-> f.cat, path |-> f.path]

(* The inductive invariant: each call under way is of a catalog of the      *)
(* document, at its depth; what is reported is a fault; and a fault is      *)
(* reported unless the walk has still to come to it.                        *)
CallsAreCatalogs == \A f \in Calls : NodeOf(f) \in Level[f.depth] /\ f.depth \in Walked

ReportedAreFaults ==
  \A x \in Reported : \E n \in Walked : \E p \in Level[n] : x \in HeadFaults(p) \cup EntryFaults(p, n)

FaultsAreReported ==
  \A n \in Walked : \A p \in Level[n] :
    /\ HeadFaults(p) \subseteq Reported \/ HeadDue(p.path) \/ Due(p.path)
    /\ \A x \in EntryFaults(p, n) : x \in Reported \/ Due(x)

ResultFollows == result # None => stack = <<>> /\ result.isValid = (errors = {})

IInv ==
  /\ doc \in Documents
  /\ TypeOK
  /\ CallsAreCatalogs
  /\ ReportedAreFaults
  /\ FaultsAreReported
  /\ ResultFollows

-----------------------------------------------------------------------------
(* The levels of a document: what is at one comes from the level above it.  *)
Node == [cat : DOMAIN doc, path : Seq(Nat \ {0})]

Child(p, k) == [cat |-> doc[p.cat].entries[k].data, path |-> Append(p.path, k)]

ChildKeys(p) == {k \in Nested(p) : doc[p.cat].entries[k].data \in DOMAIN doc}

LevelBelow(L) == UNION {{Child(p, k) : k \in ChildKeys(p)} : p \in L}

LEMMA EntryTypes ==
  ASSUME IsDocument(doc), NEW c \in DOMAIN doc
  PROVE  /\ doc[c] \in Catalog /\ doc[c].entries \in Seq(Entry)
         /\ DOMAIN doc[c].entries = 1..Len(doc[c].entries) /\ Len(doc[c].entries) \in Nat
         /\ \A k \in DOMAIN doc[c].entries : k \in Nat /\ k >= 1 /\ doc[c].entries[k] \in Entry
         /\ \A k \in DOMAIN doc[c].entries :
              doc[c].entries[k].data \in Nat => doc[c].entries[k].data \in 1..(c - 1)
<1>1. doc[c] \in Catalog BY DEF IsDocument
<1>2. doc[c].entries \in Seq(Entry) BY <1>1 DEF Catalog
<1> DEFINE es == doc[c].entries
<1>3. \A k \in DOMAIN es : es[k].data \in Nat => es[k].data \in 1..(c - 1) BY DEF IsDocument
<1> HIDE DEF es
<1>4. /\ DOMAIN es = 1..Len(es) /\ Len(es) \in Nat
      /\ \A k \in DOMAIN es : k \in Nat /\ k >= 1 /\ es[k] \in Entry
  BY <1>2 DEF es
<1>5. QED BY <1>1, <1>2, <1>3, <1>4 DEF es

LEMMA ChildType ==
  ASSUME IsDocument(doc), NEW p \in Node, NEW k \in ChildKeys(p)
  PROVE  /\ Child(p, k) \in Node /\ k \in Nat /\ k >= 1
         /\ Child(p, k).path = Append(p.path, k) /\ Child(p, k).cat = doc[p.cat].entries[k].data
<1>1. k \in DOMAIN doc[p.cat].entries /\ doc[p.cat].entries[k].data \in DOMAIN doc
  BY DEF ChildKeys, Nested
<1>2. k \in Nat /\ k >= 1 BY <1>1, EntryTypes DEF Node
<1>3. Append(p.path, k) \in Seq(Nat \ {0}) BY <1>2 DEF Node
<1>4. QED BY <1>1, <1>2, <1>3 DEF Child, Node

LEMMA LevelDef ==
  ASSUME IsDocument(doc), Len(doc) \in DOMAIN doc
  PROVE  /\ Level[0] = {[cat |-> Len(doc), path |-> <<>>]}
         /\ \A n \in Nat : Level[n] \subseteq Node /\ Level[n + 1] = LevelBelow(Level[n])
<1> DEFINE root == {[cat |-> Len(doc), path |-> <<>>]}
           V == SUBSET Node
           step == [x \in V \X Nat |-> LevelBelow(x[1])]
           Equation(h) == h = [n \in Nat |-> IF n = 0 THEN root ELSE LevelBelow(h[n - 1])]
<1>1. root \in V BY DEF Node
<1>2. ASSUME NEW L \in V, NEW k \in Nat PROVE step[<<L, k>>] = LevelBelow(L) /\ step[<<L, k>>] \in V
  <2>1. step[<<L, k>>] = LevelBelow(L) OBVIOUS
  <2>2. LevelBelow(L) \in V BY ChildType DEF LevelBelow
  <2>3. QED BY <2>1, <2>2
<1> HIDE DEF step, V, root
<1>0. StaysInNat(step, V) BY <1>2 DEF StaysInNat
<1>3. PICK f \in [Nat -> V] : f[0] = root /\ \A k \in Nat : f[k + 1] = step[<<f[k], k + 1>>]
  BY <1>0, <1>1, RecursionOnNaturals
<1>4. ASSUME NEW k \in Nat PROVE f[k + 1] = LevelBelow(f[k])
  <2>1. f[k] \in V /\ k + 1 \in Nat BY <1>3
  <2>2. step[<<f[k], k + 1>>] = LevelBelow(f[k]) BY <1>2, <2>1
  <2>3. QED BY <1>3, <2>2
<1>5. Equation(f)
  <2>1. \A n \in Nat : f[n] = IF n = 0 THEN root ELSE LevelBelow(f[n - 1])
    <3> TAKE n \in Nat
    <3>1. CASE n = 0 BY <1>3, <3>1
    <3>2. CASE n # 0
      <4>1. n - 1 \in Nat /\ (n - 1) + 1 = n BY <3>2
      <4>2. QED BY <1>4, <3>2, <4>1
    <3>3. QED BY <3>1, <3>2
  <2>2. QED BY <1>3, <2>1
<1>6. Level = CHOOSE h : Equation(h)
  BY DEF Level, LevelBelow, Child, ChildKeys, root
<1>7. Equation(Level) BY <1>5, <1>6
<1>8. Level[0] = root /\ \A n \in Nat : Level[n + 1] = LevelBelow(Level[n])
  <2> DEFINE g == Level
  <2> HIDE DEF g
  <2>1. Equation(g) BY <1>7 DEF g
  <2>2. g[0] = root BY <2>1
  <2>3. ASSUME NEW n \in Nat PROVE g[n + 1] = LevelBelow(g[n])
    <3>1. n + 1 \in Nat /\ n + 1 # 0 /\ (n + 1) - 1 = n OBVIOUS
    <3>2. QED BY <2>1, <3>1
  <2>4. QED BY <2>2, <2>3 DEF g
<1> DEFINE T == {n \in Nat : Level[n] \in V}
<1>9. 0 \in T BY <1>1, <1>8
<1>10. ASSUME NEW n \in Nat, n \in T PROVE n + 1 \in T
  <2>1. Level[n] \in V BY <1>10
  <2>2. LevelBelow(Level[n]) \in V BY <1>2, <1>10, <2>1
  <2>3. Level[n + 1] \in V BY <1>8, <1>10, <2>2
  <2> DEFINE L == Level
  <2>4. n + 1 \in Nat /\ L[n + 1] \in V BY <2>3
  <2> HIDE DEF L
  <2>5. n + 1 \in {m \in Nat : L[m] \in V} BY <2>4
  <2>6. QED BY <2>5 DEF L
<1> HIDE DEF T
<1>11. \A n \in Nat : n \in T BY <1>9, <1>10, Induction
<1>12. QED BY <1>8, <1>11 DEF T, V, root

(* A proper document. *)
Proper == doc \in Seq(Catalog) /\ IsDocument(doc)

LEMMA ProperFacts ==
  ASSUME Proper
  PROVE  /\ IsDocument(doc) /\ Len(doc) \in Nat /\ DOMAIN doc = 1..Len(doc) /\ Len(doc) \in DOMAIN doc
<1>1. doc \in Seq(Catalog) /\ doc # <<>> BY DEF Proper, IsDocument
<1>2. Len(doc) \in Nat /\ DOMAIN doc = 1..Len(doc) /\ Len(doc) # 0 BY <1>1
<1>3. QED BY <1>2 DEF Proper

LEMMA LevelType ==
  ASSUME Proper, NEW n \in Nat
  PROVE  Level[n] \subseteq Node
BY ProperFacts, LevelDef

LEMMA LevelStep ==
  ASSUME Proper, NEW n \in Nat, NEW q
  PROVE  q \in Level[n + 1] <=> \E p \in Level[n], k \in Nat \ {0} : k \in ChildKeys(p) /\ q = Child(p, k)
<1>1. Level[n + 1] = LevelBelow(Level[n]) BY ProperFacts, LevelDef
<1>2. \A p \in Level[n] : \A k \in ChildKeys(p) : k \in Nat \ {0} BY LevelType, ChildType, ProperFacts
<1>3. QED BY <1>1, <1>2 DEF LevelBelow

(* Each level is one entry further, and at least one catalog nearer to the start. *)
Shaped(n) == \A p \in Level[n] : Len(p.path) = n /\ p.cat + n <= Len(doc)

LEMMA LevelShape ==
  ASSUME Proper
  PROVE  \A n \in Nat : Shaped(n)
<1> DEFINE T == {n \in Nat : Shaped(n)}
<1>1. Shaped(0) BY ProperFacts, LevelDef, SMTT(30) DEF Shaped
<1>2. ASSUME NEW n \in Nat, Shaped(n) PROVE Shaped(n + 1)
  <2> SUFFICES ASSUME NEW q \in Level[n + 1] PROVE Len(q.path) = n + 1 /\ q.cat + (n + 1) <= Len(doc)
    BY DEF Shaped
  <2>1. PICK p \in Level[n], k \in Nat \ {0} : k \in ChildKeys(p) /\ q = Child(p, k) BY LevelStep
  <2>2. p \in Node /\ Len(p.path) = n /\ p.cat + n <= Len(doc) BY <1>2, LevelType DEF Shaped
  <2>3. q.path = Append(p.path, k) /\ q.cat = doc[p.cat].entries[k].data /\ k \in Nat /\ k >= 1
    BY <2>1, <2>2, ChildType, ProperFacts
  <2>4. Len(q.path) = n + 1 BY <2>2, <2>3 DEF Node
  <2>5. q.cat \in 1..(p.cat - 1)
    <3>1. p.cat \in DOMAIN doc /\ IsDocument(doc) BY <2>2, ProperFacts DEF Node
    <3>2. k \in DOMAIN doc[p.cat].entries /\ q.cat \in DOMAIN doc BY <2>1, <2>3 DEF ChildKeys, Nested
    <3>3. q.cat \in Nat BY <3>2, ProperFacts
    <3>4. QED BY <3>1, <3>2, <3>3, <2>3, EntryTypes
  <2>6. p.cat \in Nat /\ Len(doc) \in Nat BY <2>2, ProperFacts DEF Node
  <2>7. QED BY <2>2, <2>4, <2>5, <2>6
<1> HIDE DEF T
<1>3. 0 \in T BY <1>1 DEF T
<1>4. \A n \in Nat : n \in T => n + 1 \in T BY <1>2 DEF T
<1>5. \A n \in Nat : n \in T BY <1>3, <1>4, Induction
<1>6. QED BY <1>5 DEF T

LEMMA NodeFacts ==
  ASSUME Proper, NEW n \in Nat, NEW p \in Level[n]
  PROVE  /\ p \in Node /\ p.cat \in DOMAIN doc /\ p.path \in Seq(Nat \ {0}) /\ Len(p.path) = n
         /\ p.cat + n <= Len(doc) /\ p.cat \in Nat
<1>1. p \in Node /\ Len(p.path) = n /\ p.cat + n <= Len(doc)
  BY LevelType, LevelShape DEF Shaped
<1>2. QED BY <1>1, ProperFacts DEF Node

(* A path leads to one catalog. *)
OnePath(n) == \A p, q \in Level[n] : p.path = q.path => p = q

LEMMA LevelUnique ==
  ASSUME Proper
  PROVE  \A n \in Nat : OnePath(n)
<1> DEFINE T == {n \in Nat : OnePath(n)}
<1>1. OnePath(0) BY ProperFacts, LevelDef DEF OnePath
<1>2. ASSUME NEW n \in Nat, OnePath(n) PROVE OnePath(n + 1)
  <2> SUFFICES ASSUME NEW x \in Level[n + 1], NEW y \in Level[n + 1], x.path = y.path PROVE x = y
    BY DEF OnePath
  <2>1. PICK p \in Level[n], k \in Nat \ {0} : k \in ChildKeys(p) /\ x = Child(p, k) BY LevelStep
  <2>2. PICK q \in Level[n], j \in Nat \ {0} : j \in ChildKeys(q) /\ y = Child(q, j) BY LevelStep
  <2>3. p \in Node /\ q \in Node BY LevelType
  <2>4. x.path = Append(p.path, k) /\ y.path = Append(q.path, j) /\ k \in Nat \ {0} /\ j \in Nat \ {0}
    BY <2>1, <2>2, <2>3, ChildType, ProperFacts
  <2>5. p.path \in Seq(Nat \ {0}) /\ q.path \in Seq(Nat \ {0}) BY NodeFacts
  <2> DEFINE s == p.path
             t == q.path
  <2> HIDE DEF s, t
  <2>6. s \in Seq(Nat \ {0}) /\ t \in Seq(Nat \ {0}) /\ Append(s, k) = Append(t, j)
    BY <2>4, <2>5 DEF s, t
  <2>7. s = t /\ k = j BY <2>4, <2>6, AppendInjective
  <2>8. p = q BY <1>2, <2>7 DEF OnePath, s, t
  <2>9. QED BY <2>1, <2>2, <2>7, <2>8
<1> HIDE DEF T
<1>3. 0 \in T BY <1>1 DEF T
<1>4. \A n \in Nat : n \in T => n + 1 \in T BY <1>2 DEF T
<1>5. \A n \in Nat : n \in T BY <1>3, <1>4, Induction
<1>6. QED BY <1>5 DEF T

(* The way to a catalog passes through the entries of those around it. *)
LeadsThrough(n) ==
  \A p \in Level[n] : \A m \in 0..(n - 1) : \A a \in Level[m] :
    Under(p.path, a.path) => p.path[m + 1] \in ChildKeys(a)

LEMMA LevelPasses ==
  ASSUME Proper
  PROVE  \A n \in Nat : LeadsThrough(n)
<1> DEFINE T == {n \in Nat : LeadsThrough(n)}
<1>1. LeadsThrough(0) BY DEF LeadsThrough
<1>2. ASSUME NEW n \in Nat, LeadsThrough(n) PROVE LeadsThrough(n + 1)
  <2> SUFFICES ASSUME NEW x \in Level[n + 1], NEW m \in 0..n, NEW a \in Level[m], Under(x.path, a.path)
               PROVE  x.path[m + 1] \in ChildKeys(a)
    BY DEF LeadsThrough
  <2>1. PICK p \in Level[n], k \in Nat \ {0} : k \in ChildKeys(p) /\ x = Child(p, k) BY LevelStep
  <2>2. /\ p \in Node /\ p.path \in Seq(Nat \ {0}) /\ Len(p.path) = n
        /\ a.path \in Seq(Nat \ {0}) /\ Len(a.path) = m
    BY NodeFacts
  <2>3. x.path = Append(p.path, k) /\ k \in Nat \ {0} BY <2>1, <2>2, ChildType, ProperFacts
  <2>4. \A j \in 1..n : x.path[j] = p.path[j] BY <2>2, <2>3, AppendProperties
  <2>5. x.path[n + 1] = k BY <2>2, <2>3, AppendProperties
  <2>6. \A j \in 1..m : p.path[j] = a.path[j] BY <2>2, <2>4 DEF Under
  <2>7. CASE m = n
    <3>1. p.path = a.path BY <2>2, <2>6, <2>7, SeqEqual
    <3>2. p = a BY <3>1, <2>7, LevelUnique DEF OnePath
    <3>3. QED BY <2>1, <2>5, <2>7, <3>2
  <2>8. CASE m < n
    <3>1. Under(p.path, a.path) BY <2>2, <2>6, <2>8 DEF Under
    <3>2. p.path[m + 1] \in ChildKeys(a) BY <1>2, <2>8, <3>1 DEF LeadsThrough
    <3>3. m \in Nat /\ m + 1 \in 1..n BY <2>8
    <3>4. x.path[m + 1] = p.path[m + 1] BY <2>4, <3>3
    <3>5. QED BY <3>2, <3>4
  <2>9. QED BY <2>7, <2>8
<1> HIDE DEF T
<1>3. 0 \in T BY <1>1 DEF T
<1>4. \A n \in Nat : n \in T => n + 1 \in T BY <1>2 DEF T
<1>5. \A n \in Nat : n \in T BY <1>3, <1>4, Induction
<1>6. QED BY <1>5 DEF T

(* There is no level below an empty one. *)
LEMMA LevelsEnd ==
  ASSUME Proper, NEW m \in Nat, Level[m] = {}
  PROVE  \A n \in Nat : n >= m => Level[n] = {}
<1> DEFINE T == {n \in Nat : n >= m => Level[n] = {}}
<1>1. 0 \in T OBVIOUS
<1>2. ASSUME NEW n \in Nat, n >= m => Level[n] = {}, n + 1 >= m PROVE Level[n + 1] = {}
  <2>1. CASE n >= m BY <1>2, <2>1, LevelStep
  <2>2. CASE n + 1 = m BY <2>2
  <2>3. QED BY <1>2, <2>1, <2>2
<1> HIDE DEF T
<1>4. \A n \in Nat : n \in T => n + 1 \in T BY <1>2 DEF T
<1>3. 0 \in T BY <1>1
<1>5. \A n \in Nat : n \in T BY <1>3, <1>4, Induction
<1>6. QED BY <1>5 DEF T

-----------------------------------------------------------------------------
(* What the code reports, against what the specification asks for.         *)
LEMMA CatalogErrorsAreFaults ==
  ASSUME NEW c \in Catalog
  PROVE  catalogErrors(c) = {} <=> Conforming(c)
<1> DEFINE v == c.specVersion
<1>1. v \in Seq(Int \cup {Bad}) /\ Bad \notin Int BY PrecedenceAssumption DEF Catalog
<1> HIDE DEF v
<1>2. specVersionErrors(v) = {} <=> Len(v) = 2 /\ v[1] \in 0..1 /\ v[2] # Bad
  <2>1. specVersionErrors(v) = {} <=>
          ~(Len(v) # 2 \/ (\E k \in DOMAIN v : v[k] = Bad) \/ v[1] < 0 \/ v[1] > 1)
    BY DEF specVersionErrors
  <2>2. CASE Len(v) # 2 BY <2>1, <2>2
  <2>3. CASE Len(v) = 2
    <3>1. DOMAIN v = {1, 2} /\ v[1] \in Int \cup {Bad} BY <1>1, <2>3, SMTT(30)
    <3>2. CASE v[1] = Bad BY <1>1, <2>1, <2>3, <3>1, <3>2
    <3>3. CASE v[1] \in Int BY <1>1, <2>1, <2>3, <3>1, <3>3
    <3>4. QED BY <3>1, <3>2, <3>3
  <2>4. QED BY <2>2, <2>3
<1>3. extensionErrors(c.extensions) = {} <=> "plain" \notin c.extensions BY DEF extensionErrors
<1>4. catalogErrors(c) = {} <=>
        specVersionErrors(v) = {} /\ c.host # "unnamed" /\ extensionErrors(c.extensions) = {} /\ c.trust
  BY DEF catalogErrors, v
<1>5. QED BY <1>2, <1>3, <1>4 DEF Conforming, v

LEMMA EntryErrorsAreFaults ==
  ASSUME NEW x \in Entry
  PROVE  entryErrors(x) = {} <=> ConformingEntry(x)
<1>1. extensionErrors(x.extensions) = {} <=> "plain" \notin x.extensions BY DEF extensionErrors
<1>2. policyErrors(x.policy) = {} <=>
        (x.policy # None => x.policy # Bad /\ \A m \in DOMAIN x.policy : x.policy[m] # "other")
  BY DEF policyErrors
<1>3. entryErrors(x) = {} <=>
        /\ ~(None \in {x.id, x.type}) /\ ~(x.url <=> x.data # None) /\ ~(x.updatedAt = Bad)
        /\ extensionErrors(x.extensions) = {} /\ policyErrors(x.policy) = {}
        /\ x.publisher # "partial" /\ x.trust
  BY DEF entryErrors
<1>4. x.publisher # "partial" <=> x.publisher \in {None, "complete"}
  BY NoneAssumption DEF Entry
<1>5. x.url \in BOOLEAN BY DEF Entry
<1>6. QED BY <1>1, <1>2, <1>3, <1>4, <1>5 DEF ConformingEntry

LEMMA UniquenessErrorsAreClashes ==
  ASSUME NEW es, NEW k \in Nat
  PROVE  uniquenessErrors(es, k) = {} <=> ~Clashes(es, k)
<1> DEFINE before          == {es[j] : j \in 1..(k - 1)}
           seenVersioned   == {<<x.id, x.version>> : x \in {y \in before : y.version # None}}
           seenUnversioned == {x.id : x \in {y \in before : y.version = None}}
           versionedIDs    == {pair[1] : pair \in seenVersioned}
<1>1. uniquenessErrors(es, k) = {} <=>
        /\ es[k].version # None => /\ es[k].id \notin seenUnversioned
                                   /\ <<es[k].id, es[k].version>> \notin seenVersioned
        /\ es[k].version = None => es[k].id \notin seenUnversioned \cup versionedIDs
  BY DEF uniquenessErrors
<1>2. es[k].id \in seenUnversioned <=> \E j \in 1..(k - 1) : es[j].id = es[k].id /\ es[j].version = None
  OBVIOUS
<1>3. <<es[k].id, es[k].version>> \in seenVersioned <=>
        \E j \in 1..(k - 1) : es[j].id = es[k].id /\ es[j].version = es[k].version /\ es[j].version # None
  OBVIOUS
<1>4. es[k].id \in versionedIDs <=> \E j \in 1..(k - 1) : es[j].id = es[k].id /\ es[j].version # None
  <2> DEFINE versioned == {y \in before : y.version # None}
  <2>1. \A x : <<x.id, x.version>>[1] = x.id OBVIOUS
  <2>2. versionedIDs = {x.id : x \in versioned} BY <2>1
  <2>3. QED BY <2>2
<1> HIDE DEF before, seenVersioned, seenUnversioned, versionedIDs
<1>5. QED BY <1>1, <1>2, <1>3, <1>4 DEF Clashes, Clash

LEMMA EntryOrNestedErrors ==
  ASSUME NEW x \in Entry, NEW n
  PROVE  entryErrors(x) \cup nestedErrors(x, n) = {} <=> ~FaultyEntry(x, n)
<1>1. nestedErrors(x, n) = {} <=> ~(IsNestedCatalog(x) /\ (n >= maxDepth \/ x.data = Bad))
  BY DEF nestedErrors
<1>2. QED BY <1>1, EntryErrorsAreFaults DEF FaultyEntry

-----------------------------------------------------------------------------
(* The calls under way, and how a step changes them.                       *)
LEMMA PushAndPop ==
  ASSUME NEW S, NEW s \in Seq(S), s # <<>>, NEW e \in S, NEW f \in S
  PROVE  LET below == SubSeq(s, 1, Len(s) - 1) IN
         /\ s[Len(s)] \in S /\ Range(s) \subseteq S /\ Range(s) = Range(below) \cup {s[Len(s)]}
         /\ below \in Seq(S)
         /\ Append(below, e) \o <<>> \in Seq(S) /\ Append(below, e) \o <<>> = Append(below, e)
         /\ Append(below, e) \in Seq(S) /\ Range(Append(below, e)) = Range(below) \cup {e}
         /\ Append(below, e) \o <<f>> \in Seq(S)
         /\ Range(Append(below, e) \o <<f>>) = Range(below) \cup {e, f}
<1> DEFINE below == SubSeq(s, 1, Len(s) - 1)
<1>1. Len(s) \in Nat \ {0} BY EmptySeq
<1>2. below \in Seq(S) /\ Len(below) = Len(s) - 1 /\ \A i \in 1..(Len(s) - 1) : below[i] = s[i]
  <2> DEFINE n == Len(s) - 1
  <2>1. n \in Nat /\ \A i \in 1..n : s[i] \in S BY <1>1
  <2>2. 1 \in Int /\ n \in Int /\ below = SubSeq(s, 1, n) BY <2>1
  <2> HIDE DEF below, n
  <2>3. /\ below \in Seq(S) /\ Len(below) = IF 1 <= n THEN n - 1 + 1 ELSE 0
        /\ \A i \in 1..(n - 1 + 1) : below[i] = s[1 + i - 1]
    BY <2>1, <2>2, SubSeqProperties
  <2>4. n - 1 + 1 = n /\ (1 <= n \/ n = 0) /\ \A i \in 1..n : 1 + i - 1 = i BY <2>1
  <2>5. Len(below) = n BY <2>3, <2>4
  <2>6. \A i \in 1..n : below[i] = s[i] BY <2>3, <2>4
  <2>7. QED BY <2>3, <2>5, <2>6 DEF n
<1> HIDE DEF below
<1>3. Range(below) = {s[i] : i \in 1..(Len(s) - 1)} BY <1>1, <1>2 DEF Range
<1>4. Range(s) = Range(below) \cup {s[Len(s)]}
  <2>1. Range(s) = {s[i] : i \in 1..Len(s)} BY RangeEquality
  <2>2. 1..Len(s) = 1..(Len(s) - 1) \cup {Len(s)} BY <1>1
  <2>3. QED BY <1>3, <2>1, <2>2
<1>5. s[Len(s)] \in S /\ Range(s) \subseteq S BY <1>1 DEF Range
<1> DEFINE moved == Append(below, e)
<1>6. /\ moved \in Seq(S) /\ Len(moved) = Len(below) + 1 /\ moved[Len(below) + 1] = e
      /\ \A i \in 1..Len(below) : moved[i] = below[i]
  BY <1>2, AppendProperties
<1> HIDE DEF moved
<1>7. Range(moved) = Range(below) \cup {e} BY <1>2, <1>6 DEF Range
<1>8. moved \o <<>> = moved BY <1>6, ConcatEmptySeq
<1>9. /\ moved \o <<f>> \in Seq(S) /\ Range(moved \o <<f>>) = Range(moved) \cup {f}
  <2>1. <<f>> \in Seq(S) OBVIOUS
  <2>2. Range(<<f>>) = {f} BY DEF Range
  <2>3. moved \o <<f>> \in Seq(S) BY <1>6, <2>1, ConcatProperties
  <2>4. Range(moved \o <<f>>) = Range(moved) \cup Range(<<f>>) BY <1>6, <2>1, RangeConcatenation, ZenonT(30)
  <2>5. QED BY <2>2, <2>3, <2>4
<1>10. QED BY <1>2, <1>4, <1>5, <1>6, <1>7, <1>8, <1>9 DEF below, moved

(* The document and the limit stay, and so do the places and the faults. *)
LEMMA Steady ==
  ASSUME UNCHANGED <<doc, maxDepth>>
  PROVE  /\ Level' = Level /\ Walked' = Walked
         /\ \A p : HeadFaults(p)' = HeadFaults(p)
         /\ \A p, n : EntryFaults(p, n)' = EntryFaults(p, n)
<1>1. Level' = Level BY DEF Level, Nested
<1>2. Walked' = Walked BY DEF Walked
<1>3. \A p : HeadFaults(p)' = HeadFaults(p) BY DEF HeadFaults
<1>4. \A p, n : EntryFaults(p, n)' = EntryFaults(p, n) BY DEF EntryFaults, FaultyEntry
<1>5. QED BY <1>1, <1>2, <1>3, <1>4

LEMMA TopFacts ==
  ASSUME IInv, stack # <<>>
  PROVE  /\ Proper /\ maxDepth \in Int
         /\ Top \in Frame /\ Top \in Calls /\ Calls = Waiting \cup {Top} /\ Calls \subseteq Frame
         /\ NodeOf(Top) \in Level[Top.depth] /\ Top.depth \in Walked /\ Top.depth \in Nat
         /\ NodeOf(Top).cat = Top.cat /\ NodeOf(Top).path = Top.path
         /\ Top.path \in Seq(Nat \ {0}) /\ Len(Top.path) = Top.depth /\ Top.cat \in DOMAIN doc
         /\ doc[Top.cat] \in Catalog /\ Entries \in Seq(Entry)
         /\ DOMAIN Entries = 1..Len(Entries) /\ Len(Entries) \in Nat
         /\ \A k \in DOMAIN Entries : k \in Nat /\ k >= 1 /\ Entries[k] \in Entry
<1>1. Proper /\ maxDepth \in Int
  BY DocumentsAssumption, LimitsAssumption DEF IInv, TypeOK, Proper
<1>2. stack \in Seq(Frame) BY DEF IInv, TypeOK
<1>3. Top \in Frame /\ Range(stack) \subseteq Frame /\ Range(stack) = Range(Below) \cup {Top}
  <2>1. stack # <<>> /\ stack[1] \in Frame BY <1>2, EmptySeq
  <2>2. QED BY <1>2, <2>1, PushAndPop DEF Top, Below
<1>4. Top \in Calls /\ Calls = Waiting \cup {Top} /\ Calls \subseteq Frame BY <1>3 DEF Calls, Waiting
<1>5. NodeOf(Top) \in Level[Top.depth] /\ Top.depth \in Walked BY <1>4 DEF IInv, CallsAreCatalogs
<1>6. Top.depth \in Nat BY <1>5 DEF Walked
<1>7. NodeOf(Top).cat = Top.cat /\ NodeOf(Top).path = Top.path BY DEF NodeOf
<1>8. Top.path \in Seq(Nat \ {0}) /\ Len(Top.path) = Top.depth /\ Top.cat \in DOMAIN doc
  BY <1>1, <1>5, <1>6, <1>7, NodeFacts
<1>9. /\ doc[Top.cat] \in Catalog /\ Entries \in Seq(Entry)
      /\ DOMAIN Entries = 1..Len(Entries) /\ Len(Entries) \in Nat
      /\ \A k \in DOMAIN Entries : k \in Nat /\ k >= 1 /\ Entries[k] \in Entry
  BY <1>1, <1>8, ProperFacts, EntryTypes DEF Entries
<1>10. QED BY <1>1, <1>3, <1>4, <1>5, <1>6, <1>7, <1>8, <1>9

LEMMA FramesFit ==
  ASSUME Proper, NEW s \in Seq(Frame),
         \A f \in Range(s) : NodeOf(f) \in Level[f.depth] /\ f.depth \in Walked
  PROVE  \A n \in DOMAIN s : s[n].cat \in DOMAIN doc /\ (s[n].depth = 0 \/ s[n].depth <= maxDepth)
<1> SUFFICES ASSUME NEW n \in DOMAIN s
             PROVE  s[n].cat \in DOMAIN doc /\ (s[n].depth = 0 \/ s[n].depth <= maxDepth)
  OBVIOUS
<1>1. s[n] \in Range(s) BY DEF Range
<1> DEFINE f == s[n]
<1> HIDE DEF f
<1>2. NodeOf(f) \in Level[f.depth] /\ f.depth \in Walked BY <1>1 DEF f
<1>3. f.depth \in Nat /\ (f.depth = 0 \/ f.depth <= maxDepth) BY <1>2 DEF Walked
<1>4. NodeOf(f).cat \in DOMAIN doc BY <1>2, <1>3, NodeFacts
<1>5. NodeOf(f).cat = f.cat BY DEF NodeOf
<1>6. QED BY <1>3, <1>4, <1>5 DEF f

(* A place in or below the catalog at a is an entry of it, or beyond one     *)
(* that leads further down.                                                *)
LEMMA WayDown ==
  ASSUME Proper, NEW m \in Nat, NEW a \in Level[m], NEW n \in Nat, NEW p \in Level[n]
  PROVE  /\ Under(p.path, a.path) => m < n /\ p.path[m + 1] \in ChildKeys(a)
         /\ \A k \in Nat \ {0} : Under(Append(p.path, k), a.path) =>
              \/ p = a /\ m = n /\ Append(p.path, k)[m + 1] = k
              \/ m < n /\ Append(p.path, k)[m + 1] \in ChildKeys(a)
<1>1. /\ p.path \in Seq(Nat \ {0}) /\ Len(p.path) = n
      /\ a.path \in Seq(Nat \ {0}) /\ Len(a.path) = m
  BY NodeFacts
<1>2. Under(p.path, a.path) => m < n /\ p.path[m + 1] \in ChildKeys(a)
  BY <1>1, LevelPasses, SMTT(30) DEF LeadsThrough, Under
<1>3. ASSUME NEW k \in Nat \ {0}, Under(Append(p.path, k), a.path)
      PROVE  \/ p = a /\ m = n /\ Append(p.path, k)[m + 1] = k
             \/ m < n /\ Append(p.path, k)[m + 1] \in ChildKeys(a)
  <2> DEFINE x == Append(p.path, k)
  <2>1. /\ Len(x) = n + 1 /\ x[n + 1] = k /\ \A j \in 1..n : x[j] = p.path[j]
    BY <1>1, AppendProperties
  <2>2. x[m + 1] = Append(p.path, k)[m + 1] OBVIOUS
  <2> HIDE DEF x
  <2>3. m < n + 1 /\ \A j \in 1..m : x[j] = a.path[j] BY <1>1, <1>3, <2>1 DEF Under, x
  <2>4. \A j \in 1..m : p.path[j] = a.path[j] BY <2>1, <2>3
  <2>5. CASE m = n
    <3>1. p.path = a.path BY <1>1, <2>4, <2>5, SeqEqual
    <3>2. p = a BY <2>5, <3>1, LevelUnique DEF OnePath
    <3>3. QED BY <2>1, <2>5, <3>2 DEF x
  <2>6. CASE m < n
    <3>1. p.path[m + 1] \in ChildKeys(a) BY <1>1, <1>2, <2>4, <2>6 DEF Under
    <3>2. x[m + 1] = p.path[m + 1]
      <4>1. m + 1 \in 1..n BY <2>6
      <4>2. QED BY <2>1, <4>1
    <3>3. QED BY <2>6, <2>2, <3>1, <3>2
  <2>7. m = n \/ m < n BY <2>3
  <2>8. QED BY <2>5, <2>6, <2>7
<1>4. QED BY <1>2, <1>3

(* The places reported of one thing: its place, if anything is reported. *)
LEMMA AtItsPlace ==
  ASSUME NEW codes, NEW path
  PROVE  {d.path : d \in At(codes, path)} = IF codes = {} THEN {} ELSE {path}
<1>1. \A d \in At(codes, path) : d.path = path BY DEF At
<1>2. codes = {} <=> At(codes, path) = {} BY DEF At
<1> DEFINE D == At(codes, path)
<1> HIDE DEF D
<1>3. (\A d \in D : d.path = path) /\ (codes = {} <=> D = {}) BY <1>1, <1>2 DEF D
<1>4. CASE D = {} BY <1>3, <1>4 DEF D
<1>5. CASE D # {}
  <2>1. {d.path : d \in D} = {path} BY <1>3, <1>5
  <2>2. QED BY <1>3, <1>5, <2>1 DEF D
<1>6. QED BY <1>4, <1>5

LEMMA FaultPlaces ==
  ASSUME Proper, NEW n \in Nat, NEW p \in Level[n], NEW x \in EntryFaults(p, n)
  PROVE  \E k \in DOMAIN doc[p.cat].entries :
           /\ x = Append(p.path, k) /\ FaultyEntry(doc[p.cat].entries[k], n)
           /\ k \in Nat \ {0} /\ x \in Seq(Nat \ {0}) /\ Len(x) = n + 1
<1>1. PICK k \in DOMAIN doc[p.cat].entries : x = Append(p.path, k) /\ FaultyEntry(doc[p.cat].entries[k], n)
  BY DEF EntryFaults
<1>2. p.path \in Seq(Nat \ {0}) /\ Len(p.path) = n /\ p.cat \in DOMAIN doc BY NodeFacts
<1>3. k \in Nat \ {0} BY <1>2, EntryTypes, ProperFacts
<1>4. x \in Seq(Nat \ {0}) /\ Len(x) = n + 1 BY <1>1, <1>2, <1>3, AppendProperties
<1>5. QED BY <1>1, <1>3, <1>4

-----------------------------------------------------------------------------
(* The invariant holds at first, and each step keeps it.                   *)
LEMMA InitInv == Init => IInv
<1> SUFFICES ASSUME Init PROVE IInv OBVIOUS
<1> DEFINE f == [cat |-> Len(doc), path |-> <<>>, depth |-> 0, next |-> 0]
<1>1. doc \in Documents /\ maxDepth \in Limits /\ stack = <<f>> /\ errors = {} /\ warnings = {} /\ result = None
  BY DEF Init
<1>2. Proper /\ IsDocument(doc) BY <1>1, DocumentsAssumption DEF Proper
<1>3. f \in Frame BY <1>2, ProperFacts DEF Frame, Path
<1>4. Calls = {f} /\ stack \in Seq(Frame)
  <2> HIDE DEF f
  <2>1. QED BY <1>1, <1>3 DEF Calls, Range
<1>5. NodeOf(f) \in Level[0] BY <1>2, ProperFacts, LevelDef DEF NodeOf
<1>6. CallsAreCatalogs BY <1>4, <1>5 DEF CallsAreCatalogs, Walked
<1>7. TypeOK
  <2>1. \A n \in DOMAIN stack : /\ stack[n].cat \in DOMAIN doc
                                /\ (stack[n].depth = 0 \/ stack[n].depth <= maxDepth)
    BY <1>2, <1>4, <1>6, FramesFit DEF CallsAreCatalogs, Calls
  <2>2. QED BY <1>1, <1>2, <1>4, <2>1 DEF TypeOK
<1>8. Reported = {} BY <1>1 DEF Reported
<1>9. FaultsAreReported
  <2> SUFFICES ASSUME NEW n \in Walked, NEW p \in Level[n]
               PROVE  /\ HeadDue(p.path) \/ Due(p.path)
                      /\ \A x \in EntryFaults(p, n) : Due(x)
    BY DEF FaultsAreReported
  <2>1. ASSUME NEW x \in Seq(Nat \ {0}), x # <<>> PROVE Due(x)
    <3>1. f.path = <<>> /\ f.next = 0 /\ Len(<<>>) = 0 OBVIOUS
    <3>2. Len(x) \in Nat /\ Len(x) > 0 /\ x[1] \in Nat BY <2>1
    <3>3. Under(x, <<>>) BY <3>1, <3>2 DEF Under
    <3>4. ToCome(f, x) BY <3>1, <3>2, <3>3 DEF ToCome
    <3>5. QED BY <1>4, <3>4 DEF Due
  <2>2. n \in Nat BY DEF Walked
  <2>3. HeadDue(p.path) \/ Due(p.path)
    <3>1. p.path \in Seq(Nat \ {0}) BY <1>2, <2>2, NodeFacts
    <3>2. CASE p.path = <<>> BY <1>4, <3>2 DEF HeadDue
    <3>3. QED BY <2>1, <3>1, <3>2
  <2>4. ASSUME NEW x \in EntryFaults(p, n) PROVE Due(x)
    <3>1. x \in Seq(Nat \ {0}) /\ Len(x) = n + 1 BY <1>2, <2>2, FaultPlaces
    <3>2. x # <<>> BY <2>2, <3>1
    <3>3. QED BY <2>1, <3>1, <3>2
  <2>5. QED BY <2>3, <2>4
<1>10. QED BY <1>1, <1>6, <1>7, <1>8, <1>9 DEF IInv, ReportedAreFaults, ResultFollows

(* The codes of diagnostics are those of Diagnostic. *)
LEMMA Codes ==
  ASSUME NEW path \in Path
  PROVE  /\ \A c : At(catalogErrors(c), path) \subseteq Diagnostic
         /\ \A es, k : At(uniquenessErrors(es, k), path) \subseteq Diagnostic
         /\ \A x, n : At(entryErrors(x) \cup nestedErrors(x, n), path) \subseteq Diagnostic
         /\ \A x : At(entryWarnings(x), path) \subseteq Diagnostic
<1> DEFINE codes == {"spec-version", "host-member-missing", "entry-member-missing",
                     "entry-artifact-source", "entry-duplicate", "entry-version-conflict",
                     "identifier-not-uri", "timestamp-invalid", "publisher-member-missing",
                     "extension-key-invalid", "policy-urls-invalid",
                     "nested-depth-exceeded", "nested-catalog-invalid", "trust"}
<1>1. \A C \in SUBSET codes : At(C, path) \subseteq Diagnostic BY DEF At, Diagnostic
<1>2. \A c : catalogErrors(c) \in SUBSET codes BY DEF catalogErrors, specVersionErrors, extensionErrors
<1>3. \A es, k : uniquenessErrors(es, k) \in SUBSET codes BY DEF uniquenessErrors
<1>4. \A x, n : entryErrors(x) \cup nestedErrors(x, n) \in SUBSET codes
  BY DEF entryErrors, nestedErrors, extensionErrors, policyErrors
<1>5. \A x : entryWarnings(x) \in SUBSET codes BY DEF entryWarnings
<1> HIDE DEF codes
<1>6. QED BY <1>1, <1>2, <1>3, <1>4, <1>5

(* The head of a catalog reports the faults that it shows. *)
LEMMA HeadReported ==
  ASSUME IInv, ValidateCatalog
  PROVE  Reported' = Reported \cup HeadFaults(NodeOf(Top)) /\ errors' \subseteq Diagnostic
<1> DEFINE c == doc[Top.cat]
           head == At(catalogErrors(c), Top.path)
           at(k) == At(uniquenessErrors(Entries, k), Append(Top.path, k))
           clashing == UNION {at(k) : k \in DOMAIN Entries}
<1>1. stack # <<>> /\ errors' = errors \cup head \cup clashing BY DEF ValidateCatalog
<1>2. /\ c \in Catalog /\ Top.path \in Seq(Nat \ {0}) /\ Top.path \in Path
      /\ \A k \in DOMAIN Entries : k \in Nat /\ k \in Nat \ {0}
  BY <1>1, TopFacts DEF Frame
<1>3. {d.path : d \in head} = IF Conforming(c) THEN {} ELSE {Top.path}
  BY <1>2, AtItsPlace, CatalogErrorsAreFaults
<1>4. \A k \in DOMAIN Entries :
        {d.path : d \in at(k)} = IF Clashes(Entries, k) THEN {Append(Top.path, k)} ELSE {}
  BY <1>2, AtItsPlace, UniquenessErrorsAreClashes
<1>5. head \subseteq Diagnostic BY <1>2, Codes
<1>6. \A k \in DOMAIN Entries : at(k) \subseteq Diagnostic
  <2> TAKE k \in DOMAIN Entries
  <2>1. Append(Top.path, k) \in Path BY <1>2 DEF Path
  <2>2. QED BY <2>1, Codes
<1> HIDE DEF head, at
<1>7. errors' \subseteq Diagnostic
  <2>1. errors \subseteq Diagnostic BY DEF IInv, TypeOK
  <2>2. QED BY <1>1, <1>5, <1>6, <2>1
<1>8. {d.path : d \in clashing} = {Append(Top.path, k) : k \in {j \in DOMAIN Entries : Clashes(Entries, j)}}
  <2>1. {d.path : d \in clashing} = UNION {{d.path : d \in at(k)} : k \in DOMAIN Entries} OBVIOUS
  <2>2. QED BY <1>4, <2>1
<1> HIDE DEF clashing
<1>9. Reported' = Reported \cup {d.path : d \in head} \cup {d.path : d \in clashing}
  BY <1>1 DEF Reported
<1>10. HeadFaults(NodeOf(Top)) = {d.path : d \in head} \cup {d.path : d \in clashing}
  BY <1>3, <1>8 DEF HeadFaults, NodeOf, Entries
<1>11. QED BY <1>7, <1>9, <1>10

(* An entry reports the faults it has by itself. *)
LEMMA EntryReported ==
  ASSUME IInv, ValidateEntry
  PROVE  /\ Reported' = Reported \cup IF FaultyEntry(Entries[Top.next], Top.depth)
                                     THEN {Append(Top.path, Top.next)} ELSE {}
         /\ errors' \subseteq Diagnostic /\ warnings' \subseteq Diagnostic
<1> DEFINE x == Entries[Top.next]
           path == Append(Top.path, Top.next)
           new == At(entryErrors(x) \cup nestedErrors(x, Top.depth), path)
           odd == At(entryWarnings(x), path)
<1>1. stack # <<>> /\ Top.next \in DOMAIN Entries /\ errors' = errors \cup new /\ warnings' = warnings \cup odd
  BY DEF ValidateEntry
<1>2. x \in Entry /\ path \in Path BY <1>1, TopFacts DEF Frame, Path
<1>3. {d.path : d \in new} = IF FaultyEntry(x, Top.depth) THEN {path} ELSE {}
  BY <1>2, AtItsPlace, EntryOrNestedErrors
<1>4. new \subseteq Diagnostic /\ odd \subseteq Diagnostic BY <1>2, Codes
<1>5. errors \subseteq Diagnostic /\ warnings \subseteq Diagnostic BY DEF IInv, TypeOK
<1> HIDE DEF new, odd
<1>6. Reported' = Reported \cup {d.path : d \in new} BY <1>1 DEF Reported
<1>7. QED BY <1>1, <1>3, <1>4, <1>5, <1>6

(* What is left to show of a step: that the calls after it are of catalogs, *)
(* that what is newly reported is a fault, and that no fault is passed by. *)
KeepsCalls == \A f \in Calls' : NodeOf(f) \in Level[f.depth] /\ f.depth \in Walked

KeepsFaults ==
  \A x \in Reported' : \E n \in Walked : \E p \in Level[n] : x \in HeadFaults(p) \cup EntryFaults(p, n)

PassesNone ==
  \A n \in Walked : \A p \in Level[n] :
    /\ HeadFaults(p) \subseteq Reported' \/ HeadDue(p.path)' \/ Due(p.path)'
    /\ \A x \in EntryFaults(p, n) : x \in Reported' \/ Due(x)'

LEMMA StepKeeps ==
  ASSUME IInv, UNCHANGED <<doc, maxDepth, result>>, result = None,
         stack' \in Seq(Frame), errors' \subseteq Diagnostic, warnings' \subseteq Diagnostic,
         KeepsCalls, KeepsFaults, PassesNone
  PROVE  IInv'
<1>1. Level' = Level /\ Walked' = Walked
      /\ (\A p : HeadFaults(p)' = HeadFaults(p)) /\ (\A p, n : EntryFaults(p, n)' = EntryFaults(p, n))
  BY Steady
<1>2. Proper BY DocumentsAssumption DEF IInv, Proper
<1>3. CallsAreCatalogs'
  <2>1. CallsAreCatalogs' = \A f \in Calls' : NodeOf(f) \in Level'[f.depth] /\ f.depth \in Walked'
    BY DEF CallsAreCatalogs, NodeOf
  <2>2. QED BY <1>1, <2>1 DEF KeepsCalls
<1>4. ReportedAreFaults' BY <1>1 DEF ReportedAreFaults, KeepsFaults
<1>5. FaultsAreReported' BY <1>1 DEF FaultsAreReported, PassesNone
<1>6. TypeOK'
  <2>1. \A n \in DOMAIN stack' : /\ stack'[n].cat \in DOMAIN doc
                                 /\ (stack'[n].depth = 0 \/ stack'[n].depth <= maxDepth)
    BY <1>2, FramesFit DEF KeepsCalls, Calls
  <2>2. IsDocument(doc) /\ maxDepth \in Limits BY DEF IInv, TypeOK
  <2>3. QED BY <2>1, <2>2 DEF TypeOK, IsDocument
<1>7. ResultFollows' BY DEF ResultFollows
<1>8. QED BY <1>3, <1>4, <1>5, <1>6, <1>7 DEF IInv

(* The top call, one entry further. *)
LEMMA ProceedFacts ==
  ASSUME IInv, stack # <<>>
  PROVE  /\ Proceed \in Frame /\ Proceed.path = Top.path /\ Proceed.depth = Top.depth
         /\ Proceed.cat = Top.cat /\ Proceed.next = Top.next + 1
         /\ NodeOf(Proceed) = NodeOf(Top) /\ Top.next \in Nat
<1> DEFINE t == Top
<1>1. t \in Frame BY TopFacts
<1> HIDE DEF t
<1> DEFINE u == [t EXCEPT !.next = @ + 1]
<1>2. /\ u \in Frame /\ u.path = t.path /\ u.depth = t.depth /\ u.cat = t.cat /\ u.next = t.next + 1
      /\ t.next \in Nat
  BY <1>1 DEF Frame
<1>3. u = Proceed BY DEF Proceed, t
<1> HIDE DEF u
<1>4. NodeOf(u) = NodeOf(t) BY <1>2 DEF NodeOf
<1>5. QED BY <1>2, <1>3, <1>4 DEF t

(* The stack after a step. *)
LEMMA StackMoves ==
  ASSUME IInv, stack # <<>>, NEW e \in Frame, NEW f \in Frame
  PROVE  /\ Below \in Seq(Frame)
         /\ Append(Below, e) \o <<>> = Append(Below, e)
         /\ Append(Below, e) \in Seq(Frame) /\ Range(Append(Below, e)) = Waiting \cup {e}
         /\ Append(Below, e) \o <<f>> \in Seq(Frame)
         /\ Range(Append(Below, e) \o <<f>>) = Waiting \cup {e, f}
<1>1. stack \in Seq(Frame) BY DEF IInv, TypeOK
<1>2. QED BY <1>1, PushAndPop DEF Below, Waiting

LEMMA ValidateCatalogKeeps ==
  ASSUME IInv, ValidateCatalog
  PROVE  IInv'
<1>1. stack # <<>> /\ Top.next = 0 /\ stack' = Append(Below, Proceed) BY DEF ValidateCatalog
<1>2. UNCHANGED <<doc, maxDepth, result>> /\ warnings' = warnings BY DEF ValidateCatalog
<1>3. result = None /\ stack \in Seq(Frame) /\ warnings \subseteq Diagnostic
  BY <1>1 DEF IInv, ResultFollows, TypeOK
<1>4. /\ Proper /\ Calls = Waiting \cup {Top} /\ Calls \subseteq Frame
      /\ NodeOf(Top) \in Level[Top.depth] /\ Top.depth \in Walked /\ Top.depth \in Nat
      /\ NodeOf(Top).path = Top.path /\ Top.path \in Seq(Nat \ {0}) /\ Len(Top.path) = Top.depth
  BY <1>1, TopFacts
<1>5. /\ Proceed \in Frame /\ Proceed.path = Top.path /\ Proceed.depth = Top.depth
      /\ Proceed.next = 1 /\ NodeOf(Proceed) = NodeOf(Top)
  BY <1>1, ProceedFacts
<1>6. stack' \in Seq(Frame) /\ Calls' = Waiting \cup {Proceed}
  <2>1. Append(Below, Proceed) \in Seq(Frame) /\ Range(Append(Below, Proceed)) = Waiting \cup {Proceed}
    BY <1>1, <1>5, StackMoves
  <2>2. QED BY <1>1, <2>1 DEF Calls
<1>7. Reported' = Reported \cup HeadFaults(NodeOf(Top)) /\ errors' \subseteq Diagnostic
  BY HeadReported
<1>8. KeepsCalls
  BY <1>4, <1>5, <1>6 DEF KeepsCalls, IInv, CallsAreCatalogs
<1>9. KeepsFaults
  BY <1>4, <1>7 DEF KeepsFaults, IInv, ReportedAreFaults
<1>10. PassesNone
  <2> SUFFICES ASSUME NEW n \in Walked, NEW p \in Level[n]
               PROVE  /\ HeadFaults(p) \subseteq Reported' \/ HeadDue(p.path)' \/ Due(p.path)'
                      /\ \A x \in EntryFaults(p, n) : x \in Reported' \/ Due(x)'
    BY DEF PassesNone
  <2>1. n \in Nat /\ p.path \in Seq(Nat \ {0}) /\ Len(p.path) = n BY <1>4, NodeFacts DEF Walked
  <2>2. ASSUME NEW x \in Seq(Nat \ {0}), Due(x) PROVE Due(x)'
    <3>1. PICK f \in Calls : ToCome(f, x) BY <2>2 DEF Due
    <3>2. CASE f \in Waiting BY <1>6, <3>1, <3>2 DEF Due
    <3>3. CASE f = Top
      <4>1. Under(x, Top.path) BY <3>1, <3>3 DEF ToCome
      <4>2. Len(Top.path) + 1 \in 1..Len(x) BY <1>4, <4>1 DEF Under
      <4>3. x[Len(Top.path) + 1] \in Nat \ {0} BY <4>2
      <4>4. ToCome(Proceed, x) BY <1>5, <4>1, <4>3 DEF ToCome
      <4>5. QED BY <1>6, <4>4 DEF Due
    <3>4. QED BY <1>4, <3>1, <3>2, <3>3
  <2>3. HeadFaults(p) \subseteq Reported \/ HeadDue(p.path) \/ Due(p.path)
    BY DEF IInv, FaultsAreReported
  <2>4. ASSUME HeadDue(p.path) PROVE HeadDue(p.path)' \/ HeadFaults(p) \subseteq Reported'
    <3>1. PICK f \in Calls : p.path = f.path /\ f.next = 0 BY <2>4 DEF HeadDue
    <3>2. CASE f \in Waiting BY <1>6, <3>1, <3>2 DEF HeadDue
    <3>3. CASE f = Top
      <4>1. n = Top.depth BY <1>4, <2>1, <3>1, <3>3
      <4>2. p = NodeOf(Top) BY <1>4, <3>1, <3>3, <4>1, LevelUnique DEF OnePath
      <4>3. QED BY <1>7, <4>2
    <3>4. QED BY <1>4, <3>1, <3>2, <3>3
  <2>5. ASSUME NEW x \in EntryFaults(p, n) PROVE x \in Reported' \/ Due(x)'
    <3>1. x \in Reported \/ Due(x) BY DEF IInv, FaultsAreReported
    <3>2. x \in Seq(Nat \ {0}) BY <1>4, <2>1, FaultPlaces
    <3>3. QED BY <1>7, <2>2, <3>1, <3>2
  <2>6. HeadFaults(p) \subseteq Reported' \/ HeadDue(p.path)' \/ Due(p.path)'
    BY <1>7, <2>1, <2>2, <2>3, <2>4
  <2>7. QED BY <2>5, <2>6
<1>11. QED BY <1>2, <1>3, <1>6, <1>7, <1>8, <1>9, <1>10, StepKeeps

LEMMA ValidateEntryKeeps ==
  ASSUME IInv, ValidateEntry
  PROVE  IInv'
<1> DEFINE i == Top.next
           m == Top.depth
           a == NodeOf(Top)
           x0 == Entries[i]
           path == Append(Top.path, i)
           callee == [cat |-> x0.data, path |-> path, depth |-> m + 1, next |-> 0]
<1>1. /\ stack # <<>> /\ i \in DOMAIN Entries
      /\ stack' = Append(Below, Proceed) \o IF descends(x0, m) THEN <<callee>> ELSE <<>>
  BY DEF ValidateEntry
<1>2. UNCHANGED <<doc, maxDepth, result>> BY DEF ValidateEntry
<1>3. result = None BY <1>1 DEF IInv, ResultFollows
<1>4. /\ Proper /\ maxDepth \in Int /\ Calls = Waiting \cup {Top}
      /\ a \in Level[m] /\ m \in Walked /\ m \in Nat
      /\ a.cat = Top.cat /\ a.path = Top.path /\ Top.path \in Seq(Nat \ {0}) /\ Len(Top.path) = m
      /\ i \in Nat \ {0} /\ x0 \in Entry
  BY <1>1, TopFacts
<1>5. /\ Proceed \in Frame /\ Proceed.path = Top.path /\ Proceed.depth = m
      /\ Proceed.next = i + 1 /\ NodeOf(Proceed) = a
  BY <1>1, ProceedFacts
<1>6. path \in Seq(Nat \ {0}) /\ path \in Path /\ Len(path) = m + 1 /\ path[m + 1] = i
      /\ \A j \in 1..m : path[j] = Top.path[j]
  <2>1. Top.path \in Path BY <1>1, TopFacts DEF Frame
  <2>2. path \in Path BY <1>4, <2>1 DEF Path
  <2>3. QED BY <1>4, <2>2, AppendProperties
<1>7. Reported' = Reported \cup (IF FaultyEntry(x0, m) THEN {path} ELSE {})
      /\ errors' \subseteq Diagnostic /\ warnings' \subseteq Diagnostic
  BY EntryReported
<1>8. doc[a.cat].entries = Entries BY <1>4 DEF Entries
<1>9. i \in ChildKeys(a) <=> IsNestedCatalog(x0) /\ x0.data \in DOMAIN doc
  BY <1>1, <1>8 DEF ChildKeys, Nested
<1>10. /\ callee.path = path /\ callee.depth = m + 1 /\ callee.next = 0
       /\ NodeOf(callee) = [cat |-> x0.data, path |-> path]
  BY DEF NodeOf
<1>11. ASSUME descends(x0, m)
       PROVE  callee \in Frame /\ NodeOf(callee) \in Level[m + 1] /\ m + 1 \in Walked
  <2>1. IsNestedCatalog(x0) /\ m < maxDepth /\ x0.data \in DOMAIN doc BY <1>11 DEF descends
  <2>2. x0.data \in Nat BY <1>4, <2>1, ProperFacts
  <2>3. callee \in Frame BY <1>4, <1>6, <2>2 DEF Frame
  <2>4. NodeOf(callee) = Child(a, i) BY <1>4, <1>8, <1>10 DEF Child
  <2>5. NodeOf(callee) \in Level[m + 1] BY <1>4, <1>9, <2>1, <2>4, LevelStep
  <2>6. m + 1 \in Walked BY <1>4, <2>1 DEF Walked
  <2>7. QED BY <2>3, <2>5, <2>6
<1>12. path = Append(a.path, i) BY <1>4
<1> HIDE DEF i, m, a, x0, path, callee
<1>13. /\ stack' \in Seq(Frame) /\ Waiting \cup {Proceed} \subseteq Calls'
       /\ Calls' \subseteq Waiting \cup {Proceed, callee}
       /\ callee \in Calls' => descends(x0, m) \/ callee \in Waiting \cup {Proceed}
       /\ descends(x0, m) => callee \in Calls'
  <2>1. CASE descends(x0, m)
    <3>1. stack' = Append(Below, Proceed) \o <<callee>> BY <1>1, <2>1
    <3>2. /\ Append(Below, Proceed) \o <<callee>> \in Seq(Frame)
          /\ Range(Append(Below, Proceed) \o <<callee>>) = Waiting \cup {Proceed, callee}
      BY <1>1, <1>5, <1>11, <2>1, StackMoves
    <3>3. QED BY <2>1, <3>1, <3>2 DEF Calls
  <2>2. CASE ~descends(x0, m)
    <3>1. stack' = Append(Below, Proceed) \o <<>> BY <1>1, <2>2
    <3>2. /\ Append(Below, Proceed) \o <<>> \in Seq(Frame)
          /\ Range(Append(Below, Proceed) \o <<>>) = Waiting \cup {Proceed}
      BY <1>1, <1>5, StackMoves
    <3>3. QED BY <2>2, <3>1, <3>2 DEF Calls
  <2>3. QED BY <2>1, <2>2
<1>14. KeepsCalls
  <2> SUFFICES ASSUME NEW f \in Calls' PROVE NodeOf(f) \in Level[f.depth] /\ f.depth \in Walked
    BY DEF KeepsCalls
  <2>1. CASE f \in Waiting BY <1>4, <2>1 DEF IInv, CallsAreCatalogs
  <2>2. CASE f = Proceed BY <1>4, <1>5, <2>2
  <2>3. CASE f = callee /\ descends(x0, m) BY <1>10, <1>11, <2>3
  <2>4. QED BY <1>13, <2>1, <2>2, <2>3
<1>15. KeepsFaults
  <2> SUFFICES ASSUME NEW x \in Reported'
               PROVE  \E n \in Walked : \E p \in Level[n] : x \in HeadFaults(p) \cup EntryFaults(p, n)
    BY DEF KeepsFaults
  <2>1. CASE x \in Reported BY <2>1 DEF IInv, ReportedAreFaults
  <2>2. CASE FaultyEntry(x0, m) /\ x = path
    <3>1. x0 = doc[a.cat].entries[i] /\ i \in DOMAIN doc[a.cat].entries BY <1>1, <1>8 DEF x0
    <3>2. path \in EntryFaults(a, m) BY <1>12, <2>2, <3>1 DEF EntryFaults
    <3>3. QED BY <1>4, <2>2, <3>2
  <2>3. QED BY <1>7, <2>1, <2>2
<1>16. PassesNone
  <2> SUFFICES ASSUME NEW n \in Walked, NEW p \in Level[n]
               PROVE  /\ HeadFaults(p) \subseteq Reported' \/ HeadDue(p.path)' \/ Due(p.path)'
                      /\ \A x \in EntryFaults(p, n) : x \in Reported' \/ Due(x)'
    BY DEF PassesNone
  <2>1. /\ n \in Nat /\ (n = 0 \/ n <= maxDepth)
        /\ p.path \in Seq(Nat \ {0}) /\ Len(p.path) = n /\ p.cat \in DOMAIN doc
    BY <1>4, NodeFacts DEF Walked
  <2>2. ASSUME m < n, i \in ChildKeys(a) PROVE callee \in Calls'
    <3>1. m < maxDepth BY <1>4, <2>1, <2>2
    <3>2. descends(x0, m) BY <1>9, <2>2, <3>1 DEF descends
    <3>3. QED BY <1>13, <3>2
  \* What was due is still due, or in or below the entry that was validated.
  <2>3. ASSUME NEW x \in Seq(Nat \ {0}), Due(x)
        PROVE  Due(x)' \/ (Under(x, a.path) /\ m + 1 <= Len(x) /\ x[m + 1] = i)
    <3>1. PICK f \in Calls : ToCome(f, x) BY <2>3 DEF Due
    <3>2. CASE f \in Waiting BY <1>13, <3>1, <3>2 DEF Due
    <3>3. CASE f = Top
      <4>1. Under(x, a.path) /\ x[m + 1] >= i BY <1>4, <3>1, <3>3 DEF ToCome, i
      <4>2. m + 1 \in 1..Len(x) BY <1>4, <4>1 DEF Under
      <4>3. x[m + 1] \in Nat \ {0} /\ m + 1 <= Len(x) BY <4>2
      <4>4. CASE x[m + 1] >= i + 1
        <5>1. ToCome(Proceed, x) BY <1>4, <1>5, <4>1, <4>4 DEF ToCome
        <5>2. QED BY <1>13, <5>1 DEF Due
      <4>5. QED BY <1>4, <4>1, <4>3, <4>4
    <3>4. QED BY <1>4, <3>1, <3>2, <3>3
  <2>4. ASSUME NEW x \in Seq(Nat \ {0}), Under(x, a.path), Len(x) > m + 1, x[m + 1] = i, callee \in Calls'
        PROVE  Due(x)'
    <3>1. \A j \in 1..(m + 1) : x[j] = path[j]
      <4>1. \A j \in 1..m : x[j] = path[j] BY <1>4, <1>6, <2>4 DEF Under
      <4>2. x[m + 1] = path[m + 1] BY <1>6, <2>4
      <4>3. \A j \in 1..(m + 1) : j \in 1..m \/ j = m + 1 BY <1>4
      <4>4. QED BY <4>1, <4>2, <4>3
    <3>2. m + 2 \in 1..Len(x) BY <1>4, <2>4
    <3>3. x[m + 2] \in Nat \ {0} BY <3>2
    <3>4. Under(x, path) BY <1>4, <1>6, <2>4, <3>1 DEF Under
    <3>5. (m + 1) + 1 = m + 2 BY <1>4
    <3>6. ToCome(callee, x) BY <1>6, <1>10, <3>3, <3>4, <3>5 DEF ToCome
    <3>7. QED BY <2>4, <3>6 DEF Due
  <2>5. ASSUME NEW x \in EntryFaults(p, n) PROVE x \in Reported' \/ Due(x)'
    <3>1. PICK k \in DOMAIN doc[p.cat].entries :
            /\ x = Append(p.path, k) /\ FaultyEntry(doc[p.cat].entries[k], n)
            /\ k \in Nat \ {0} /\ x \in Seq(Nat \ {0}) /\ Len(x) = n + 1
      BY <1>4, <2>1, FaultPlaces
    <3>2. CASE x \in Reported BY <1>7, <3>2
    <3>3. CASE Under(x, a.path) /\ m + 1 <= Len(x) /\ x[m + 1] = i
      <4>1. \/ p = a /\ m = n /\ x[m + 1] = k
            \/ m < n /\ x[m + 1] \in ChildKeys(a)
        BY <1>4, <2>1, <3>1, <3>3, WayDown
      <4>2. CASE p = a /\ m = n /\ x[m + 1] = k
        <5>1. k = i /\ x = path BY <1>12, <3>1, <3>3, <4>2
        <5>2. FaultyEntry(x0, m) BY <1>8, <3>1, <4>2, <5>1 DEF x0
        <5>3. QED BY <1>7, <5>1, <5>2
      <4>3. CASE m < n /\ x[m + 1] \in ChildKeys(a)
        <5>1. callee \in Calls' BY <2>2, <3>3, <4>3
        <5>2. Len(x) > m + 1 BY <1>4, <2>1, <3>1, <4>3
        <5>3. QED BY <2>4, <3>1, <3>3, <5>1, <5>2
      <4>4. QED BY <4>1, <4>2, <4>3
    <3>4. x \in Reported \/ Due(x) BY DEF IInv, FaultsAreReported
    <3>5. QED BY <2>3, <3>1, <3>2, <3>3, <3>4
  <2>6. HeadFaults(p) \subseteq Reported' \/ HeadDue(p.path)' \/ Due(p.path)'
    <3>1. CASE HeadFaults(p) \subseteq Reported BY <1>7, <3>1
    <3>2. CASE HeadDue(p.path)
      <4>1. PICK f \in Calls : p.path = f.path /\ f.next = 0 BY <3>2 DEF HeadDue
      <4>2. f # Top BY <1>4, <4>1 DEF i
      <4>3. f \in Calls' BY <1>4, <1>13, <4>2
      <4>4. QED BY <4>1, <4>3 DEF HeadDue
    <3>3. CASE Under(p.path, a.path) /\ m + 1 <= Len(p.path) /\ p.path[m + 1] = i
      <4>1. m < n /\ i \in ChildKeys(a) BY <1>4, <2>1, <3>3, WayDown
      <4>2. callee \in Calls' BY <2>2, <4>1
      <4>3. CASE n = m + 1
        <5>1. \A j \in 1..n : p.path[j] = path[j] BY <1>4, <1>6, <3>3, <4>3 DEF Under
        <5>2. p.path = path BY <1>6, <2>1, <4>3, <5>1, SeqEqual
        <5>3. QED BY <1>10, <4>2, <5>2 DEF HeadDue
      <4>4. CASE n > m + 1 BY <2>1, <2>4, <3>3, <4>2, <4>4
      <4>5. QED BY <1>4, <2>1, <4>1, <4>3, <4>4
    <3>4. HeadFaults(p) \subseteq Reported \/ HeadDue(p.path) \/ Due(p.path)
      BY DEF IInv, FaultsAreReported
    <3>5. QED BY <2>1, <2>3, <3>1, <3>2, <3>3, <3>4
  <2>7. QED BY <2>5, <2>6
<1>17. QED BY <1>2, <1>3, <1>7, <1>13, <1>14, <1>15, <1>16, StepKeeps

LEMMA LeaveCatalogKeeps ==
  ASSUME IInv, LeaveCatalog
  PROVE  IInv'
<1> DEFINE m == Top.depth
           a == NodeOf(Top)
<1>1. stack # <<>> /\ Top.next > Len(Entries) /\ stack' = Below BY DEF LeaveCatalog
<1>2. UNCHANGED <<doc, maxDepth, errors, warnings, result>> BY DEF LeaveCatalog
<1>3. result = None /\ errors \subseteq Diagnostic /\ warnings \subseteq Diagnostic
  BY <1>1 DEF IInv, ResultFollows, TypeOK
<1>4. /\ Proper /\ Calls = Waiting \cup {Top} /\ Top \in Frame
      /\ a \in Level[m] /\ m \in Nat
      /\ a.cat = Top.cat /\ a.path = Top.path /\ Top.path \in Seq(Nat \ {0}) /\ Len(Top.path) = m
      /\ DOMAIN Entries = 1..Len(Entries) /\ Len(Entries) \in Nat
  BY <1>1, TopFacts
<1>5. stack' \in Seq(Frame) /\ Calls' = Waiting
  <2>1. Below \in Seq(Frame) BY <1>1, <1>4, StackMoves
  <2>2. QED BY <1>1, <2>1 DEF Calls, Waiting
<1>6. Reported' = Reported BY <1>2 DEF Reported
<1>7. KeepsCalls BY <1>4, <1>5 DEF KeepsCalls, IInv, CallsAreCatalogs
<1>8. KeepsFaults BY <1>6 DEF KeepsFaults, IInv, ReportedAreFaults
<1>9. doc[a.cat].entries = Entries BY <1>4 DEF Entries
<1>10. ChildKeys(a) \subseteq DOMAIN Entries BY <1>9 DEF ChildKeys, Nested
<1>11. \A k \in DOMAIN Entries : k < Top.next
  <2>1. Top.next \in Nat BY <1>4 DEF Frame
  <2>2. QED BY <1>1, <1>4, <2>1
<1> HIDE DEF m, a
<1>12. PassesNone
  <2> SUFFICES ASSUME NEW n \in Walked, NEW p \in Level[n]
               PROVE  /\ HeadFaults(p) \subseteq Reported' \/ HeadDue(p.path)' \/ Due(p.path)'
                      /\ \A x \in EntryFaults(p, n) : x \in Reported' \/ Due(x)'
    BY DEF PassesNone
  <2>1. n \in Nat /\ p.path \in Seq(Nat \ {0}) /\ Len(p.path) = n BY <1>4, NodeFacts DEF Walked
  \* What was due to the call that ends would be beyond its last entry.
  <2>2. ASSUME NEW x, Due(x), Under(x, a.path) => x[m + 1] \in DOMAIN Entries PROVE Due(x)'
    <3>1. PICK f \in Calls : ToCome(f, x) BY <2>2 DEF Due
    <3>2. f # Top
      <4> SUFFICES ASSUME f = Top PROVE FALSE OBVIOUS
      <4>1. Under(x, a.path) /\ x[m + 1] >= Top.next BY <1>4, <3>1 DEF ToCome
      <4>2. x[m + 1] \in DOMAIN Entries /\ x[m + 1] < Top.next BY <1>11, <2>2, <4>1
      <4>3. x[m + 1] \in Nat /\ Top.next \in Nat BY <1>4, <4>2 DEF Frame
      <4>4. QED BY <4>1, <4>2, <4>3
    <3>3. QED BY <1>4, <1>5, <3>1, <3>2 DEF Due
  <2>3. ASSUME HeadDue(p.path) PROVE HeadDue(p.path)'
    <3>1. PICK f \in Calls : p.path = f.path /\ f.next = 0 BY <2>3 DEF HeadDue
    <3>2. f # Top BY <1>1, <1>4, <3>1
    <3>3. QED BY <1>4, <1>5, <3>1, <3>2 DEF HeadDue
  <2>4. ASSUME Due(p.path) PROVE Due(p.path)'
    <3>1. Under(p.path, a.path) => p.path[m + 1] \in DOMAIN Entries
      BY <1>4, <1>10, <2>1, WayDown
    <3>2. QED BY <2>2, <2>4, <3>1
  <2>5. ASSUME NEW x \in EntryFaults(p, n) PROVE x \in Reported' \/ Due(x)'
    <3>1. PICK k \in DOMAIN doc[p.cat].entries : x = Append(p.path, k) /\ k \in Nat \ {0}
      BY <1>4, <2>1, FaultPlaces
    <3>2. Under(x, a.path) => x[m + 1] \in DOMAIN Entries
      <4>1. Under(x, a.path) => \/ p = a /\ m = n /\ x[m + 1] = k
                                \/ m < n /\ x[m + 1] \in ChildKeys(a)
        BY <1>4, <2>1, <3>1, WayDown
      <4>2. QED BY <1>9, <1>10, <3>1, <4>1
    <3>3. x \in Reported \/ Due(x) BY DEF IInv, FaultsAreReported
    <3>4. QED BY <1>6, <2>2, <3>2, <3>3
  <2>6. HeadFaults(p) \subseteq Reported \/ HeadDue(p.path) \/ Due(p.path)
    BY DEF IInv, FaultsAreReported
  <2>7. QED BY <1>6, <2>3, <2>4, <2>5, <2>6
<1>13. QED BY <1>2, <1>3, <1>5, <1>7, <1>8, <1>12, StepKeeps

(* Calls and reports that stay as they are keep what the invariant says of them. *)
LEMMA NothingMoves ==
  ASSUME IInv, UNCHANGED <<doc, maxDepth, stack, errors>>
  PROVE  CallsAreCatalogs' /\ ReportedAreFaults' /\ FaultsAreReported'
<1>1. /\ Level' = Level /\ Walked' = Walked
      /\ (\A p : HeadFaults(p)' = HeadFaults(p)) /\ (\A p, n : EntryFaults(p, n)' = EntryFaults(p, n))
  BY Steady
<1>2. Calls' = Calls /\ Reported' = Reported BY DEF Calls, Reported
<1>3. CallsAreCatalogs'
  <2>1. CallsAreCatalogs' = \A f \in Calls' : NodeOf(f) \in Level'[f.depth] /\ f.depth \in Walked'
    BY DEF CallsAreCatalogs, NodeOf
  <2>2. QED BY <1>1, <1>2, <2>1 DEF IInv, CallsAreCatalogs
<1>4. ReportedAreFaults' BY <1>1, <1>2 DEF IInv, ReportedAreFaults
<1>5. FaultsAreReported' BY <1>1, <1>2 DEF IInv, FaultsAreReported, HeadDue, Due
<1>6. QED BY <1>3, <1>4, <1>5

LEMMA ConcludeKeeps ==
  ASSUME IInv, Conclude
  PROVE  IInv'
<1>1. /\ stack = <<>> /\ UNCHANGED <<doc, maxDepth, stack, errors, warnings>>
      /\ result' = [isValid |-> errors = {},
                    level |-> IF errors # {} \/ doc[Len(doc)].host = "absent"
                              THEN "minimal" ELSE "discoverable"]
  BY DEF Conclude
<1>2. result' \in Result /\ result'.isValid = (errors = {}) BY <1>1 DEF Result
<1>3. TypeOK'
  <2>1. TypeOK BY DEF IInv
  <2>2. QED BY <1>1, <1>2, <2>1 DEF TypeOK, IsDocument
<1>4. CallsAreCatalogs' /\ ReportedAreFaults' /\ FaultsAreReported' BY <1>1, NothingMoves
<1>5. ResultFollows' BY <1>1, <1>2 DEF ResultFollows
<1>6. QED BY <1>1, <1>3, <1>4, <1>5 DEF IInv

LEMMA NextInv ==
  ASSUME IInv, [Next]_vars
  PROVE  IInv'
<1>1. CASE ValidateCatalog BY <1>1, ValidateCatalogKeeps
<1>2. CASE ValidateEntry BY <1>2, ValidateEntryKeeps
<1>3. CASE LeaveCatalog BY <1>3, LeaveCatalogKeeps
<1>4. CASE Conclude BY <1>4, ConcludeKeeps
<1>5. CASE UNCHANGED vars
  <2>1. UNCHANGED <<doc, maxDepth, stack, errors, warnings, result>> BY <1>5 DEF vars
  <2>2. CallsAreCatalogs' /\ ReportedAreFaults' /\ FaultsAreReported' BY <2>1, NothingMoves
  <2>3. TypeOK' BY <2>1 DEF IInv, TypeOK, IsDocument
  <2>4. ResultFollows' BY <2>1 DEF IInv, ResultFollows
  <2>5. QED BY <2>1, <2>2, <2>3, <2>4 DEF IInv
<1>6. QED BY <1>1, <1>2, <1>3, <1>4, <1>5 DEF Next

LEMMA InvariantHolds == Spec => []IInv
BY InitInv, NextInv, PTL DEF Spec

-----------------------------------------------------------------------------
(* Every variable stays in its set, and the walk within its limit.         *)
THEOREM TypesHold == Spec => []TypeOK
<1>1. IInv => TypeOK BY DEF IInv
<1>2. QED BY <1>1, InvariantHolds, PTL

(* Once the walk is over there is nothing left to come to. *)
LEMMA AllIsReported ==
  ASSUME IInv, result # None
  PROVE  Reported = UNION {UNION {HeadFaults(p) \cup EntryFaults(p, n) : p \in Level[n]} : n \in Walked}
<1>1. stack = <<>> BY DEF IInv, ResultFollows
<1>2. Calls = {} BY <1>1 DEF Calls, Range
<1>3. \A n \in Walked : \A p \in Level[n] : HeadFaults(p) \cup EntryFaults(p, n) \subseteq Reported
  BY <1>2 DEF IInv, FaultsAreReported, HeadDue, Due
<1>4. \A x \in Reported : \E n \in Walked : \E p \in Level[n] : x \in HeadFaults(p) \cup EntryFaults(p, n)
  BY DEF IInv, ReportedAreFaults
<1> HIDE DEF Calls
<1>5. QED BY <1>3, <1>4

(* There are only as many levels as there are catalogs. *)
LEMMA LevelsAreFew ==
  ASSUME Proper, NEW n \in Nat, NEW p \in Level[n]
  PROVE  n \in Levels
<1>1. p.cat + n <= Len(doc) /\ p.cat \in Nat /\ Len(doc) \in Nat BY NodeFacts, ProperFacts
<1>2. QED BY <1>1 DEF Levels

(* A diagnostic names each place that is at fault and no other, however the *)
(* catalogs of a document are nested: validateCatalog, validateEntry and    *)
(* validateNestedCatalog come to every entry of every catalog within the    *)
(* limit, and to nothing else (validate.go:169-329).                        *)
THEOREM FaultsAreLocated == Spec => []DiagnosticsLocateFaults
<1>1. ASSUME IInv PROVE DiagnosticsLocateFaults
  <2> SUFFICES ASSUME result # None PROVE DiagnosticsLocateFaults BY DEF DiagnosticsLocateFaults
  <2>1. Proper BY <1>1, DocumentsAssumption DEF IInv, Proper
  <2> DEFINE at(p, n) == (IF Conforming(doc[p.cat]) THEN {} ELSE {p.path}) \cup
                         {Append(p.path, k) : k \in
                            {k \in DOMAIN doc[p.cat].entries :
                               LET es == doc[p.cat].entries IN
                               \/ ~ConformingEntry(es[k])
                               \/ \E j \in 1..(k - 1) : Clash(es[j], es[k])
                               \/ k \in Nested(p) /\ (n >= maxDepth \/ es[k].data = Bad)}}
             faults(p, n) == HeadFaults(p) \cup EntryFaults(p, n)
             within == {l \in Levels : l <= maxDepth \/ l = 0}
  <2>2. \A p, n : at(p, n) = faults(p, n)
    BY DEF HeadFaults, EntryFaults, FaultyEntry, Clashes, Nested
  <2>3. Reported = UNION {UNION {faults(p, n) : p \in Level[n]} : n \in Walked}
    BY <1>1, AllIsReported
  <2>4. within \subseteq Walked BY DEF Levels, Walked
  <2>5. \A n \in Walked : n \in within \/ Level[n] = {}
    BY <2>1, LevelsAreFew DEF Walked
  <2> HIDE DEF at, faults, within
  <2>6. UNION {UNION {faults(p, n) : p \in Level[n]} : n \in Walked} =
        UNION {UNION {faults(p, n) : p \in Level[n]} : n \in within}
    BY <2>4, <2>5
  <2>7. Reported = UNION {UNION {at(p, n) : p \in Level[n]} : n \in within}
    BY <2>2, <2>3, <2>6
  <2>8. QED BY <2>7 DEF DiagnosticsLocateFaults, Reported, at, within
<1>2. QED BY <1>1, InvariantHolds, PTL

LEMMA ClashIsMutual == \A x, y : Clash(x, y) <=> Clash(y, x)
BY DEF Clash

(* A document is valid if and only if every part of it is, catalogs beyond  *)
(* the limit included: a valid document has none (validate.go:169-329).     *)
THEOREM ValidThroughout == Spec => []ValidMeansThroughout
<1> DEFINE Good(p, n) ==
             LET es == doc[p.cat].entries IN
             /\ Conforming(doc[p.cat])
             /\ \A k \in DOMAIN es : /\ ConformingEntry(es[k])
                                     /\ \A j \in DOMAIN es \ {k} : ~Clash(es[j], es[k])
             /\ \A k \in Nested(p) : n < maxDepth /\ es[k].data # Bad
<1>1. ASSUME IInv, result # None
      PROVE  result.isValid <=> \A n \in Levels : \A p \in Level[n] : Good(p, n)
  <2>1. Proper /\ maxDepth \in Int
    BY <1>1, DocumentsAssumption, LimitsAssumption DEF IInv, TypeOK, Proper
  <2>2. result.isValid <=> Reported = {}
    <3>1. result.isValid = (errors = {}) BY <1>1 DEF IInv, ResultFollows
    <3>2. errors = {} <=> Reported = {} BY DEF Reported
    <3>3. QED BY <3>1, <3>2
  <2>3. Reported = {} <=> \A n \in Walked : \A p \in Level[n] : HeadFaults(p) = {} /\ EntryFaults(p, n) = {}
    <3>1. Reported = UNION {UNION {HeadFaults(p) \cup EntryFaults(p, n) : p \in Level[n]} : n \in Walked}
      BY <1>1, AllIsReported
    <3>2. QED BY <3>1
  <2>4. ASSUME NEW n \in Nat, NEW p \in Level[n]
        PROVE  HeadFaults(p) = {} /\ EntryFaults(p, n) = {} <=> Good(p, n)
    <3> DEFINE es == doc[p.cat].entries
    <3>1. DOMAIN es = 1..Len(es) /\ Len(es) \in Nat
      BY <2>1, NodeFacts, EntryTypes, ProperFacts
    <3>2. HeadFaults(p) = {} <=> Conforming(doc[p.cat]) /\ \A k \in DOMAIN es : ~Clashes(es, k)
      BY DEF HeadFaults
    <3>3. EntryFaults(p, n) = {} <=> \A k \in DOMAIN es : ~FaultyEntry(es[k], n) BY DEF EntryFaults
    <3>4. (\A k \in DOMAIN es : ~FaultyEntry(es[k], n)) <=>
            /\ \A k \in DOMAIN es : ConformingEntry(es[k])
            /\ \A k \in Nested(p) : n < maxDepth /\ es[k].data # Bad
      BY <2>1 DEF FaultyEntry, Nested
    <3>5. (\A k \in DOMAIN es : ~Clashes(es, k)) <=>
            \A k \in DOMAIN es : \A j \in DOMAIN es \ {k} : ~Clash(es[j], es[k])
      <4> HIDE DEF es
      <4>1. ASSUME \A k \in DOMAIN es : ~Clashes(es, k), NEW k \in DOMAIN es, NEW j \in DOMAIN es \ {k}
            PROVE  ~Clash(es[j], es[k])
        <5>1. CASE j < k BY <3>1, <4>1, <5>1 DEF Clashes
        <5>2. CASE k < j
          <6>1. ~Clash(es[k], es[j]) BY <3>1, <4>1, <5>2 DEF Clashes
          <6>2. QED BY <6>1, ClashIsMutual
        <5>3. QED BY <3>1, <5>1, <5>2
      <4>2. ASSUME \A k \in DOMAIN es : \A j \in DOMAIN es \ {k} : ~Clash(es[j], es[k]), NEW k \in DOMAIN es
            PROVE  ~Clashes(es, k)
        <5>1. \A j \in 1..(k - 1) : j \in DOMAIN es \ {k} BY <3>1
        <5>2. QED BY <4>2, <5>1 DEF Clashes
      <4>3. QED BY <4>1, <4>2
    <3> HIDE DEF es
    <3>6. Good(p, n) <=> /\ Conforming(doc[p.cat])
                         /\ \A k \in DOMAIN es : ConformingEntry(es[k])
                         /\ \A k \in DOMAIN es : \A j \in DOMAIN es \ {k} : ~Clash(es[j], es[k])
                         /\ \A k \in Nested(p) : n < maxDepth /\ es[k].data # Bad
      BY DEF es
    <3>7. QED BY <3>2, <3>3, <3>4, <3>5, <3>6
  \* A catalog that is too deep is in one whose entry is reported.
  <2>5. ASSUME \A n \in Walked : \A p \in Level[n] : Good(p, n), NEW n \in Nat, n \notin Walked
        PROVE  Level[n] = {}
    <3> DEFINE m == IF maxDepth < 0 THEN 0 ELSE maxDepth
    <3>1. m \in Walked /\ m \in Nat /\ m >= maxDepth /\ m + 1 <= n BY <2>1, <2>5 DEF Walked
    <3> HIDE DEF m
    <3>2. \A p \in Level[m] : Nested(p) = {} BY <2>1, <2>5, <3>1
    <3>3. \A p \in Level[m] : ChildKeys(p) = {} BY <3>2 DEF ChildKeys
    <3>4. Level[m + 1] = {} BY <2>1, <3>1, <3>3, LevelStep
    <3>5. QED BY <2>1, <3>1, <3>4, LevelsEnd
  <2> HIDE DEF Good
  <2>6. (\A n \in Walked : \A p \in Level[n] : Good(p, n)) <=> \A n \in Levels : \A p \in Level[n] : Good(p, n)
    <3>1. \A n \in Levels : n \in Nat BY <2>1, ProperFacts DEF Levels
    <3>2. \A n \in Walked : n \in Nat BY DEF Walked
    <3>3. \A n \in Nat : \A p \in Level[n] : n \in Levels BY <2>1, LevelsAreFew
    <3>4. QED BY <2>5, <3>1, <3>2, <3>3
  <2>7. \A n \in Walked : n \in Nat BY DEF Walked
  <2>8. QED BY <2>2, <2>3, <2>4, <2>6, <2>7
<1>2. IInv => ValidMeansThroughout BY <1>1 DEF ValidMeansThroughout
<1>3. QED BY <1>2, InvariantHolds, PTL

-----------------------------------------------------------------------------
(* Looking entries up.                                                     *)
LEMMA SingletonIndex ==
  ASSUME NEW I, NEW k \in Int, I = {k}
  PROVE  Min(I) = k
<1>1. \A x : (x \in I /\ \A y \in I : x =< y) <=> x = k OBVIOUS
<1>2. QED BY <1>1 DEF Min

(* No entry of a valid document is hidden from a reader by another: each is *)
(* the one that GetByIDAndVersion finds (version.go:15, validate.go:198).   *)
THEOREM EntriesAreFound == Spec => []EveryEntryIsFound
<1>1. ASSUME IInv, ValidMeansThroughout PROVE EveryEntryIsFound
  <2> SUFFICES ASSUME result # None, result.isValid, NEW n \in Levels, NEW p \in Level[n],
                      NEW k \in DOMAIN doc[p.cat].entries
               PROVE  LET es == doc[p.cat].entries IN
                      GetByIDAndVersion(es, es[k].id, es[k].version) = k
    BY DEF EveryEntryIsFound
  <2> DEFINE es == doc[p.cat].entries
             I == {i \in 1..Len(es) : es[i].id = es[k].id /\ es[i].version = es[k].version}
  <2>1. Proper BY <1>1, DocumentsAssumption DEF IInv, Proper
  <2>2. n \in Nat BY <2>1, ProperFacts DEF Levels
  <2>3. DOMAIN es = 1..Len(es) /\ k \in Nat /\ k \in 1..Len(es)
    BY <2>1, <2>2, NodeFacts, EntryTypes, ProperFacts
  <2>4. \A j \in DOMAIN es \ {k} : ~Clash(es[j], es[k]) BY <1>1 DEF ValidMeansThroughout
  <2> HIDE DEF es
  <2>5. I = {k} BY <2>3, <2>4 DEF Clash
  <2>6. GetByIDAndVersion(es, es[k].id, es[k].version) = IF I # {} THEN Min(I) ELSE 0
    BY DEF GetByIDAndVersion, SelectInSeq
  <2> HIDE DEF I
  <2>7. Min(I) = k BY <2>3, <2>5, SingletonIndex
  <2>8. QED BY <2>5, <2>6, <2>7 DEF es
<1>2. QED BY <1>1, InvariantHolds, ValidThroughout, PTL

(* One pass over the numbers to N that keeps the better of each two, where  *)
(* R says which is better, ends with the first of the best in C.            *)
OnePass(best, N, C, R) ==
  /\ best[0] = 0
  /\ \A k \in 1..N :
       LET b == best[k - 1] IN
       /\ k \in C /\ (b = 0 \/ (b \in C /\ <<k, b>> \in R)) => best[k] = k
       /\ k \notin C \/ (b \in C /\ <<k, b>> \notin R) => best[k] = b

FirstOfBest(b, C, R) ==
  /\ C = {} => b = 0
  /\ C # {} => b \in C /\ \A k \in C : <<k, b>> \notin R /\ (k < b => <<b, k>> \in R)

LEMMA OnePassFindsBest ==
  ASSUME NEW N \in Nat, NEW C, C \subseteq 1..N, NEW R, NEW best, OnePass(best, N, C, R),
         \A x, y \in C : <<x, y>> \in R => <<y, x>> \notin R,
         \A x, y, z \in C : <<x, z>> \in R => <<x, y>> \in R \/ <<y, z>> \in R
  PROVE  FirstOfBest(best[N], C, R)
<1> DEFINE T == {k \in Nat : k <= N => FirstOfBest(best[k], C \cap 1..k, R)}
<1>1. FirstOfBest(best[0], C \cap 1..0, R) BY DEF OnePass, FirstOfBest
<1>2. ASSUME NEW k \in Nat, k + 1 <= N, FirstOfBest(best[k], C \cap 1..k, R)
      PROVE  FirstOfBest(best[k + 1], C \cap 1..(k + 1), R)
  <2> DEFINE b == best[k]
             D == C \cap 1..k
             E == C \cap 1..(k + 1)
  <2> SUFFICES FirstOfBest(best[k + 1], E, R) OBVIOUS
  <2>1. /\ k + 1 \in C /\ (b = 0 \/ (b \in C /\ <<k + 1, b>> \in R)) => best[k + 1] = k + 1
        /\ k + 1 \notin C \/ (b \in C /\ <<k + 1, b>> \notin R) => best[k + 1] = b
    <3>1. k + 1 \in 1..N /\ (k + 1) - 1 = k BY <1>2
    <3>2. QED BY <3>1 DEF OnePass
  <2>2. /\ E = D \cup ({k + 1} \cap C) /\ D \subseteq C /\ \A x \in D : x \in Nat /\ x < k + 1 /\ x # 0
    OBVIOUS
  <2>3. FirstOfBest(b, D, R) BY <1>2
  <2> HIDE DEF b, D, E
  <2>4. CASE k + 1 \notin C
    BY <2>1, <2>2, <2>3, <2>4 DEF FirstOfBest
  <2>5. CASE k + 1 \in C /\ D = {}
    <3>1. best[k + 1] = k + 1 /\ E = {k + 1} BY <2>1, <2>2, <2>3, <2>5 DEF FirstOfBest
    <3>2. QED BY <2>5, <3>1 DEF FirstOfBest
  <2>6. CASE k + 1 \in C /\ D # {} /\ <<k + 1, b>> \notin R
    <3>1. b \in D /\ \A x \in D : <<x, b>> \notin R /\ (x < b => <<b, x>> \in R)
      BY <2>3, <2>6 DEF FirstOfBest
    <3>2. best[k + 1] = b /\ E = D \cup {k + 1} /\ ~(k + 1 < b) BY <2>1, <2>2, <2>6, <3>1
    <3>3. QED BY <2>6, <3>1, <3>2 DEF FirstOfBest
  <2>7. CASE k + 1 \in C /\ D # {} /\ <<k + 1, b>> \in R
    <3>1. b \in D /\ \A x \in D : <<x, b>> \notin R BY <2>3, <2>7 DEF FirstOfBest
    <3>2. best[k + 1] = k + 1 /\ E = D \cup {k + 1} BY <2>1, <2>2, <2>7, <3>1
    <3>3. \A x \in D : <<k + 1, x>> \in R /\ <<x, k + 1>> \notin R BY <2>2, <2>7, <3>1
    <3>4. <<k + 1, k + 1>> \notin R BY <2>7
    <3>5. QED BY <3>2, <3>3, <3>4 DEF FirstOfBest
  <2>8. QED BY <2>4, <2>5, <2>6, <2>7
<1> HIDE DEF T
<1>3. 0 \in T BY <1>1 DEF T
<1>4. \A k \in Nat : k \in T => k + 1 \in T BY <1>2 DEF T
<1>5. N \in T BY <1>3, <1>4, Induction
<1>6. C \cap 1..N = C OBVIOUS
<1>7. QED BY <1>5, <1>6 DEF T

(* The entries of an identifier, those of them with a semantic version, and *)
(* which of two the loops of GetLatest prefer.                              *)
WithKey(es, id) == {k \in VersionsOf(es, id) : semverKey(es[k].version) # None}

ByTime(es) ==
  {pair \in (1..Len(es)) \X (1..Len(es)) : updatedAt(es[pair[1]]) > updatedAt(es[pair[2]])}

ByVersion(es, id) ==
  {pair \in WithKey(es, id) \X WithKey(es, id) :
     \/ semverKey(es[pair[1]].version) > semverKey(es[pair[2]].version)
     \/ /\ semverKey(es[pair[1]].version) = semverKey(es[pair[2]].version)
        /\ updatedAt(es[pair[1]]) > updatedAt(es[pair[2]])}

LEMMA EntryKeys ==
  ASSUME NEW x \in Entry
  PROVE  /\ updatedAt(x) \in Nat
         /\ updatedAt(x) = 0 <=> x.updatedAt \in {None, Bad}
         /\ x.updatedAt \notin {None, Bad} => updatedAt(x) = x.updatedAt
         /\ semverKey(x.version) \in Int \cup {None}
         /\ semverKey(x.version) # None <=> x.version # None /\ Precedence[x.version] # None
         /\ semverKey(x.version) # None => semverKey(x.version) = Precedence[x.version]
<1>1. x.updatedAt \in (Nat \ {0}) \cup {None, Bad} /\ x.version \in Versions \cup {None}
  BY DEF Entry, ZeroTime
<1>2. None \notin Int /\ Bad \notin Int /\ Precedence \in [Versions -> Int \cup {None}]
  BY PrecedenceAssumption
<1>3. QED BY <1>1, <1>2 DEF updatedAt, semverKey, ZeroTime

(* The loop over the entries with a semantic version. *)
LEMMA LatestVersionFinds ==
  ASSUME NEW es \in Seq(Entry), NEW id
  PROVE  FirstOfBest(latestVersion(es, id), WithKey(es, id), ByVersion(es, id))
<1> DEFINE N == Len(es)
           V == 0..N
           C == WithKey(es, id)
           R == ByVersion(es, id)
           Step(b, k) == LET key == semverKey(es[k].version) IN
                         IF /\ k \in VersionsOf(es, id)
                            /\ key # None
                            /\ \/ b = 0
                               \/ key > semverKey(es[b].version)
                               \/ /\ key = semverKey(es[b].version)
                                  /\ updatedAt(es[k]) > updatedAt(es[b])
                         THEN k ELSE b
           step == [x \in V \X (1..N) |-> Step(x[1], x[2])]
           Equation(h) == h = [k \in 0..N |-> IF k = 0 THEN 0 ELSE Step(h[k - 1], k)]
           best == CHOOSE h : Equation(h)
<1>1. N \in Nat /\ C \subseteq 1..N /\ \A k \in C : es[k] \in Entry /\ k \in 1..N /\ k # 0
  BY DEF WithKey, VersionsOf
<1>2. latestVersion(es, id) = best[N] BY DEF latestVersion
<1> HIDE DEF N
<1>3. \A v \in V, k \in 1..N : step[<<v, k>>] = Step(v, k) /\ Step(v, k) \in V BY <1>1
<1> HIDE DEF Step, step
<1>4. StaysIn(step, V, N) BY <1>3 DEF StaysIn
<1>5. 0 \in V BY <1>1
<1>6. PICK f \in [0..N -> V] : IsRecursion(f, 0, N, step)
  <2> HIDE DEF V
  <2>1. QED BY <1>1, <1>4, <1>5, RecursionExists
<1>7. Equation(f)
  <2>1. \A k \in 0..N : f[k] = IF k = 0 THEN 0 ELSE Step(f[k - 1], k)
    <3> TAKE k \in 0..N
    <3>1. CASE k = 0 BY <1>6, <3>1 DEF IsRecursion
    <3>2. CASE k # 0
      <4>1. k \in 1..N /\ k - 1 \in 0..N BY <1>1, <3>2
      <4>2. f[k - 1] \in V BY <1>6, <4>1
      <4>3. f[k] = step[<<f[k - 1], k>>] BY <1>6, <4>1 DEF IsRecursion
      <4>4. QED BY <1>3, <3>2, <4>1, <4>2, <4>3
    <3>3. QED BY <3>1, <3>2
  <2>2. QED BY <1>6, <2>1
<1>8. Equation(best) BY <1>7
<1> HIDE DEF best
<1>9. best[0] = 0 /\ \A k \in 1..N : best[k] = Step(best[k - 1], k)
  <2>1. best[0] = 0 BY <1>1, <1>8
  <2>2. \A k \in 1..N : k \in 0..N /\ k # 0 BY <1>1
  <2>3. QED BY <1>8, <2>1, <2>2
<1>10. OnePass(best, N, C, R)
  <2> SUFFICES ASSUME NEW k \in 1..N, NEW b, b = best[k - 1]
               PROVE  /\ k \in C /\ (b = 0 \/ (b \in C /\ <<k, b>> \in R)) => best[k] = k
                      /\ k \notin C \/ (b \in C /\ <<k, b>> \notin R) => best[k] = b
    BY <1>9 DEF OnePass
  <2>1. best[k] = Step(b, k) BY <1>9
  <2>2. k \in C <=> k \in VersionsOf(es, id) /\ semverKey(es[k].version) # None BY DEF WithKey
  <2>3. CASE k \notin C BY <2>1, <2>2, <2>3 DEF Step
  <2>4. CASE k \in C /\ b = 0
    <3>1. b \notin C BY <1>1, <2>4
    <3>2. QED BY <2>1, <2>2, <2>4, <3>1 DEF Step
  <2>5. CASE k \in C /\ b \in C
    <3>1. b # 0 BY <1>1, <2>5
    <3>2. <<k, b>> \in R <=>
            \/ semverKey(es[k].version) > semverKey(es[b].version)
            \/ /\ semverKey(es[k].version) = semverKey(es[b].version)
               /\ updatedAt(es[k]) > updatedAt(es[b])
      BY <2>5 DEF ByVersion
    <3>3. QED BY <2>1, <2>2, <2>5, <3>1, <3>2 DEF Step
  <2>6. CASE k \in C /\ b # 0 /\ b \notin C BY <2>6
  <2>7. QED BY <2>3, <2>4, <2>5, <2>6
<1>11. \A x \in C : semverKey(es[x].version) \in Int /\ updatedAt(es[x]) \in Nat
  BY <1>1, EntryKeys DEF WithKey
<1>12. \A x, y \in C : <<x, y>> \in R <=>
         \/ semverKey(es[x].version) > semverKey(es[y].version)
         \/ /\ semverKey(es[x].version) = semverKey(es[y].version)
            /\ updatedAt(es[x]) > updatedAt(es[y])
  BY DEF ByVersion
<1> HIDE DEF C, R
<1>13. \A x, y \in C : <<x, y>> \in R => <<y, x>> \notin R BY <1>11, <1>12
<1>14. \A x, y, z \in C : <<x, z>> \in R => <<x, y>> \in R \/ <<y, z>> \in R BY <1>11, <1>12
<1>15. FirstOfBest(best[N], C, R) BY <1>1, <1>10, <1>13, <1>14, OnePassFindsBest
<1>16. QED BY <1>2, <1>15 DEF C, R

(* The loop over all the entries, if none has a semantic version. *)
LEMMA LatestUpdateFinds ==
  ASSUME NEW es \in Seq(Entry), NEW id
  PROVE  FirstOfBest(latestUpdate(es, id), VersionsOf(es, id), ByTime(es))
<1> DEFINE N == Len(es)
           V == 0..N
           C == VersionsOf(es, id)
           R == ByTime(es)
           Step(b, k) == IF k \in VersionsOf(es, id) /\ (b = 0 \/ updatedAt(es[k]) > updatedAt(es[b]))
                         THEN k ELSE b
           step == [x \in V \X (1..N) |-> Step(x[1], x[2])]
           Equation(h) == h = [k \in 0..N |-> IF k = 0 THEN 0 ELSE Step(h[k - 1], k)]
           best == CHOOSE h : Equation(h)
<1>1. N \in Nat /\ C \subseteq 1..N /\ \A k \in C : es[k] \in Entry /\ k \in 1..N /\ k # 0
  BY DEF VersionsOf
<1>2. latestUpdate(es, id) = best[N] BY DEF latestUpdate
<1>3. \A x, y \in 1..N : <<x, y>> \in R <=> updatedAt(es[x]) > updatedAt(es[y])
  BY DEF ByTime
<1> HIDE DEF N
<1>4. \A v \in V, k \in 1..N : step[<<v, k>>] = Step(v, k) /\ Step(v, k) \in V BY <1>1
<1> HIDE DEF Step, step
<1>5. StaysIn(step, V, N) BY <1>4 DEF StaysIn
<1>6. 0 \in V BY <1>1
<1>7. PICK f \in [0..N -> V] : IsRecursion(f, 0, N, step)
  <2> HIDE DEF V
  <2>1. QED BY <1>1, <1>5, <1>6, RecursionExists
<1>8. Equation(f)
  <2>1. \A k \in 0..N : f[k] = IF k = 0 THEN 0 ELSE Step(f[k - 1], k)
    <3> TAKE k \in 0..N
    <3>1. CASE k = 0 BY <1>7, <3>1 DEF IsRecursion
    <3>2. CASE k # 0
      <4>1. k \in 1..N /\ k - 1 \in 0..N BY <1>1, <3>2
      <4>2. f[k - 1] \in V BY <1>7, <4>1
      <4>3. f[k] = step[<<f[k - 1], k>>] BY <1>7, <4>1 DEF IsRecursion
      <4>4. QED BY <1>4, <3>2, <4>1, <4>2, <4>3
    <3>3. QED BY <3>1, <3>2
  <2>2. QED BY <1>7, <2>1
<1>9. Equation(best) BY <1>8
<1> HIDE DEF best
<1>10. best[0] = 0 /\ \A k \in 1..N : best[k] = Step(best[k - 1], k)
  <2>1. best[0] = 0 BY <1>1, <1>9
  <2>2. \A k \in 1..N : k \in 0..N /\ k # 0 BY <1>1
  <2>3. QED BY <1>9, <2>1, <2>2
<1> HIDE DEF R
<1>11. OnePass(best, N, C, R)
  <2> SUFFICES ASSUME NEW k \in 1..N, NEW b, b = best[k - 1]
               PROVE  /\ k \in C /\ (b = 0 \/ (b \in C /\ <<k, b>> \in R)) => best[k] = k
                      /\ k \notin C \/ (b \in C /\ <<k, b>> \notin R) => best[k] = b
    BY <1>10 DEF OnePass
  <2>1. best[k] = Step(b, k) BY <1>10
  <2>2. CASE k \notin C BY <2>1, <2>2 DEF Step
  <2>3. CASE k \in C /\ b = 0
    <3>1. b \notin C BY <1>1, <2>3
    <3>2. QED BY <2>1, <2>3, <3>1 DEF Step
  <2>4. CASE k \in C /\ b \in C
    <3>1. b # 0 /\ b \in 1..N BY <1>1, <2>4
    <3>2. QED BY <1>3, <2>1, <2>4, <3>1 DEF Step
  <2>5. CASE k \in C /\ b # 0 /\ b \notin C BY <2>5
  <2>6. QED BY <2>2, <2>3, <2>4, <2>5
<1>12. \A x \in C : updatedAt(es[x]) \in Nat BY <1>1, EntryKeys
<1> HIDE DEF C
<1>13. \A x, y \in C : <<x, y>> \in R => <<y, x>> \notin R BY <1>1, <1>3, <1>12
<1>14. \A x, y, z \in C : <<x, z>> \in R => <<x, y>> \in R \/ <<y, z>> \in R BY <1>1, <1>3, <1>12
<1>15. FirstOfBest(best[N], C, R) BY <1>1, <1>11, <1>13, <1>14, OnePassFindsBest
<1>16. QED BY <1>2, <1>15 DEF C, R

(* GetLatest returns the greatest entry of an identifier, and the first of  *)
(* those that are equal (version.go:38-81).                                *)
THEOREM LatestIsTheGreatest == Spec => []LatestIsGreatest
<1>1. ASSUME IInv PROVE LatestIsGreatest
  <2> SUFFICES ASSUME result # None, NEW id \in Identifiers
               PROVE  LET es == doc[Len(doc)].entries
                          same == {k \in DOMAIN es : es[k].id = id}
                          latest == GetLatest(es, id)
                      IN  IF same = {} THEN latest = 0
                          ELSE /\ latest \in same
                               /\ \A k \in same : /\ ~Newer(es[k], es[latest])
                                                  /\ k < latest => Newer(es[latest], es[k])
    BY DEF LatestIsGreatest
  <2> DEFINE es == doc[Len(doc)].entries
             same == VersionsOf(es, id)
             keyed == WithKey(es, id)
             latest == GetLatest(es, id)
  <2>1. Proper BY <1>1, DocumentsAssumption DEF IInv, Proper
  <2>2. es \in Seq(Entry) /\ DOMAIN es = 1..Len(es) BY <2>1, ProperFacts, EntryTypes
  <2>3. same = {k \in DOMAIN es : es[k].id = id} BY DEF VersionsOf
  <2> HIDE DEF es
  <2>4. \A k \in same : es[k] \in Entry /\ k \in 1..Len(es) BY <2>2 DEF VersionsOf
  <2>5. FirstOfBest(latestVersion(es, id), keyed, ByVersion(es, id)) BY <2>2, LatestVersionFinds
  <2>6. FirstOfBest(latestUpdate(es, id), same, ByTime(es)) BY <2>2, LatestUpdateFinds
  <2>7. keyed \subseteq same /\ \A k \in same : k \in keyed <=> semverKey(es[k].version) # None
    BY DEF WithKey
  <2>8. \A x, y \in same : <<x, y>> \in ByTime(es) <=> updatedAt(es[x]) > updatedAt(es[y])
    BY <2>4 DEF ByTime
  <2>9. \A x, y \in keyed : <<x, y>> \in ByVersion(es, id) <=>
          \/ semverKey(es[x].version) > semverKey(es[y].version)
          \/ /\ semverKey(es[x].version) = semverKey(es[y].version)
             /\ updatedAt(es[x]) > updatedAt(es[y])
    BY DEF ByVersion
  <2>10. latest = IF same = {} THEN 0
                  ELSE IF latestVersion(es, id) # 0 THEN latestVersion(es, id)
                  ELSE latestUpdate(es, id)
    BY DEF GetLatest
  \* Newer, in the terms of the loops.
  <2>11. ASSUME NEW x \in Entry, NEW y \in Entry
         PROVE  Newer(x, y) <=>
                  LET kx == semverKey(x.version)  ky == semverKey(y.version)
                      later == updatedAt(x) > updatedAt(y)
                  IN  \/ kx # None /\ ky = None
                      \/ kx # None /\ ky # None /\ (kx > ky \/ (kx = ky /\ later))
                      \/ kx = None /\ ky = None /\ later
    <3> DEFINE later == /\ x.updatedAt \notin {None, Bad}
                        /\ y.updatedAt \in {None, Bad} \/ x.updatedAt > y.updatedAt
               sx == x.version # None /\ Precedence[x.version] # None
               sy == y.version # None /\ Precedence[y.version] # None
    <3>1. later <=> updatedAt(x) > updatedAt(y) BY EntryKeys
    <3>2. (sx <=> semverKey(x.version) # None) /\ (sy <=> semverKey(y.version) # None) BY EntryKeys
    <3>3. /\ sx => semverKey(x.version) = Precedence[x.version]
          /\ sy => semverKey(y.version) = Precedence[y.version]
      BY EntryKeys
    <3>4. Newer(x, y) <=> \/ sx /\ ~sy
                          \/ sx /\ sy /\ Precedence[x.version] > Precedence[y.version]
                          \/ sx /\ sy /\ Precedence[x.version] = Precedence[y.version] /\ later
                          \/ ~sx /\ ~sy /\ later
      BY DEF Newer
    <3> HIDE DEF sx, sy, later
    <3>5. QED BY <3>1, <3>2, <3>3, <3>4
  <2> HIDE DEF same, keyed, latest
  <2>12. CASE same = {} BY <2>3, <2>10, <2>12 DEF es, latest
  <2>13. ASSUME same # {}
         PROVE  /\ latest \in same
                /\ \A k \in same : /\ ~Newer(es[k], es[latest])
                                   /\ k < latest => Newer(es[latest], es[k])
    <3>1. CASE keyed = {}
      <4>1. latestVersion(es, id) = 0 BY <2>5, <3>1 DEF FirstOfBest
      <4>2. latest = latestUpdate(es, id) BY <2>10, <2>13, <4>1
      <4>3. /\ latest \in same
            /\ \A k \in same : /\ <<k, latest>> \notin ByTime(es)
                               /\ k < latest => <<latest, k>> \in ByTime(es)
        BY <2>6, <2>13, <4>2 DEF FirstOfBest
      <4>4. \A k \in same : semverKey(es[k].version) = None BY <2>7, <3>1
      <4>5. \A x, y \in same : Newer(es[x], es[y]) <=> updatedAt(es[x]) > updatedAt(es[y])
        BY <2>4, <2>11, <4>4
      <4>6. QED BY <2>8, <4>3, <4>5
    <3>2. CASE keyed # {}
      <4>1. /\ latestVersion(es, id) \in keyed
            /\ \A k \in keyed : LET l == latestVersion(es, id) IN
                 /\ <<k, l>> \notin ByVersion(es, id)
                 /\ k < l => <<l, k>> \in ByVersion(es, id)
        BY <2>5, <3>2 DEF FirstOfBest
      <4>2. latestVersion(es, id) # 0 BY <2>4, <2>7, <4>1
      <4>3. latest = latestVersion(es, id) BY <2>10, <2>13, <4>2
      <4>4. /\ latest \in keyed
            /\ \A k \in keyed : /\ <<k, latest>> \notin ByVersion(es, id)
                                /\ k < latest => <<latest, k>> \in ByVersion(es, id)
        BY <4>1, <4>3
      <4>5. \A x, y \in keyed : Newer(es[x], es[y]) <=> <<x, y>> \in ByVersion(es, id)
        BY <2>4, <2>7, <2>9, <2>11
      <4>6. \A k \in same \ keyed : ~Newer(es[k], es[latest]) /\ Newer(es[latest], es[k])
        BY <2>4, <2>7, <2>11, <4>4
      <4>7. QED BY <2>7, <4>4, <4>5, <4>6
    <3>3. QED BY <3>1, <3>2
  <2>14. QED BY <2>3, <2>12, <2>13 DEF es, latest
<1>2. QED BY <1>1, InvariantHolds, PTL
=============================================================================
