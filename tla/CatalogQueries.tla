--------------------------- MODULE CatalogQueries ---------------------------
(***************************************************************************)
(* Lookups in the entries of one catalog.  An entry is named by its        *)
(* position; 0 says that there is none.                                    *)
(***************************************************************************)
EXTENDS Integers, Sequences, FiniteSets, SequencesExt

CONSTANTS
  Versions,      \* the versions an entry may have
  None,          \* a member that is missing or empty
  Bad,           \* one that does not parse
  Precedence     \* where semantic versioning ranks a version; None if it is none

ASSUME PrecedenceAssumption ==
  /\ None \notin Versions \cup Int /\ Bad \notin Int /\ None # Bad
  /\ Precedence \in [Versions -> Int \cup {None}]

(* GetByIDAndVersion: the first entry that matches. *)
GetByIDAndVersion(es, id, version) ==
  SelectInSeq(es, LAMBDA e : e.id = id /\ e.version = version)

(* Versions(id): the positions it returns are in document order. *)
VersionsOf(es, id) == {k \in DOMAIN es : es[k].id = id}

semverKey(version) == IF version = None THEN None ELSE Precedence[version]

(* An absent or invalid time is the zero time. *)
ZeroTime     == 0
updatedAt(e) == IF e.updatedAt \in {None, Bad} THEN ZeroTime ELSE e.updatedAt

(* The loop over the entries with a semantic version: the best of the       *)
(* first k, or 0.                                                          *)
MutantLaterEntryWins(es, id) ==
  LET best[k \in 0..Len(es)] ==
        IF k = 0 THEN 0
        ELSE LET held == best[k - 1]  key == semverKey(es[k].version) IN
             IF \/ k \notin VersionsOf(es, id)
                \/ key = None
                \/ /\ held # 0
                   /\ \/ key < semverKey(es[held].version)
                      \/ /\ key = semverKey(es[held].version)
                         /\ updatedAt(es[held]) > updatedAt(es[k])
             THEN held ELSE k
  IN  best[Len(es)]

latestVersion(es, id) ==
  LET best[k \in 0..Len(es)] ==
        IF k = 0 THEN 0
        ELSE LET held == best[k - 1]  key == semverKey(es[k].version) IN
             IF /\ k \in VersionsOf(es, id)
                /\ key # None
                /\ \/ held = 0
                   \/ key > semverKey(es[held].version)
                   \/ /\ key = semverKey(es[held].version)
                      /\ updatedAt(es[k]) > updatedAt(es[held])
             THEN k ELSE held
  IN  best[Len(es)]

(* The loop over all of them, if there is none with a semantic version. *)
latestUpdate(es, id) ==
  LET best[k \in 0..Len(es)] ==
        IF k = 0 THEN 0
        ELSE LET held == best[k - 1] IN
             IF k \in VersionsOf(es, id) /\ (held = 0 \/ updatedAt(es[k]) > updatedAt(es[held]))
             THEN k ELSE held
  IN  best[Len(es)]

GetLatest(es, id) ==
  IF VersionsOf(es, id) = {} THEN 0
  ELSE IF latestVersion(es, id) # 0 THEN latestVersion(es, id)
  ELSE latestUpdate(es, id)
=============================================================================
