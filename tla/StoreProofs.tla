---------------------------- MODULE StoreProofs ----------------------------
(***************************************************************************)
(* What the plugin keeps in the database and on the object store, for any  *)
(* number of releases, templates, rows, files and requests: the upgrade of *)
(* the tables and of the packaged templates (Upgrade), the export and the  *)
(* erasure of a user's data (UserData), and the files of a user with their *)
(* quota (Uploads).                                                        *)
(***************************************************************************)
EXTENDS Upgrade, UserData, Uploads, Integers, FiniteSetTheorems, WellFoundedInduction,
        TLAPS

-----------------------------------------------------------------------------
(* The upgrade. *)

UpgradePlaces == {"away", "lock", "blocked", "takeover", "migrate", "up", "stamp", "find",
           "store", "version", "unlock"}

RequestStates == [at : UpgradePlaces, current : 0..release, next : 1..(LastTemplate + 1), seen : 0..Theirs,
             hashes : [Defaults -> 0..release], changed : BOOLEAN]

\* The migrations a request has run or found to have run.
Ran(w) ==
    /\ w.at \in {"up", "stamp"} => 1..w.current \subseteq applied
    /\ w.at = "stamp" => w.current < release /\ w.current + 1 \in applied
    /\ w.at \in {"find", "store", "version"} => 1..release \subseteq applied

Designs == (0..release) \cup {Own, Theirs}

\* A hash knows the row of an older release for the plugin's own, and the release of a
\* row only once it is there.
HashFits(t, hash) ==
    /\ rows[t] \in 1..(release - 1) => IsPristine(rows[t], hash)
    /\ hash = release => rows[t] \in {release, Own}

HasItsDesign(t) == rows[t] \in {release, Own, Theirs}

\* What a request has seen of a row it will store: others may have installed it since,
\* or an administrator edited it.
SeenFits(t, seen, hash) ==
    /\ seen \in Designs
    /\ seen = Missing => rows[t] \in {Missing, release, Own}
    /\ seen \in {Own, Theirs} => rows[t] = seen
    /\ seen \in 1..release => rows[t] \in {seen, release, Own}
    /\ seen \in 1..(release - 1) => IsPristine(seen, hash)

\* What a request that seeds knows of a template: those it has come past are finished,
\* and it remembers, or the option does, which of them have the release's design.
Knows(w, t) ==
    /\ w.at \in {"find", "store"} =>
          /\ HashFits(t, w.hashes[t])
          /\ ~w.changed /\ w.hashes[t] = release /\ rows[t] = release => seeded[t] = release
          /\ t < w.next => HasItsDesign(t) /\ (rows[t] = release => w.hashes[t] = release)
    /\ w.at = "store" /\ t = w.next => SeenFits(t, w.seen, w.hashes[t])

Seeded == version = release \/ \E u \in Upgraders : upgrader[u].at = "version"

RowIsKnown(t) ==
    /\ rows[t] \in Designs /\ HashFits(t, seeded[t])
    /\ Seeded => HasItsDesign(t) /\ (rows[t] = release => seeded[t] = release)
    /\ \A u \in Upgraders : Knows(upgrader[u], t)

UpgradeInv ==
    /\ UpgradeTypeOK
    /\ 1..schema \subseteq applied
    /\ version = release => 1..release \subseteq applied
    /\ \A u \in Upgraders : Ran(upgrader[u])
    /\ \A u \in Upgraders : upgrader[u].at = "store" => upgrader[u].next \in Defaults
    /\ \A t \in Defaults \ overwritten : RowIsKnown(t)

LEMMA UpgradeBounds ==
    LastTemplate \in Nat /\ MaxFaults \in Nat /\ MaxRelease \in Nat /\ MaxRelease > 1
BY UpgradeAssumption

LEMMA AbsentIsARequest ==
    ASSUME release \in Nat
    PROVE  /\ Absent \in RequestStates /\ [Absent EXCEPT !.at = "version"] \in RequestStates
           /\ [Absent EXCEPT !.at = "unlock"] \in RequestStates /\ Absent.at = "away"
           /\ [Absent EXCEPT !.at = "version"].at = "version"
           /\ [Absent EXCEPT !.at = "unlock"].at = "unlock"
<1>1. /\ Absent.at = "away" /\ Absent.current = 0 /\ Absent.next = 1 /\ Absent.seen = 0
      /\ Absent.hashes = [t \in Defaults |-> 0] /\ Absent.changed = FALSE
  BY DEF Absent, Missing
<1>2. 1 \in 1..(LastTemplate + 1) /\ 0 \in 0..Theirs /\ 0 \in 0..release
  BY UpgradeBounds DEF Theirs
<1>3. Absent \in RequestStates
  BY <1>2 DEF Absent, Missing, RequestStates, UpgradePlaces
<1>4. ASSUME NEW p \in UpgradePlaces
      PROVE  [Absent EXCEPT !.at = p] \in RequestStates /\ [Absent EXCEPT !.at = p].at = p
  BY <1>3 DEF RequestStates
<1> QED BY <1>1, <1>3, <1>4 DEF UpgradePlaces

LEMMA TypesOfUpgrade ==
    UpgradeTypeOK <=>
        /\ release \in Releases /\ version \in 0..release /\ schema \in 0..release
        /\ applied \subseteq Releases
        /\ upgradeLock \in {"free", "held", "stale"} /\ backoff \in BOOLEAN
        /\ rows \in [Defaults -> 0..Theirs] /\ seeded \in [Defaults -> 0..release]
        /\ overwritten \subseteq Defaults
        /\ upgrader \in [Upgraders -> RequestStates]
        /\ faults \in 0..MaxFaults
BY DEF UpgradeTypeOK, RequestStates, UpgradePlaces

LEMMA TypesOfUpgradeNext ==
    UpgradeTypeOK' <=>
        /\ release' \in Releases /\ version' \in 0..release' /\ schema' \in 0..release'
        /\ applied' \subseteq Releases
        /\ upgradeLock' \in {"free", "held", "stale"} /\ backoff' \in BOOLEAN
        /\ rows' \in [Defaults -> 0..Theirs] /\ seeded' \in [Defaults -> 0..release']
        /\ overwritten' \subseteq Defaults
        /\ upgrader' \in [Upgraders -> RequestStates']
        /\ faults' \in 0..MaxFaults
BY DEF UpgradeTypeOK, RequestStates, UpgradePlaces

\* A request that stands at none of the places where something is known.
LEMMA NothingKnown ==
    ASSUME NEW w, w.at \notin {"up", "stamp", "find", "store", "version"}
    PROVE  Ran(w) /\ \A t : Knows(w, t)
BY DEF Ran, Knows

LEMMA InitUpgrade == UpgradeInit => UpgradeInv
<1> SUFFICES ASSUME UpgradeInit PROVE UpgradeInv
  OBVIOUS
<1>1. release = 2 /\ release \in Nat /\ version \in 0..2 /\ schema = version /\ applied = 1..version
  BY DEF UpgradeInit
<1>2. \A u \in Upgraders : upgrader[u] = Absent
  BY DEF UpgradeInit
<1>3. UpgradeTypeOK
  <2>1. upgrader \in [Upgraders -> RequestStates]
    BY <1>1, AbsentIsARequest DEF UpgradeInit
  <2>2. seeded \in [Defaults -> 0..release] /\ rows \in [Defaults -> 0..Theirs]
    BY <1>1, UpgradeBounds DEF UpgradeInit, Missing, Theirs
  <2>3. /\ release \in Releases /\ version \in 0..release /\ schema \in 0..release
        /\ applied \subseteq Releases
    BY <1>1, UpgradeBounds DEF Releases
  <2>4. /\ upgradeLock \in {"free", "held", "stale"} /\ backoff \in BOOLEAN
        /\ overwritten \subseteq Defaults
    BY DEF UpgradeInit
  <2>5. faults \in 0..MaxFaults
    BY UpgradeBounds DEF UpgradeInit
  <2> QED BY <2>1, <2>2, <2>3, <2>4, <2>5, TypesOfUpgrade
<1>4. \A u \in Upgraders : Ran(upgrader[u]) /\ (\A t : Knows(upgrader[u], t)) /\ upgrader[u].at = "away"
  BY <1>1, <1>2, AbsentIsARequest, NothingKnown
<1>5. ASSUME NEW t \in Defaults
      PROVE  RowIsKnown(t)
  <2>1. rows[t] \in {Missing, 1, 2, Theirs} /\ seeded[t] = (IF version = 2 THEN 2 ELSE 0)
    BY DEF UpgradeInit
  <2>2. IF version = 1 /\ t # 1 THEN rows[t] \in {Missing, Theirs} ELSE rows[t] = version
    BY DEF UpgradeInit
  <2>3. Theirs > 3 /\ Own > 2 /\ Missing = 0 /\ Theirs \in Nat /\ Own \in Nat
    BY UpgradeBounds DEF Theirs, Own, Missing
  <2>4. HashFits(t, seeded[t]) /\ rows[t] \in Designs
    BY <1>1, <2>1, <2>2, <2>3 DEF HashFits, IsPristine, Designs
  <2>5. Seeded => version = 2
    BY <1>1, <1>4 DEF Seeded
  <2> QED BY <1>1, <1>4, <2>1, <2>2, <2>4, <2>5 DEF RowIsKnown, HasItsDesign
<1> QED BY <1>1, <1>3, <1>4, <1>5 DEF UpgradeInv
-----------------------------------------------------------------------------
\* A request moves, and nothing is written that the templates depend on.
LEMMA RequestMoves ==
    ASSUME UpgradeInv, NEW u \in Upgraders, NEW w \in RequestStates,
           upgrader' = [upgrader EXCEPT ![u] = w],
           UNCHANGED <<release, version, templates>>,
           upgradeLock' \in {"free", "held", "stale"}, backoff' \in BOOLEAN,
           faults' \in 0..MaxFaults, schema' \in 0..release, applied' \subseteq Releases,
           applied \subseteq applied', 1..schema' \subseteq applied', Ran(w)',
           w.at = "version" => upgrader[u].at = "version", w.at = "store" => w.next \in Defaults,
           \A t \in Defaults \ overwritten : Knows(w, t)
    PROVE  UpgradeInv'
<1>1. /\ release \in Releases /\ version \in 0..release /\ rows \in [Defaults -> 0..Theirs]
      /\ seeded \in [Defaults -> 0..release] /\ overwritten \subseteq Defaults
      /\ upgrader \in [Upgraders -> RequestStates]
  BY TypesOfUpgrade DEF UpgradeInv
<1>2. release' = release /\ version' = version /\ rows' = rows /\ seeded' = seeded /\ overwritten' = overwritten
  BY DEF templates
<1>3. \A v \in Upgraders : upgrader'[v] = IF v = u THEN w ELSE upgrader[v]
  BY <1>1
<1>4. UpgradeTypeOK'
  <2>1. RequestStates' = RequestStates
    BY <1>2 DEF RequestStates
  <2>2. upgrader' \in [Upgraders -> RequestStates]
    BY <1>1
  <2>3. /\ release' \in Releases /\ version' \in 0..release' /\ schema' \in 0..release'
        /\ rows' \in [Defaults -> 0..Theirs] /\ seeded' \in [Defaults -> 0..release']
        /\ overwritten' \subseteq Defaults
    BY <1>1, <1>2
  <2>4. upgrader' \in [Upgraders -> RequestStates']
    BY <2>1, <2>2
  <2> QED BY <2>3, <2>4, TypesOfUpgradeNext
<1>5. \A v \in Upgraders : Ran(upgrader[v])'
  <2>1. \A x : Ran(x) => Ran(x)'
    BY <1>2 DEF Ran
  <2> QED BY <1>3, <2>1 DEF UpgradeInv
<1>6. ASSUME NEW t \in Defaults \ overwritten
      PROVE  RowIsKnown(t)'
  <2>1. RowIsKnown(t)
    BY DEF UpgradeInv
  <2>2. \A x : Knows(x, t) => Knows(x, t)'
    BY <1>2 DEF Knows, HashFits, SeenFits, HasItsDesign, Designs
  <2>3. Seeded' => Seeded
    BY <1>2, <1>3 DEF Seeded
  <2>4. \A v \in Upgraders : Knows(upgrader[v], t)'
    BY <1>3, <2>1, <2>2 DEF RowIsKnown
  <2>5. (rows[t] \in Designs /\ HashFits(t, seeded[t]))'
    BY <1>2, <2>1 DEF RowIsKnown, Designs, HashFits
  <2>6. HasItsDesign(t)' <=> HasItsDesign(t)
    BY <1>2 DEF HasItsDesign
  <2> QED BY <1>2, <2>1, <2>3, <2>4, <2>5, <2>6 DEF RowIsKnown
<1>7. \A v \in Upgraders : upgrader'[v].at = "store" => upgrader'[v].next \in Defaults
  BY <1>3 DEF UpgradeInv
<1>8. version' = release' => 1..release' \subseteq applied'
  BY <1>2 DEF UpgradeInv
<1> QED BY <1>2, <1>4, <1>5, <1>6, <1>7, <1>8 DEF UpgradeInv

\* The same, when the request only goes somewhere where it knows nothing.
LEMMA RequestGoes ==
    ASSUME UpgradeInv, NEW u \in Upgraders, NEW w \in RequestStates,
           upgrader' = [upgrader EXCEPT ![u] = w],
           UNCHANGED <<release, database, templates>>,
           upgradeLock' \in {"free", "held", "stale"}, backoff' \in BOOLEAN,
           faults' \in 0..MaxFaults,
           w.at \notin {"up", "stamp", "find", "store", "version"}
    PROVE  UpgradeInv'
<1>1. /\ version' = version /\ schema' = schema /\ applied' = applied
      /\ UNCHANGED <<release, version, templates>>
  BY DEF database
<1>2. Ran(w)'
  BY DEF Ran
<1>3. \A t : Knows(w, t)
  BY NothingKnown
<1>4. schema' \in 0..release /\ applied' \subseteq Releases /\ 1..schema' \subseteq applied'
  BY <1>1, TypesOfUpgrade DEF UpgradeInv
<1> QED BY <1>1, <1>2, <1>3, <1>4, RequestMoves

LEMMA RequestFields ==
    ASSUME UpgradeInv, NEW u \in Upgraders
    PROVE  /\ upgrader[u] \in RequestStates /\ upgrader = [v \in Upgraders |-> upgrader[v]]
           /\ upgrader[u].current \in 0..release /\ release \in Nat
           /\ upgrader[u].hashes \in [Defaults -> 0..release]
           /\ upgrader[u].next \in 1..(LastTemplate + 1)
BY TypesOfUpgrade DEF UpgradeInv, RequestStates, Releases

LEMMA PlaceChanges ==
    ASSUME NEW x \in RequestStates, NEW p \in UpgradePlaces
    PROVE  [x EXCEPT !.at = p] \in RequestStates /\ [x EXCEPT !.at = p].at = p
BY DEF RequestStates

LEMMA LockSteps ==
    ASSUME UpgradeInv, NEW u \in Upgraders,
           Notices(u) \/ Locks(u) \/ LooksAtLock(u) \/ TakesOver(u) \/ Unlocks(u)
    PROVE  UpgradeInv'
<1>1. /\ upgradeLock \in {"free", "held", "stale"} /\ backoff \in BOOLEAN /\ faults \in 0..MaxFaults
      /\ release \in Nat /\ upgrader[u] \in RequestStates
  BY TypesOfUpgrade, RequestFields DEF UpgradeInv
<1>2. /\ {"lock", "migrate", "blocked", "takeover"} \subseteq UpgradePlaces /\ Absent \in RequestStates
      /\ Absent.at = "away"
  BY <1>1, AbsentIsARequest DEF UpgradePlaces
<1>3. \A p \in UpgradePlaces : [upgrader[u] EXCEPT !.at = p] \in RequestStates /\ [upgrader[u] EXCEPT !.at = p].at = p
  BY <1>1, PlaceChanges
<1>4. UNCHANGED <<release, database, templates>> /\ faults' = faults /\ backoff' = backoff
  BY DEF Notices, Locks, LooksAtLock, TakesOver, Unlocks, guards
<1>5. PICK w \in RequestStates : /\ upgrader' = [upgrader EXCEPT ![u] = w]
                            /\ w.at \in {"lock", "migrate", "blocked", "takeover", "away"}
  <2>1. CASE Notices(u)
    BY <2>1, <1>2, <1>3 DEF Notices
  <2>2. CASE Locks(u)
    <3>1. upgrader' = [upgrader EXCEPT ![u] = [upgrader[u] EXCEPT !.at = IF upgradeLock = "free" THEN "migrate" ELSE "blocked"]]
      BY <2>2 DEF Locks
    <3> QED BY <3>1, <1>2, <1>3
  <2>3. CASE LooksAtLock(u)
    BY <2>3, <1>2, <1>3 DEF LooksAtLock
  <2>4. CASE TakesOver(u)
    BY <2>4, <1>2, <1>3 DEF TakesOver
  <2>5. CASE Unlocks(u)
    BY <2>5, <1>2 DEF Unlocks
  <2> QED BY <2>1, <2>2, <2>3, <2>4, <2>5
<1>6. upgradeLock' \in {"free", "held", "stale"}
  BY <1>1 DEF Notices, Locks, LooksAtLock, TakesOver, Unlocks, guards
<1> QED BY <1>1, <1>4, <1>5, <1>6, RequestGoes

LEMMA FaultSteps ==
    ASSUME UpgradeInv, NEW u \in Upgraders, Throws(u) \/ UpgradeDies(u)
    PROVE  UpgradeInv'
<1>1. /\ upgradeLock \in {"free", "held", "stale"} /\ backoff \in BOOLEAN /\ faults \in 0..MaxFaults
      /\ release \in Nat
  BY TypesOfUpgrade, RequestFields DEF UpgradeInv
<1>2. UNCHANGED <<release, database, templates>> /\ faults' \in 0..MaxFaults
  BY <1>1, UpgradeBounds DEF Throws, UpgradeDies
<1>3. upgradeLock' \in {"free", "held", "stale"} /\ backoff' \in BOOLEAN
  BY <1>1 DEF Throws, UpgradeDies, guards
<1>4. CASE Throws(u)
  <2>1. upgrader' = [upgrader EXCEPT ![u] = [Absent EXCEPT !.at = "unlock"]]
    BY <1>4 DEF Throws
  <2> QED BY <1>1, <1>2, <1>3, <2>1, AbsentIsARequest, RequestGoes
<1>5. CASE UpgradeDies(u)
  <2>1. upgrader' = [upgrader EXCEPT ![u] = Absent]
    BY <1>5 DEF UpgradeDies
  <2> QED BY <1>1, <1>2, <1>3, <2>1, AbsentIsARequest, RequestGoes
<1> QED BY <1>4, <1>5

LEMMA MigrationSteps ==
    ASSUME UpgradeInv, NEW u \in Upgraders,
           ReadsSchema(u) \/ MigratesUp(u) \/ StampsSchema(u)
    PROVE  UpgradeInv'
<1>1. /\ upgradeLock \in {"free", "held", "stale"} /\ backoff \in BOOLEAN /\ faults \in 0..MaxFaults
      /\ release \in Nat /\ release \in Releases /\ upgrader[u] \in RequestStates
      /\ upgrader[u].current \in 0..release
      /\ schema \in 0..release /\ applied \subseteq Releases
  BY TypesOfUpgrade, RequestFields DEF UpgradeInv
<1>2. "up" \in UpgradePlaces /\ "stamp" \in UpgradePlaces
  BY DEF UpgradePlaces
<1>3. /\ UNCHANGED <<release, version, templates>> /\ faults' = faults
      /\ upgradeLock' = upgradeLock /\ backoff' = backoff
  BY DEF ReadsSchema, MigratesUp, StampsSchema, database, guards
<1>4. Ran(upgrader[u]) /\ 1..schema \subseteq applied
  BY DEF UpgradeInv
<1>5. PICK w \in RequestStates :
         /\ upgrader' = [upgrader EXCEPT ![u] = w] /\ w.at \in {"up", "stamp"} /\ Ran(w)'
         /\ schema' \in 0..release /\ applied' \subseteq Releases /\ applied \subseteq applied'
         /\ 1..schema' \subseteq applied'
  <2>1. CASE ReadsSchema(u)
    <3>1. PICK w : w = [upgrader[u] EXCEPT !.at = "up", !.current = schema]
      OBVIOUS
    <3>2. w \in RequestStates /\ w.at = "up" /\ w.current = schema
      <4>1. upgrader[u] \in RequestStates /\ "up" \in UpgradePlaces /\ schema \in 0..release
        BY <1>1, <1>2
      <4> QED BY <3>1, <4>1 DEF RequestStates
    <3>3. upgrader' = [upgrader EXCEPT ![u] = w] /\ schema' = schema /\ applied' = applied
      BY <2>1, <3>1 DEF ReadsSchema, database
    <3>4. Ran(w)'
      BY <3>2, <3>3, <1>4 DEF Ran
    <3> QED BY <3>2, <3>3, <3>4, <1>1, <1>4
  <2>2. CASE MigratesUp(u)
    <3>1. PICK w : w = [upgrader[u] EXCEPT !.at = "stamp"]
      OBVIOUS
    <3>2. w \in RequestStates /\ w.at = "stamp" /\ w.current = upgrader[u].current
      BY <3>1, <1>1, <1>2, PlaceChanges DEF RequestStates
    <3>3. /\ upgrader' = [upgrader EXCEPT ![u] = w] /\ schema' = schema
          /\ applied' = applied \cup {upgrader[u].current + 1}
          /\ upgrader[u].current < release /\ upgrader[u].at = "up"
      BY <2>2, <3>1 DEF MigratesUp
    <3>4. 1..upgrader[u].current \subseteq applied
      BY <3>3, <1>4 DEF Ran
    <3>5. Ran(w)'
      BY <3>2, <3>3, <3>4, <1>3 DEF Ran
    <3>6. applied' \subseteq Releases
      <4>1. upgrader[u].current + 1 \in Releases
        BY <3>3, <1>1, UpgradeBounds DEF Releases
      <4> QED BY <3>3, <4>1, <1>1
    <3> QED BY <3>2, <3>3, <3>5, <3>6, <1>1, <1>4
  <2>3. CASE StampsSchema(u)
    <3>1. PICK w : w = [upgrader[u] EXCEPT !.at = "up", !.current = upgrader[u].current + 1]
      OBVIOUS
    <3>2. upgrader[u].at = "stamp" /\ schema' = upgrader[u].current + 1 /\ applied' = applied
      BY <2>3 DEF StampsSchema
    <3>3. /\ upgrader[u].current < release /\ upgrader[u].current + 1 \in applied
          /\ 1..upgrader[u].current \subseteq applied
      BY <3>2, <1>4 DEF Ran
    <3>4. upgrader[u].current + 1 \in 0..release
      BY <3>3, <1>1
    <3>8. w \in RequestStates /\ w.at = "up" /\ w.current = upgrader[u].current + 1
      <4>1. upgrader[u] \in RequestStates /\ "up" \in UpgradePlaces
        BY <1>1, <1>2
      <4> QED BY <3>1, <3>4, <4>1 DEF RequestStates
    <3>5. upgrader' = [upgrader EXCEPT ![u] = w]
      BY <2>3, <3>1, <1>1 DEF StampsSchema
    <3>6. 1..(upgrader[u].current + 1) \subseteq applied
      BY <3>3, <1>1
    <3>9. 1..schema' \subseteq applied'
      BY <3>2, <3>6
    <3>7. Ran(w)'
      BY <3>2, <3>8, <3>6 DEF Ran
    <3> QED BY <3>2, <3>3, <3>4, <3>5, <3>7, <3>8, <1>1, <1>4, <3>9
  <2> QED BY <2>1, <2>2, <2>3
<1>6. \A t : Knows(w, t)
  BY <1>5 DEF Knows
<1> QED BY <1>1, <1>3, <1>5, <1>6, RequestMoves

LEMMA SeedingSteps ==
    ASSUME UpgradeInv, NEW u \in Upgraders, StartsSeeding(u) \/ FindsRow(u)
    PROVE  UpgradeInv'
<1>1. /\ upgradeLock \in {"free", "held", "stale"} /\ backoff \in BOOLEAN /\ faults \in 0..MaxFaults
      /\ release \in Nat /\ release \in Releases /\ upgrader[u] \in RequestStates
      /\ upgrader[u].current \in 0..release
      /\ schema \in 0..release /\ applied \subseteq Releases
      /\ seeded \in [Defaults -> 0..release] /\ rows \in [Defaults -> 0..Theirs]
  BY TypesOfUpgrade, RequestFields DEF UpgradeInv
<1>2. "find" \in UpgradePlaces /\ "store" \in UpgradePlaces /\ 1 \in 1..(LastTemplate + 1)
  BY UpgradeBounds DEF UpgradePlaces
<1>3. /\ UNCHANGED <<release, version, templates>> /\ faults' = faults
      /\ upgradeLock' = upgradeLock /\ backoff' = backoff /\ schema' = schema /\ applied' = applied
  BY DEF StartsSeeding, FindsRow, database, guards
<1>4. Ran(upgrader[u]) /\ 1..schema \subseteq applied
  BY DEF UpgradeInv
<1>5. PICK w \in RequestStates :
         /\ upgrader' = [upgrader EXCEPT ![u] = w] /\ w.at \in {"find", "store"}
         /\ 1..release \subseteq applied /\ (w.at = "store" => w.next \in Defaults)
         /\ \A t \in Defaults \ overwritten : Knows(w, t)
  <2>1. CASE StartsSeeding(u)
    <3>1. PICK w : w = [upgrader[u] EXCEPT !.at = "find", !.next = 1, !.hashes = seeded,
                                           !.changed = FALSE]
      OBVIOUS
    <3>2. /\ w \in RequestStates /\ w.at = "find" /\ w.next = 1 /\ w.hashes = seeded /\ w.changed = FALSE
      <4>1. /\ upgrader[u] \in RequestStates /\ "find" \in UpgradePlaces
            /\ 1 \in 1..(LastTemplate + 1) /\ seeded \in [Defaults -> 0..release]
        BY <1>1, <1>2
      <4> QED BY <3>1, <4>1 DEF RequestStates
    <3>3. /\ upgrader' = [upgrader EXCEPT ![u] = w] /\ upgrader[u].at = "up"
          /\ upgrader[u].current >= release
      BY <2>1, <3>1 DEF StartsSeeding
    <3>4. 1..release \subseteq applied
      BY <3>3, <1>1, <1>4 DEF Ran
    <3>5. ASSUME NEW t \in Defaults \ overwritten
          PROVE  Knows(w, t)
      <4>1. HashFits(t, seeded[t])
        BY DEF UpgradeInv, RowIsKnown
      <4>2. ~(t < 1)
        BY UpgradeBounds DEF Defaults
      <4> QED BY <3>2, <4>1, <4>2 DEF Knows
    <3> QED BY <3>2, <3>3, <3>4, <3>5
  <2>2. CASE FindsRow(u)
    <3>1. PICK w : w = [upgrader[u] EXCEPT !.at = "store", !.seen = rows[upgrader[u].next]]
      OBVIOUS
    <3>2. /\ upgrader' = [upgrader EXCEPT ![u] = w] /\ upgrader[u].at = "find"
          /\ upgrader[u].next \in Defaults
      BY <2>2, <3>1 DEF FindsRow
    <3>3. /\ w \in RequestStates /\ w.at = "store" /\ w.next = upgrader[u].next
          /\ w.hashes = upgrader[u].hashes /\ w.changed = upgrader[u].changed
          /\ w.seen = rows[upgrader[u].next]
      <4>1. upgrader[u] \in RequestStates /\ "store" \in UpgradePlaces /\ rows[upgrader[u].next] \in 0..Theirs
        BY <3>2, <1>1, <1>2
      <4> QED BY <3>1, <4>1 DEF RequestStates
    <3>4. 1..release \subseteq applied
      BY <3>2, <1>4 DEF Ran
    <3>5. ASSUME NEW t \in Defaults \ overwritten
          PROVE  Knows(w, t)
      <4>1. Knows(upgrader[u], t) /\ rows[t] \in Designs
        BY DEF UpgradeInv, RowIsKnown
      <4>2. t = w.next => SeenFits(t, w.seen, w.hashes[t])
        BY <3>2, <3>3, <4>1, <1>1 DEF SeenFits, Knows, HashFits
      <4> QED BY <3>2, <3>3, <4>1, <4>2 DEF Knows
    <3> QED BY <3>2, <3>3, <3>4, <3>5
  <2> QED BY <2>1, <2>2
<1>6. Ran(w)'
  BY <1>3, <1>5 DEF Ran
<1> QED BY <1>1, <1>3, <1>4, <1>5, <1>6, RequestMoves

\* A seeder is done with a row: what it then knows of the template, and what the row has
\* become. Writing it makes it the release's, and only a row that was not finished is
\* written unless an edit goes.
LEMMA RowIsDone ==
    ASSUME UpgradeInv, NEW u \in Upgraders, StoresRow(u),
           NEW t, t = upgrader[u].next, t \notin overwritten',
           NEW seen, seen = upgrader[u].seen, NEW hash, hash = upgrader[u].hashes[t],
           NEW new, new = IF Records(seen, hash) THEN release ELSE hash
    PROVE  /\ HasItsDesign(t)' /\ HashFits(t, new)'
           /\ rows'[t] # rows[t] => ~HasItsDesign(t) /\ rows'[t] = release
           /\ rows'[t] = release => new = release
           /\ ~Records(seen, hash) /\ ~upgrader[u].changed /\ rows'[t] = release =>
                 rows[t] = release /\ seeded[t] = release
<1>1. /\ rows \in [Defaults -> 0..Theirs] /\ release \in Nat /\ release > 0 /\ release < Own
      /\ hash \in 0..release /\ t \in Defaults /\ release' = release
      /\ Own < Theirs /\ Own > 0 /\ Theirs > 0 /\ release < Theirs /\ Own \in Nat /\ Theirs \in Nat
      /\ Missing = 0 /\ Missing # release /\ Missing # Own /\ Missing # Theirs
  <2>1. t \in Defaults /\ release' = release
    BY DEF UpgradeInv, StoresRow
  <2>2. hash \in 0..release /\ rows \in [Defaults -> 0..Theirs] /\ release \in Releases
    BY <2>1, RequestFields, TypesOfUpgrade DEF UpgradeInv
  <2> QED BY <2>1, <2>2, UpgradeBounds DEF Releases, Own, Theirs, Missing
<1>2. /\ rows' = IF Writes(seen, hash) /\ (seen = Missing => rows[t] = Missing)
                 THEN [rows EXCEPT ![t] = release] ELSE rows
      /\ overwritten' = IF rows[t] = Own /\ rows'[t] # Own THEN overwritten \cup {t}
                        ELSE overwritten
      /\ upgrader[u].at = "store" /\ UNCHANGED <<release, seeded>>
  BY DEF StoresRow
<1>3. t \notin overwritten /\ ~(rows[t] = Own /\ rows'[t] # Own)
  BY <1>2
<1>4. RowIsKnown(t) /\ Knows(upgrader[u], t)
  BY <1>1, <1>3 DEF UpgradeInv, RowIsKnown
<1>5. /\ SeenFits(t, seen, hash) /\ HashFits(t, hash)
      /\ ~upgrader[u].changed /\ hash = release /\ rows[t] = release => seeded[t] = release
  BY <1>2, <1>4 DEF Knows
<1>6. rows[t] \in Designs /\ seen \in Designs
  BY <1>4, <1>5 DEF RowIsKnown, SeenFits
<1>7. CASE Writes(seen, hash) /\ (seen = Missing => rows[t] = Missing)
  <2>1. rows'[t] = release /\ rows[t] # Own
    BY <1>1, <1>2, <1>3, <1>7
  <2>2. Records(seen, hash) /\ new = release
    BY <1>7 DEF Records
  <2>3. seen = Missing \/ seen \in 1..(release - 1)
    BY <1>1, <1>6, <1>7 DEF Writes, IsPristine, Designs
  <2>4. rows[t] # release => ~HasItsDesign(t)
    BY <2>1, <2>3, <1>1, <1>5, <1>7 DEF SeenFits, HasItsDesign
  <2>5. HasItsDesign(t)' /\ HashFits(t, new)'
    BY <2>1, <2>2, <1>1, <1>2 DEF HasItsDesign, HashFits
  <2> QED BY <2>1, <2>2, <2>4, <2>5
<1>8. CASE ~(Writes(seen, hash) /\ (seen = Missing => rows[t] = Missing))
  <2>1. rows'[t] = rows[t]
    BY <1>2, <1>8
  <2>2. CASE seen = Missing
    <3>1. Writes(seen, hash)
      BY <2>2 DEF Writes
    <3>2. rows[t] \in {release, Own} /\ new = release
      BY <2>2, <3>1, <1>1, <1>5, <1>8 DEF SeenFits, Records
    <3> QED BY <2>1, <3>1, <3>2, <1>1, <1>2 DEF HasItsDesign, HashFits, Records
  <2>3. CASE seen = release
    <3>1. rows[t] \in {release, Own}
      BY <2>3, <1>1, <1>5 DEF SeenFits
    <3>2. new = release
      BY <2>3 DEF Records
    <3>3. HasItsDesign(t)' /\ HashFits(t, new)'
      BY <2>1, <3>1, <3>2, <1>1, <1>2 DEF HasItsDesign, HashFits
    <3>4. ~Records(seen, hash) => hash = release
      BY <2>3 DEF Records
    <3> QED BY <2>1, <3>1, <3>2, <3>3, <3>4, <1>5
  <2>4. CASE seen \in {Own, Theirs}
    <3>1. rows[t] = seen /\ rows[t] # release
      BY <2>4, <1>1, <1>5 DEF SeenFits
    <3>2. ~Writes(seen, hash)
      BY <2>4, <1>1 DEF Writes, IsPristine
    <3>3. new = hash
      BY <2>4, <3>2, <1>1 DEF Records
    <3>4. HasItsDesign(t)' /\ HashFits(t, new)'
      BY <2>1, <2>4, <3>1, <3>3, <1>1, <1>2, <1>5 DEF HasItsDesign, HashFits, IsPristine
    <3> QED BY <2>1, <3>1, <3>4
  <2>5. CASE seen \in 1..(release - 1)
    <3>1. Writes(seen, hash)
      BY <2>5, <1>1, <1>5 DEF Writes, SeenFits
    <3> QED BY <2>5, <3>1, <1>1, <1>8
  <2> QED BY <2>2, <2>3, <2>4, <2>5, <1>1, <1>6 DEF Designs
<1> QED BY <1>7, <1>8

\* What others know of the row a seeder is done with.
LEMMA OthersStillKnow ==
    ASSUME NEW t \in Defaults, NEW x, RowIsKnown(t), Knows(x, t),
           UNCHANGED <<release, seeded>>,
           release \in Nat \ {0}, release < Own,
           rows'[t] # rows[t] => ~HasItsDesign(t) /\ rows'[t] = release
    PROVE  Knows(x, t)'
<1>1. Missing = 0 /\ Own \in Nat /\ Theirs \in Nat /\ Theirs > Own
  BY UpgradeBounds DEF Missing, Own, Theirs
<1>2. CASE rows'[t] = rows[t]
  BY <1>2 DEF Knows, HashFits, SeenFits, HasItsDesign, Designs
<1>3. CASE rows'[t] # rows[t]
  <2>1. ~HasItsDesign(t) /\ rows'[t] = release /\ rows[t] \notin {release, Own, Theirs}
    BY <1>3 DEF HasItsDesign
  <2>2. Designs' = Designs
    BY DEF Designs
  <2>3. ASSUME x.at \in {"find", "store"}
        PROVE  /\ HashFits(t, x.hashes[t])' /\ x.hashes[t] # release
               /\ ~(t < x.next)
    BY <2>1, <2>3, <1>1 DEF Knows, HashFits
  <2>4. ASSUME x.at = "store", t = x.next
        PROVE  SeenFits(t, x.seen, x.hashes[t])'
    BY <2>1, <2>2, <2>4, <1>1 DEF Knows, SeenFits, IsPristine
  <2> QED BY <2>3, <2>4 DEF Knows
<1> QED BY <1>2, <1>3

LEMMA StoreStep ==
    ASSUME UpgradeInv, NEW u \in Upgraders, StoresRow(u)
    PROVE  UpgradeInv'
<1>1. /\ upgradeLock \in {"free", "held", "stale"} /\ backoff \in BOOLEAN /\ faults \in 0..MaxFaults
      /\ release \in Nat \ {0} /\ release \in Releases /\ upgrader \in [Upgraders -> RequestStates]
      /\ version \in 0..release /\ schema \in 0..release /\ applied \subseteq Releases
      /\ seeded \in [Defaults -> 0..release] /\ rows \in [Defaults -> 0..Theirs]
      /\ overwritten \subseteq Defaults /\ release < Own
  BY TypesOfUpgrade, UpgradeBounds DEF UpgradeInv, Releases, Own
<1>19. PICK t, seen, hashes : /\ t = upgrader[u].next /\ seen = upgrader[u].seen
                              /\ hashes = upgrader[u].hashes
  OBVIOUS
<1>20. PICK did : did = Records(seen, hashes[t])
  OBVIOUS
<1>2. /\ upgrader[u].at = "store" /\ t \in Defaults /\ upgrader[u] \in RequestStates
      /\ hashes \in [Defaults -> 0..release] /\ upgrader[u].changed \in BOOLEAN
  BY <1>1, <1>19, RequestFields DEF StoresRow, UpgradeInv, RequestStates
<1>3. did \in BOOLEAN
  BY <1>20 DEF Records, Writes, IsPristine
<1>4. PICK h : h = IF did THEN [hashes EXCEPT ![t] = release] ELSE hashes
  OBVIOUS
<1>5. h \in [Defaults -> 0..release] /\ h[t] = (IF did THEN release ELSE hashes[t])
      /\ \A s \in Defaults \ {t} : h[s] = hashes[s]
  BY <1>1, <1>2, <1>4
<1>6. PICK w : w = [upgrader[u] EXCEPT !.at = "find", !.next = t + 1, !.seen = Missing,
                                       !.hashes = h, !.changed = upgrader[u].changed \/ did]
  OBVIOUS
<1>7. t + 1 \in 1..(LastTemplate + 1) /\ Missing \in 0..Theirs
  BY <1>2, UpgradeBounds DEF Defaults, Missing, Theirs
<1>8. /\ w \in RequestStates /\ w.at = "find" /\ w.next = t + 1 /\ w.hashes = h
      /\ w.changed = (upgrader[u].changed \/ did)
  BY <1>2, <1>3, <1>5, <1>6, <1>7 DEF RequestStates, UpgradePlaces
<1>9. upgrader' = [upgrader EXCEPT ![u] = w]
  BY <1>1, <1>4, <1>6, <1>19, <1>20 DEF StoresRow
<1>10. \A v \in Upgraders : upgrader'[v] = IF v = u THEN w ELSE upgrader[v]
  BY <1>1, <1>9
<1>11. /\ UNCHANGED <<release, version, schema, applied, upgradeLock, backoff, seeded, faults>>
       /\ overwritten \subseteq overwritten' /\ overwritten' \subseteq Defaults
       /\ \A s \in Defaults \ {t} : rows'[s] = rows[s]
       /\ rows' \in [Defaults -> 0..Theirs]
  <2>1. UNCHANGED <<release, version, schema, applied, upgradeLock, backoff, seeded, faults>>
    BY DEF StoresRow, database, guards
  <2>2. overwritten \subseteq overwritten' /\ overwritten' \subseteq Defaults
    BY <1>1, <1>2, <1>19 DEF StoresRow
  <2>3. rows' = [rows EXCEPT ![t] = release] \/ rows' = rows
    BY <1>19 DEF StoresRow
  <2>4. release \in 0..Theirs
    BY <1>1, UpgradeBounds DEF Own, Theirs
  <2> QED BY <2>1, <2>2, <2>3, <2>4, <1>1
<1>12. UpgradeTypeOK'
  <2>1. RequestStates' = RequestStates
    BY <1>11 DEF RequestStates
  <2>2. upgrader' \in [Upgraders -> RequestStates]
    BY <1>1, <1>8, <1>9
  <2>3. upgrader' \in [Upgraders -> RequestStates']
    BY <2>1, <2>2
  <2> QED BY <2>3, <1>1, <1>11, TypesOfUpgradeNext
<1>13. \A v \in Upgraders : Ran(upgrader[v])'
  <2>1. \A x : Ran(x) => Ran(x)'
    BY <1>11 DEF Ran
  <2>2. Ran(w)
    BY <1>2, <1>8 DEF UpgradeInv, Ran
  <2> QED BY <2>1, <2>2, <1>10 DEF UpgradeInv
<1>14. \A v \in Upgraders : upgrader'[v].at = "store" => upgrader'[v].next \in Defaults
  BY <1>8, <1>10 DEF UpgradeInv
<1>15. Seeded' => Seeded
  BY <1>8, <1>10, <1>11 DEF Seeded
<1>16. RowIsKnown(t)' \/ t \in overwritten'
  <2> SUFFICES ASSUME t \notin overwritten' PROVE RowIsKnown(t)'
    OBVIOUS
  <2>1. RowIsKnown(t)
    BY <1>2, <1>11 DEF UpgradeInv
  <2>2. /\ HasItsDesign(t)' /\ HashFits(t, h[t])'
        /\ rows'[t] # rows[t] => ~HasItsDesign(t) /\ rows'[t] = release
        /\ rows'[t] = release => h[t] = release
        /\ ~did /\ ~upgrader[u].changed /\ rows'[t] = release =>
              rows[t] = release /\ seeded[t] = release
    BY <1>5, <1>19, <1>20, RowIsDone
  <2>3. Knows(w, t)'
    <3>1. ~w.changed => ~did /\ ~upgrader[u].changed
      BY <1>2, <1>3, <1>8
    <3> QED BY <2>2, <3>1, <1>8, <1>11 DEF Knows
  <2>4. \A v \in Upgraders : Knows(upgrader[v], t)'
    BY <2>1, <2>2, <2>3, <1>1, <1>2, <1>10, <1>11, OthersStillKnow DEF RowIsKnown
  <2>5. rows'[t] \in Designs'
    BY <2>2, <1>1, <1>11 DEF HasItsDesign, Designs
  <2>6. HashFits(t, seeded[t])'
    <3>1. CASE rows'[t] = rows[t]
      BY <3>1, <2>1, <1>11 DEF RowIsKnown, HashFits
    <3>2. CASE rows'[t] # rows[t]
      BY <3>2, <2>2, <1>1, <1>11 DEF HashFits
    <3> QED BY <3>1, <3>2
  <2>7. ASSUME Seeded' PROVE rows'[t] = release' => seeded'[t] = release'
    <3>1. HasItsDesign(t) /\ (rows[t] = release => seeded[t] = release)
      BY <2>1, <2>7, <1>15 DEF RowIsKnown
    <3> QED BY <2>2, <3>1, <1>11
  <2> QED BY <2>2, <2>4, <2>5, <2>6, <2>7 DEF RowIsKnown
<1>17. ASSUME NEW s \in Defaults \ overwritten', s # t
       PROVE  RowIsKnown(s)'
  <2>1. RowIsKnown(s) /\ rows'[s] = rows[s] /\ s \in Defaults
    BY <1>11, <1>17 DEF UpgradeInv
  <2>2. Knows(upgrader[u], s)
    BY <2>1 DEF RowIsKnown
  <2>3. s < t + 1 => s < t
    BY <2>1, <1>2, <1>17, UpgradeBounds DEF Defaults
  <2>4. Knows(w, s)'
    <3>1. w.hashes[s] = upgrader[u].hashes[s]
      BY <2>1, <1>5, <1>8, <1>17, <1>19
    <3>2. ~w.changed => ~upgrader[u].changed
      BY <1>2, <1>3, <1>8
    <3>3. s < w.next => s < upgrader[u].next
      BY <2>3, <1>8, <1>19
    <3>4. HashFits(s, w.hashes[s])'
      BY <3>1, <2>1, <2>2, <1>2, <1>8, <1>11 DEF Knows, HashFits
    <3>5. s < w.next => HasItsDesign(s)' /\ (rows'[s] = release' => w.hashes[s] = release')
      BY <3>1, <3>3, <2>1, <2>2, <1>2, <1>11 DEF Knows, HasItsDesign
    <3>6. ~w.changed /\ w.hashes[s] = release' /\ rows'[s] = release' => seeded'[s] = release'
      BY <3>1, <3>2, <2>1, <2>2, <1>2, <1>11 DEF Knows
    <3> QED BY <3>4, <3>5, <3>6, <1>8 DEF Knows
  <2>5. \A v \in Upgraders : Knows(upgrader[v], s)'
    BY <2>1, <2>4, <1>1, <1>10, <1>11, OthersStillKnow DEF RowIsKnown
  <2>6. rows'[s] \in Designs' /\ HashFits(s, seeded[s])'
    BY <2>1, <1>11 DEF RowIsKnown, Designs, HashFits
  <2>7. Seeded' => HasItsDesign(s)' /\ (rows'[s] = release' => seeded'[s] = release')
    BY <2>1, <1>11, <1>15 DEF RowIsKnown, HasItsDesign
  <2> QED BY <2>5, <2>6, <2>7 DEF RowIsKnown
<1>18. 1..schema' \subseteq applied' /\ (version' = release' => 1..release' \subseteq applied')
  BY <1>11 DEF UpgradeInv
<1> QED BY <1>12, <1>13, <1>14, <1>16, <1>17, <1>18 DEF UpgradeInv

LEMMA SavesHashesStep ==
    ASSUME UpgradeInv, NEW u \in Upgraders, SavesHashes(u)
    PROVE  UpgradeInv'
<1>1. /\ upgradeLock \in {"free", "held", "stale"} /\ backoff \in BOOLEAN /\ faults \in 0..MaxFaults
      /\ release \in Nat \ {0} /\ release \in Releases /\ upgrader \in [Upgraders -> RequestStates]
      /\ version \in 0..release /\ schema \in 0..release /\ applied \subseteq Releases
      /\ seeded \in [Defaults -> 0..release] /\ rows \in [Defaults -> 0..Theirs]
      /\ overwritten \subseteq Defaults
  BY TypesOfUpgrade, UpgradeBounds DEF UpgradeInv, Releases
<1>2. PICK w : w = [Absent EXCEPT !.at = "version"]
  OBVIOUS
<1>3. w \in RequestStates /\ w.at = "version"
  BY <1>1, <1>2, AbsentIsARequest
<1>4. /\ upgrader[u].at = "find" /\ upgrader[u].next \notin Defaults
      /\ upgrader' = [upgrader EXCEPT ![u] = w]
      /\ seeded' = IF upgrader[u].changed THEN upgrader[u].hashes ELSE seeded
      /\ UNCHANGED <<release, version, schema, applied, upgradeLock, backoff, rows, overwritten, faults>>
  BY <1>2 DEF SavesHashes, database, guards
<1>5. /\ upgrader[u].hashes \in [Defaults -> 0..release]
      /\ \A t \in Defaults : t < upgrader[u].next
  BY <1>4, RequestFields, UpgradeBounds DEF Defaults
<1>6. \A v \in Upgraders : upgrader'[v] = IF v = u THEN w ELSE upgrader[v]
  BY <1>1, <1>4
<1>7. UpgradeTypeOK'
  <2>1. RequestStates' = RequestStates
    BY <1>4 DEF RequestStates
  <2>2. upgrader' \in [Upgraders -> RequestStates]
    BY <1>1, <1>3, <1>4
  <2>3. upgrader' \in [Upgraders -> RequestStates']
    BY <2>1, <2>2
  <2>4. seeded' \in [Defaults -> 0..release]
    BY <1>1, <1>4, <1>5
  <2> QED BY <2>3, <2>4, <1>1, <1>4, TypesOfUpgradeNext
<1>8. \A v \in Upgraders : Ran(upgrader[v])'
  <2>1. \A x : Ran(x) => Ran(x)'
    BY <1>4 DEF Ran
  <2>2. Ran(w)
    BY <1>3, <1>4 DEF UpgradeInv, Ran
  <2> QED BY <2>1, <2>2, <1>6 DEF UpgradeInv
<1>9. ASSUME NEW t \in Defaults \ overwritten'
      PROVE  RowIsKnown(t)'
  <2>1. RowIsKnown(t) /\ t \in Defaults
    BY <1>4 DEF UpgradeInv
  <2>2. Knows(upgrader[u], t)
    BY <2>1 DEF RowIsKnown
  <2>3. /\ HashFits(t, upgrader[u].hashes[t])
        /\ ~upgrader[u].changed /\ upgrader[u].hashes[t] = release /\ rows[t] = release =>
              seeded[t] = release
        /\ HasItsDesign(t) /\ (rows[t] = release => upgrader[u].hashes[t] = release)
    BY <2>1, <2>2, <1>4, <1>5 DEF Knows
  <2>4. rows[t] = release => seeded'[t] = release
    BY <2>3, <1>4
  <2>5. HashFits(t, seeded[t])'
    <3>1. PICK h : h = seeded'[t]
      OBVIOUS
    <3>2. HashFits(t, h)
      BY <3>1, <2>1, <2>3, <1>4 DEF RowIsKnown
    <3> QED BY <3>1, <3>2, <1>4 DEF HashFits
  <2>6. ASSUME NEW v \in Upgraders
        PROVE  Knows(upgrader[v], t)'
    <3>1. ASSUME NEW x, Knows(x, t)
          PROVE  Knows(x, t)'
      BY <2>4, <3>1, <1>4 DEF Knows, HashFits, SeenFits, HasItsDesign, Designs
    <3>2. Knows(w, t)
      BY <1>3 DEF Knows
    <3> QED BY <3>1, <3>2, <2>1, <1>6 DEF RowIsKnown
  <2>7. HasItsDesign(t)' /\ rows'[t] \in Designs'
    BY <2>1, <2>3, <1>4 DEF RowIsKnown, HasItsDesign, Designs
  <2> QED BY <2>4, <2>5, <2>6, <2>7, <1>4 DEF RowIsKnown
<1>10. \A v \in Upgraders : upgrader'[v].at = "store" => upgrader'[v].next \in Defaults
  BY <1>3, <1>6 DEF UpgradeInv
<1>11. 1..schema' \subseteq applied' /\ (version' = release' => 1..release' \subseteq applied')
  BY <1>4 DEF UpgradeInv
<1> QED BY <1>7, <1>8, <1>9, <1>10, <1>11 DEF UpgradeInv

LEMMA StampStep ==
    ASSUME UpgradeInv, NEW u \in Upgraders, StampsVersion(u)
    PROVE  UpgradeInv'
<1>1. /\ upgradeLock \in {"free", "held", "stale"} /\ backoff \in BOOLEAN /\ faults \in 0..MaxFaults
      /\ release \in Nat \ {0} /\ release \in Releases /\ upgrader \in [Upgraders -> RequestStates]
      /\ version \in 0..release /\ schema \in 0..release /\ applied \subseteq Releases
      /\ seeded \in [Defaults -> 0..release] /\ rows \in [Defaults -> 0..Theirs]
      /\ overwritten \subseteq Defaults
  BY TypesOfUpgrade, UpgradeBounds DEF UpgradeInv, Releases
<1>2. PICK w : w = [upgrader[u] EXCEPT !.at = "unlock"]
  OBVIOUS
<1>3. w \in RequestStates /\ w.at = "unlock"
  <2>1. upgrader[u] \in RequestStates /\ "unlock" \in UpgradePlaces
    BY <1>1 DEF UpgradePlaces
  <2> QED BY <2>1, <1>2, PlaceChanges
<1>4. /\ upgrader[u].at = "version" /\ upgrader' = [upgrader EXCEPT ![u] = w] /\ version' = release
      /\ UNCHANGED <<release, schema, applied, upgradeLock, backoff, rows, seeded, overwritten, faults>>
  BY <1>2 DEF StampsVersion, guards, templates
<1>5. \A v \in Upgraders : upgrader'[v] = IF v = u THEN w ELSE upgrader[v]
  BY <1>1, <1>4
<1>6. UpgradeTypeOK'
  <2>1. RequestStates' = RequestStates
    BY <1>4 DEF RequestStates
  <2>2. upgrader' \in [Upgraders -> RequestStates]
    BY <1>1, <1>3, <1>4
  <2>3. upgrader' \in [Upgraders -> RequestStates']
    BY <2>1, <2>2
  <2>4. version' \in 0..release
    BY <1>1, <1>4
  <2> QED BY <2>3, <2>4, <1>1, <1>4, TypesOfUpgradeNext
<1>7. \A v \in Upgraders : Ran(upgrader[v])'
  <2>1. \A x : Ran(x) => Ran(x)'
    BY <1>4 DEF Ran
  <2>2. Ran(w)
    BY <1>3 DEF Ran
  <2> QED BY <2>1, <2>2, <1>5 DEF UpgradeInv
<1>8. 1..release \subseteq applied /\ Seeded
  BY <1>4 DEF UpgradeInv, Ran, Seeded
<1>9. ASSUME NEW t \in Defaults \ overwritten'
      PROVE  RowIsKnown(t)'
  <2>1. RowIsKnown(t) /\ t \in Defaults
    BY <1>4 DEF UpgradeInv
  <2>2. \A x : Knows(x, t) => Knows(x, t)'
    BY <1>4 DEF Knows, HashFits, SeenFits, HasItsDesign, Designs
  <2>3. Knows(w, t)
    BY <1>3 DEF Knows
  <2>4. \A v \in Upgraders : Knows(upgrader[v], t)'
    BY <2>1, <2>2, <2>3, <1>5 DEF RowIsKnown
  <2>5. HasItsDesign(t)' /\ (rows'[t] = release' => seeded'[t] = release')
    BY <2>1, <1>4, <1>8 DEF RowIsKnown, HasItsDesign
  <2>6. rows'[t] \in Designs' /\ HashFits(t, seeded[t])'
    BY <2>1, <1>4 DEF RowIsKnown, Designs, HashFits
  <2> QED BY <2>4, <2>5, <2>6 DEF RowIsKnown
<1>10. \A v \in Upgraders : upgrader'[v].at = "store" => upgrader'[v].next \in Defaults
  BY <1>3, <1>5 DEF UpgradeInv
<1>11. 1..schema' \subseteq applied' /\ (version' = release' => 1..release' \subseteq applied')
  BY <1>4, <1>8 DEF UpgradeInv
<1> QED BY <1>6, <1>7, <1>9, <1>10, <1>11 DEF UpgradeInv

\* A new release: its rows are those of the last one, and recorded as such.
LEMMA DeployStep ==
    ASSUME UpgradeInv, Deploy
    PROVE  UpgradeInv'
<1>1. /\ upgradeLock \in {"free", "held", "stale"} /\ backoff \in BOOLEAN /\ faults \in 0..MaxFaults
      /\ release \in Nat \ {0} /\ release \in Releases /\ upgrader \in [Upgraders -> RequestStates]
      /\ version \in 0..release /\ schema \in 0..release /\ applied \subseteq Releases
      /\ seeded \in [Defaults -> 0..release] /\ rows \in [Defaults -> 0..Theirs]
      /\ overwritten \subseteq Defaults
  BY TypesOfUpgrade, UpgradeBounds DEF UpgradeInv, Releases
<1>2. /\ release < MaxRelease /\ version = release /\ release' = release + 1
      /\ \A u \in Upgraders : upgrader[u] = Absent
      /\ UNCHANGED <<version, schema, applied, upgradeLock, backoff, rows, seeded, overwritten,
                     faults, upgrader>>
  BY DEF Deploy, database, guards, templates
<1>3. release' \in Releases /\ release' \in Nat /\ release' < Own /\ Own \in Nat
  BY <1>1, <1>2, UpgradeBounds DEF Releases, Own
<1>4. UpgradeTypeOK'
  <2>1. version' \in 0..release' /\ schema' \in 0..release' /\ seeded' \in [Defaults -> 0..release']
    BY <1>1, <1>2
  <2>2. \A x \in RequestStates : x \in RequestStates'
    BY <1>1, <1>2 DEF RequestStates
  <2>3. upgrader' \in [Upgraders -> RequestStates']
    BY <2>2, <1>1, <1>2
  <2> QED BY <2>1, <2>3, <1>1, <1>2, <1>3, TypesOfUpgradeNext
<1>5. \A u \in Upgraders : upgrader'[u].at = "away"
  BY <1>1, <1>2, AbsentIsARequest
<1>6. \A u \in Upgraders : Ran(upgrader[u])' /\ \A t : Knows(upgrader[u], t)'
  BY <1>5 DEF Ran, Knows
<1>7. ASSUME NEW t \in Defaults \ overwritten'
      PROVE  RowIsKnown(t)'
  <2>1. RowIsKnown(t) /\ Seeded /\ seeded[t] \in 0..release
    BY <1>1, <1>2 DEF UpgradeInv, Seeded
  <2>2. rows[t] \in {release, Own, Theirs} /\ (rows[t] = release => seeded[t] = release)
    BY <2>1 DEF RowIsKnown, HasItsDesign
  <2>3. HashFits(t, seeded[t])'
    <3>1. Theirs \in Nat /\ Theirs > Own
      BY UpgradeBounds DEF Theirs, Own
    <3> QED BY <2>1, <2>2, <3>1, <1>1, <1>2, <1>3 DEF HashFits, IsPristine
  <2>4. rows'[t] \in Designs'
    BY <2>2, <1>1, <1>2 DEF Designs
  <2>5. ~Seeded'
    BY <1>1, <1>2, <1>5 DEF Seeded
  <2> QED BY <2>3, <2>4, <2>5, <1>6 DEF RowIsKnown
<1>8. 1..schema' \subseteq applied' /\ version' # release'
  BY <1>1, <1>2 DEF UpgradeInv
<1> QED BY <1>4, <1>5, <1>6, <1>7, <1>8 DEF UpgradeInv

LEMMA TimeAndEdits ==
    ASSUME UpgradeInv, UpgradeLockAges \/ BackoffEnds \/ \E t \in Defaults : EditsTemplate(t)
    PROVE  UpgradeInv'
<1>1. /\ upgradeLock \in {"free", "held", "stale"} /\ backoff \in BOOLEAN /\ faults \in 0..MaxFaults
      /\ release \in Nat \ {0} /\ release \in Releases /\ upgrader \in [Upgraders -> RequestStates]
      /\ version \in 0..release /\ schema \in 0..release /\ applied \subseteq Releases
      /\ seeded \in [Defaults -> 0..release] /\ rows \in [Defaults -> 0..Theirs]
      /\ overwritten \subseteq Defaults
  BY TypesOfUpgrade, UpgradeBounds DEF UpgradeInv, Releases
<1>2. /\ UNCHANGED <<release, version, schema, applied, seeded, overwritten, faults, upgrader>>
      /\ upgradeLock' \in {"free", "held", "stale"} /\ backoff' \in BOOLEAN
  BY <1>1 DEF UpgradeLockAges, BackoffEnds, EditsTemplate, database, guards, templates
<1>3. /\ rows' \in [Defaults -> 0..Theirs]
      /\ \A t \in Defaults : rows'[t] = rows[t] \/ (rows[t] \in Releases /\ rows'[t] = Own)
  <2>1. CASE UpgradeLockAges \/ BackoffEnds
    BY <2>1, <1>1 DEF UpgradeLockAges, BackoffEnds, templates
  <2>2. ASSUME NEW t \in Defaults, EditsTemplate(t)
        PROVE  /\ rows' \in [Defaults -> 0..Theirs]
               /\ \A s \in Defaults : rows'[s] = rows[s] \/ (rows[s] \in Releases /\ rows'[s] = Own)
    <3>1. Own \in 0..Theirs
      BY UpgradeBounds DEF Own, Theirs
    <3> QED BY <2>2, <3>1, <1>1 DEF EditsTemplate
  <2> QED BY <2>1, <2>2
<1>4. UpgradeTypeOK'
  <2>1. upgrader' \in [Upgraders -> RequestStates']
    BY <1>1, <1>2 DEF RequestStates
  <2> QED BY <2>1, <1>1, <1>2, <1>3, TypesOfUpgradeNext
<1>5. \A u \in Upgraders : Ran(upgrader[u])'
  BY <1>2 DEF UpgradeInv, Ran
<1>6. ASSUME NEW t \in Defaults \ overwritten'
      PROVE  RowIsKnown(t)'
  <2>1. RowIsKnown(t) /\ t \in Defaults
    BY <1>2 DEF UpgradeInv
  <2>2. Seeded' <=> Seeded
    BY <1>2 DEF Seeded
  <2>3. CASE rows'[t] = rows[t]
    <3>1. \A x : Knows(x, t) => Knows(x, t)'
      BY <2>3, <1>2 DEF Knows, HashFits, SeenFits, HasItsDesign, Designs
    <3> QED BY <2>1, <2>2, <2>3, <3>1, <1>2 DEF RowIsKnown, Designs, HashFits, HasItsDesign
  <2>4. CASE rows[t] \in Releases /\ rows'[t] = Own
    <3>1. Own \in Nat /\ release < Own /\ Theirs \in Nat /\ Missing = 0 /\ Own > 0 /\ Theirs > Own
      BY <1>1, UpgradeBounds DEF Own, Theirs, Releases, Missing
    <3>2. rows[t] # Own /\ rows[t] # Theirs /\ rows[t] # Missing
      BY <2>4, <3>1, UpgradeBounds DEF Releases, Own, Theirs
    <3>3. HasItsDesign(t)' /\ rows'[t] # release /\ rows'[t] \in Designs' /\ \A h : HashFits(t, h)'
      BY <2>4, <3>1, <1>1, <1>2 DEF HasItsDesign, Designs, HashFits
    <3>4. ASSUME NEW x, Knows(x, t)
          PROVE  Knows(x, t)'
      <4>1. SeenFits(t, x.seen, x.hashes[t]) => SeenFits(t, x.seen, x.hashes[t])'
        BY <2>4, <3>1, <3>2, <1>2 DEF SeenFits, IsPristine, Designs
      <4> QED BY <3>3, <3>4, <4>1, <1>2 DEF Knows
    <3> QED BY <2>1, <2>2, <3>3, <3>4, <1>2 DEF RowIsKnown
  <2> QED BY <2>1, <2>3, <2>4, <1>3
<1>7. /\ 1..schema' \subseteq applied' /\ (version' = release' => 1..release' \subseteq applied')
      /\ \A v \in Upgraders : upgrader'[v].at = "store" => upgrader'[v].next \in Defaults
  BY <1>2 DEF UpgradeInv
<1> QED BY <1>4, <1>5, <1>6, <1>7 DEF UpgradeInv

\* Every step keeps the invariant of the upgrades.
LEMMA UpgradeStep == UpgradeInv /\ [UpgradeNext]_upgradeVars => UpgradeInv'
<1> SUFFICES ASSUME UpgradeInv, [UpgradeNext]_upgradeVars PROVE UpgradeInv'
  OBVIOUS
<1>1. CASE Deploy
  BY <1>1, DeployStep
<1>2. CASE UpgradeLockAges \/ BackoffEnds \/ \E t \in Defaults : EditsTemplate(t)
  BY <1>2, TimeAndEdits
<1>3. ASSUME NEW u \in Upgraders, Notices(u) \/ GoesOn(u) \/ Throws(u) \/ UpgradeDies(u)
      PROVE  UpgradeInv'
  BY <1>3, LockSteps, FaultSteps, MigrationSteps, SeedingSteps, StoreStep, SavesHashesStep, StampStep
     DEF GoesOn
<1>4. CASE UNCHANGED upgradeVars
  <2>1. UNCHANGED <<release, version, schema, applied, upgradeLock, backoff, rows, seeded,
                    overwritten, upgrader, faults>>
    BY <1>4 DEF upgradeVars, database, guards, templates
  <2> QED BY <2>1 DEF UpgradeInv, UpgradeTypeOK, Ran, RowIsKnown, Knows, HashFits, SeenFits,
             HasItsDesign, Designs, Seeded
<1> QED BY <1>1, <1>2, <1>3, <1>4 DEF UpgradeNext

\* The inductive invariant of the upgrades.
THEOREM UpgradeInvariant == UpgradeSpec => []UpgradeInv
BY InitUpgrade, UpgradeStep, PTL DEF UpgradeSpec

\* For any number of requests that upgrade at once, of releases, of default templates, and
\* of upgrades that die or throw: a recorded schema version has had its migrations and a
\* recorded release its templates, and an edit is overwritten only by a seeder that had
\* read its row before.
THEOREM UpgradeIsSafe == UpgradeSpec => UpgradesAreSafe
<1>1. UpgradeInv => VersionIsEarned
  BY DEF UpgradeInv, VersionIsEarned, RowIsKnown, Seeded, HasItsDesign
<1> DEFINE Outlives ==
        \A t \in Defaults : rows[t] \in {Own, Theirs} =>
             \/ rows'[t] = rows[t]
             \/ \E u \in Upgraders : /\ upgrader[u].at = "store" /\ upgrader[u].next = t
                                     /\ upgrader[u].seen \in Releases \ {release}
<1>2. UpgradeInv /\ [UpgradeNext]_upgradeVars => [Outlives]_upgradeVars
  <2> SUFFICES ASSUME UpgradeInv, UpgradeNext, NEW t \in Defaults,
                      rows[t] \in {Own, Theirs}, rows'[t] # rows[t]
               PROVE  \E u \in Upgraders : /\ upgrader[u].at = "store" /\ upgrader[u].next = t
                                           /\ upgrader[u].seen \in Releases \ {release}
    OBVIOUS
  <2>1. /\ rows \in [Defaults -> 0..Theirs] /\ release \in Releases
        /\ Own \notin Releases /\ Theirs \notin Releases /\ Missing \notin {Own, Theirs}
    BY TypesOfUpgrade, UpgradeBounds DEF UpgradeInv, Releases, Own, Theirs, Missing
  <2>2. ~Deploy /\ ~UpgradeLockAges /\ ~BackoffEnds
    BY DEF Deploy, UpgradeLockAges, BackoffEnds, templates
  <2>3. \A s \in Defaults : ~EditsTemplate(s)
    BY <2>1 DEF EditsTemplate
  <2>4. PICK u \in Upgraders : StoresRow(u)
    BY <2>2, <2>3 DEF UpgradeNext, GoesOn, Notices, Locks, LooksAtLock, TakesOver, ReadsSchema,
       MigratesUp, StampsSchema, StartsSeeding, FindsRow, SavesHashes, StampsVersion, Unlocks,
       Throws, UpgradeDies, templates
  <2>5. PICK s, seen, hash : /\ s = upgrader[u].next /\ seen = upgrader[u].seen
                             /\ hash = upgrader[u].hashes[s]
    OBVIOUS
  <2>6. /\ upgrader[u].at = "store" /\ s \in Defaults
        /\ rows' = IF Writes(seen, hash) /\ (seen = Missing => rows[s] = Missing)
                   THEN [rows EXCEPT ![s] = release] ELSE rows
    <3>1. upgrader[u].at = "store"
      BY <2>4 DEF StoresRow
    <3>2. s \in Defaults
      BY <2>5, <3>1 DEF UpgradeInv
    <3>3. rows' = IF Writes(seen, hash) /\ (seen = Missing => rows[s] = Missing)
                  THEN [rows EXCEPT ![s] = release] ELSE rows
      BY <2>4, <2>5 DEF StoresRow
    <3> QED BY <3>1, <3>2, <3>3
  <2>7. s = t /\ Writes(seen, hash) /\ (seen = Missing => rows[s] = Missing)
    BY <2>1, <2>6
  <2>8. seen # release /\ (IF hash = 0 THEN seen = 1 ELSE seen = hash)
    BY <2>1, <2>7 DEF Writes, IsPristine
  <2>9. hash \in 0..release
    BY <2>5, <2>6, RequestFields
  <2>10. seen \in Releases
    BY <2>1, <2>8, <2>9, UpgradeBounds DEF Releases
  <2> QED BY <2>5, <2>6, <2>7, <2>8, <2>10
<1> QED BY <1>1, <1>2, UpgradeInvariant, PTL DEF UpgradeSpec, UpgradesAreSafe, EditsOutlive

-----------------------------------------------------------------------------
(* Pages of rows. *)

\* How many rows come before one, and the rows with less than n before them.
PlaceIn(list, id) == Cardinality({other \in list : other < id})
FirstOf(list, n) == {id \in list : PlaceIn(list, id) < n}

\* A set of numbers has a least one: what the inductions below rest on.
LEMMA LeastOf ==
    ASSUME NEW S \in SUBSET Nat, S # {}
    PROVE  Min(S) \in S /\ \A n \in S : Min(S) <= n
<1> DEFINE Upto(n) == 0 .. n
           T == {Upto(n) : n \in S}
           R == StrictSubsetOrdering(Nat)
<1>1. T \subseteq FiniteSubsetsOf(Nat)
  <2>1. \A n \in S : Upto(n) \subseteq Nat /\ IsFiniteSet(Upto(n))
    BY FS_Interval
  <2> QED BY <2>1 DEF FiniteSubsetsOf
<1>2. T # {}
  OBVIOUS
<1>3. PICK x \in T : \A y \in T : ~ (<<y, x>> \in R)
  <2>1. IsWellFoundedOn(R, FiniteSubsetsOf(Nat))
    BY FS_StrictSubsetOrderingWellFounded
  <2> HIDE DEF T, R
  <2> QED BY <1>1, <1>2, <2>1, WFMin
<1>4. PICK m \in S : x = Upto(m)
  BY <1>3
<1>5. \A n \in S : m <= n
  <2> SUFFICES ASSUME NEW n \in S, n < m PROVE FALSE
    OBVIOUS
  <2>1. /\ Upto(n) \subseteq Nat /\ Upto(m) \subseteq Nat /\ Upto(n) \subseteq Upto(m)
        /\ m \in Upto(m) /\ m \notin Upto(n)
    OBVIOUS
  <2>2. <<Upto(n), Upto(m)>> \in R
    <3> HIDE DEF Upto
    <3> QED BY <2>1 DEF StrictSubsetOrdering
  <2> QED BY <1>3, <1>4, <2>2
<1> QED BY <1>5 DEF Min

\* A finite list of numbers has a last one.
LEMMA LastOf ==
    ASSUME NEW S \in SUBSET Nat, S # {}, NEW bound \in Nat, \A n \in S : n <= bound
    PROVE  \E m \in S : \A n \in S : n <= m
<1> DEFINE Mirror == {bound - n : n \in S}
<1>1. Mirror \in SUBSET Nat /\ Mirror # {}
  <2>1. \A n \in S : bound - n \in Nat
    OBVIOUS
  <2>2. \A x \in Mirror : x \in Nat
    BY <2>1
  <2>3. PICK n \in S : TRUE
    OBVIOUS
  <2>4. bound - n \in Mirror
    OBVIOUS
  <2> QED BY <2>2, <2>4
<1>2. PICK x \in Mirror : \A y \in Mirror : x <= y
  <2> HIDE DEF Mirror
  <2> QED BY <1>1, LeastOf
<1>3. PICK m \in S : x = bound - m
  BY <1>2
<1>4. \A n \in S : bound - m <= bound - n
  BY <1>2, <1>3
<1>5. \A n \in S : n <= m
  BY <1>4
<1> QED BY <1>5

\* Ids of rows are bounded.
LEMMA ListsAreFinite ==
    ASSUME NEW list \in SUBSET RowIds
    PROVE  /\ list \subseteq Nat \ {0} /\ IsFiniteSet(list) /\ Cardinality(list) \in Nat
           /\ MaxRows + MaxDataChanges \in Nat /\ \A id \in list : id <= MaxRows + MaxDataChanges
<1>1. MaxRows + MaxDataChanges \in Nat
  BY UserDataAssumption
<1>2. IsFiniteSet(RowIds)
  BY <1>1, FS_Interval DEF RowIds
<1>3. IsFiniteSet(list)
  BY <1>2, FS_Subset
<1> QED BY <1>1, <1>3, FS_CardinalityType DEF RowIds

\* A row's place is below the number of rows, and above the place of any row before it.
LEMMA PlaceOf ==
    ASSUME NEW list \in SUBSET RowIds, NEW id \in list
    PROVE  /\ Cardinality(list) \in Nat
           /\ PlaceIn(list, id) \in Nat /\ PlaceIn(list, id) < Cardinality(list)
           /\ \A x \in list : x < id => PlaceIn(list, x) < PlaceIn(list, id)
<1> DEFINE B(x) == {other \in list : other < x}
<1>7. list \subseteq Nat /\ IsFiniteSet(list) /\ Cardinality(list) \in Nat
  BY ListsAreFinite
<1>1. ASSUME NEW x
      PROVE  IsFiniteSet(B(x)) /\ Cardinality(B(x)) \in Nat
  <2>1. B(x) \in SUBSET list
    OBVIOUS
  <2> HIDE DEF B
  <2> QED BY <1>7, <2>1, FS_Subset, FS_CardinalityType
<1>2. ASSUME NEW S, IsFiniteSet(S), NEW T \in SUBSET S, T # S
      PROVE  Cardinality(T) < Cardinality(S) /\ Cardinality(S) \in Nat
  <2>1. /\ IsFiniteSet(T) /\ Cardinality(T) <= Cardinality(S)
        /\ Cardinality(T) # Cardinality(S)
    BY <1>2, FS_Subset
  <2>2. Cardinality(T) \in Nat /\ Cardinality(S) \in Nat
    BY <1>2, <2>1, FS_CardinalityType
  <2> QED BY <2>1, <2>2
<1>3. B(id) \in SUBSET list /\ B(id) # list
  BY <1>7
<1>4. \A x \in list : x < id => B(x) \in SUBSET B(id) /\ B(x) # B(id)
  <2> SUFFICES ASSUME NEW x \in list, x < id
               PROVE  B(x) \in SUBSET B(id) /\ B(x) # B(id)
    OBVIOUS
  <2>1. x \in Nat /\ id \in Nat
    BY <1>7
  <2>2. \A y \in B(x) : y \in list /\ y < id
    BY <1>7, <2>1
  <2>3. x \in B(id) /\ x \notin B(x)
    BY <2>1
  <2>4. B(x) \in SUBSET B(id)
    BY <2>2
  <2> HIDE DEF B
  <2> QED BY <2>3, <2>4
<1> HIDE DEF B
<1>5. Cardinality(B(id)) < Cardinality(list)
  BY <1>2, <1>3, <1>7
<1>6. \A x \in list : x < id => Cardinality(B(x)) < Cardinality(B(id))
  BY <1>1, <1>2, <1>4
<1> QED BY <1>1, <1>5, <1>6, <1>7 DEF PlaceIn, B

\* If some row has n before it, then there are at least n that have less.
LEMMA ManyBefore ==
    ASSUME NEW list \in SUBSET RowIds, NEW n \in Nat,
           NEW id \in list, PlaceIn(list, id) >= n
    PROVE  Cardinality(FirstOf(list, n)) >= n
<1> DEFINE rest == list \ FirstOf(list, n)
<1>1. id \in rest
  BY PlaceOf DEF FirstOf
<1>2. rest \in SUBSET Nat /\ rest # {}
  BY <1>1, ListsAreFinite
<1>3. PICK z \in rest : \A x \in rest : z <= x
  <2> HIDE DEF rest
  <2> QED BY <1>2, LeastOf
<1>4. z \in list /\ PlaceIn(list, z) \in Nat /\ PlaceIn(list, z) >= n
  BY <1>3, PlaceOf DEF FirstOf
<1>5. {other \in list : other < z} = FirstOf(list, n)
  <2>1. ASSUME NEW x \in list, x < z
        PROVE  x \in FirstOf(list, n)
    BY <2>1, <1>3, <1>4, ListsAreFinite
  <2>2. ASSUME NEW x \in FirstOf(list, n)
        PROVE  x \in list /\ x < z
    <3>1. x \in list /\ PlaceIn(list, x) < n /\ PlaceIn(list, x) \in Nat
      BY PlaceOf DEF FirstOf
    <3>2. z < x => PlaceIn(list, z) < PlaceIn(list, x)
      BY <1>4, <3>1, PlaceOf
    <3> QED BY <1>4, <3>1, <3>2, ListsAreFinite
  <2> QED BY <2>1, <2>2
<1> QED BY <1>4, <1>5 DEF PlaceIn

\* And never more than n of them.
LEMMA FewBefore ==
    ASSUME NEW list \in SUBSET RowIds, NEW n \in Nat
    PROVE  /\ IsFiniteSet(FirstOf(list, n)) /\ Cardinality(FirstOf(list, n)) \in Nat
           /\ Cardinality(FirstOf(list, n)) <= n
<1> DEFINE F == FirstOf(list, n)
<1>1. F \in SUBSET list
  BY DEF FirstOf
<1>2. IsFiniteSet(F) /\ Cardinality(F) \in Nat
  <2> HIDE DEF F
  <2> QED BY <1>1, ListsAreFinite, FS_Subset, FS_CardinalityType
<1>3. CASE F = {}
  BY <1>2, <1>3, FS_EmptySet
<1>4. CASE F # {}
  <2>1. \A x \in F : PlaceIn(list, x) < n /\ PlaceIn(list, x) \in Nat
    BY PlaceOf DEF FirstOf
  <2> HIDE DEF F
  <2>2. PICK bound \in Nat : \A x \in F : x <= bound
    BY <1>1, ListsAreFinite
  <2>3. PICK m \in F : \A x \in F : x <= m
    BY ListsAreFinite, <1>1, <1>4, <2>2, LastOf
  <2>4. F \ {m} \subseteq {other \in list : other < m}
    BY <1>1, <2>3, ListsAreFinite
  <2>5. /\ IsFiniteSet({other \in list : other < m})
        /\ Cardinality(F \ {m}) <= Cardinality({other \in list : other < m})
    <3>1. {other \in list : other < m} \in SUBSET list
      OBVIOUS
    <3>2. IsFiniteSet({other \in list : other < m})
      BY <3>1, ListsAreFinite, FS_Subset
    <3> QED BY <3>2, <2>4, FS_Subset
  <2>6. Cardinality(F \ {m}) = Cardinality(F) - 1
    BY <1>2, <2>3, FS_RemoveElement
  <2>7. PlaceIn(list, m) < n /\ PlaceIn(list, m) \in Nat
    BY <2>1, <2>3
  <2> QED BY <1>2, <2>5, <2>6, <2>7 DEF PlaceIn, F
<1> QED BY <1>3, <1>4

\* A page that is not full is the last one.
LEMMA ShortPageEnds ==
    ASSUME NEW list \in SUBSET RowIds, NEW page \in Nat \ {0},
           Cardinality(Page(list, page)) < PageSize
    PROVE  \A id \in list : PlaceIn(list, id) < page * PageSize
<1> DEFINE A == FirstOf(list, page * PageSize)
           B == FirstOf(list, (page - 1) * PageSize)
<1>1. /\ PageSize \in Nat \ {0} /\ page * PageSize \in Nat /\ (page - 1) * PageSize \in Nat
      /\ page * PageSize = (page - 1) * PageSize + PageSize
  BY UserDataAssumption
<1>2. Page(list, page) = A \ B /\ B \subseteq A
  BY <1>1, PlaceOf DEF Page, FirstOf, PlaceIn
<1>3. SUFFICES ASSUME NEW id \in list, PlaceIn(list, id) >= page * PageSize
               PROVE  FALSE
  BY <1>1, PlaceOf
<1>4. Cardinality(A) >= page * PageSize
  BY <1>1, <1>3, ManyBefore
<1>5. IsFiniteSet(A) /\ Cardinality(A) \in Nat
  BY <1>1, FewBefore
<1>6. Cardinality(B) \in Nat /\ Cardinality(B) <= (page - 1) * PageSize
  BY <1>1, FewBefore
<1> HIDE DEF A, B
<1>7. A \cap B = B
  BY <1>2
<1>8. Cardinality(A \ B) = Cardinality(A) - Cardinality(B)
  BY <1>5, <1>7, FS_Difference
<1> QED BY <1>1, <1>2, <1>4, <1>5, <1>6, <1>8

\* The first page, when it is not full, is the whole list.
LEMMA ShortFirstPage ==
    ASSUME NEW list \in SUBSET RowIds
    PROVE  /\ Page(list, 1) \subseteq list
           /\ Cardinality(Page(list, 1)) < PageSize => Page(list, 1) = list
<1>1. Cardinality(Page(list, 1)) < PageSize => \A id \in list : PlaceIn(list, id) < 1 * PageSize
  BY ShortPageEnds
<1>2. \A id \in list : PlaceIn(list, id) \in Nat
  BY PlaceOf
<1>3. PageSize \in Nat /\ 1 * PageSize = PageSize /\ (1 - 1) * PageSize = 0
  BY UserDataAssumption
<1> QED BY <1>1, <1>2, <1>3 DEF Page, PlaceIn

\* A row is on one of the pages, and a longer list has no fewer.
LEMMA PagesSuffice ==
    ASSUME NEW n \in Nat
    PROVE  LET pages == (n + PageSize - 1) \div PageSize
           IN  pages \in Nat /\ n <= pages * PageSize
BY UserDataAssumption

LEMMA MorePages ==
    ASSUME NEW n \in Nat, NEW m \in Nat, n <= m
    PROVE  (n + PageSize - 1) \div PageSize <= (m + PageSize - 1) \div PageSize
BY UserDataAssumption

-----------------------------------------------------------------------------
(* What is handed out and taken away of a user. *)

Handlings == [kind : {"none", "export", "erase", "purge", "reassign"},
              at : {"asks", "deletes", "done"}, page : Nat, batch : SUBSET RowIds,
              previous : {0} \cup RowIds, there : Rows, given : Rows, calm : BOOLEAN]

LatestId == MaxRows + dataChanges

\* No row has an id that is still to come.
IdsAreGiven ==
    /\ signatureRows \cup assetRows \subseteq 1..LatestId
    /\ handling.there.signatures \cup handling.there.assets \subseteq 1..LatestId
    /\ handling.batch \subseteq 1..LatestId /\ handling.previous \in 0..LatestId

\* An export holds what was on the pages so far: the signatures of the pages before, the
\* assets of the pages before after those that are the signatures' by now.
ExportCovers ==
    LET there == handling.there
        given == handling.given
    IN  handling.kind = "export" /\ handling.calm =>
          IF handling.at = "done"
          THEN there.signatures \subseteq given.signatures /\ there.assets \subseteq given.assets
          ELSE /\ there.signatures \subseteq signatureRows /\ there.assets \subseteq assetRows
               /\ \A id \in there.signatures :
                     PlaceIn(signatureRows, id) < (handling.page - 1) * PageSize =>
                        id \in given.signatures
               /\ \A id \in there.assets :
                     PlaceIn(assetRows, id)
                        < (handling.page - 1 - PagesOf(signatureRows)) * PageSize =>
                        id \in given.assets

\* A batch that is not full has all the assets that are meant.
BatchTakesAll ==
    handling.at = "deletes" /\ Cardinality(handling.batch) < PageSize =>
        LeftAssets \subseteq handling.batch

\* Where no row refuses, the row the last batch began with is gone.
PreviousIsGone ==
    handling.kind = "purge" /\ stubborn = {} =>
        IF handling.at = "deletes" THEN handling.previous \in handling.batch
        ELSE handling.previous \notin assetRows

Steps ==
    /\ handling.kind \in {"none", "reassign"} => handling.at = "done"
    /\ handling.kind = "export" => handling.at # "deletes"
    /\ handling.page > 0

DataInv ==
    /\ handling \in Handlings /\ UserDataTypeOK /\ IdsAreGiven /\ Steps
    /\ ExportCovers /\ BatchTakesAll /\ PreviousIsGone /\ AllOfTheUser

LEMMA DataBounds ==
    /\ PageSize \in Nat /\ PageSize > 0 /\ MaxRows \in Nat /\ MaxDataChanges \in Nat
    /\ MaxRows + MaxDataChanges \in Nat
BY UserDataAssumption

LEMMA TypesOfData ==
    ASSUME handling \in Handlings
    PROVE  /\ UserDataTypeOK <=>
                /\ signatureRows \subseteq RowIds /\ assetRows \subseteq RowIds
                /\ stubborn \subseteq 1..MaxRows /\ dataChanges \in 0..MaxDataChanges
           /\ handling.there.signatures \subseteq RowIds /\ handling.there.assets \subseteq RowIds
           /\ handling.given.signatures \subseteq RowIds /\ handling.given.assets \subseteq RowIds
           /\ handling.batch \subseteq RowIds /\ handling.page \in Nat /\ handling.calm \in BOOLEAN
<1>1. handling.there \in Rows /\ handling.given \in Rows
  BY DEF Handlings
<1>2. /\ handling.there.signatures \subseteq RowIds /\ handling.there.assets \subseteq RowIds
      /\ handling.given.signatures \subseteq RowIds /\ handling.given.assets \subseteq RowIds
  BY <1>1 DEF Rows
<1> QED BY <1>1, <1>2 DEF UserDataTypeOK, Handlings

LEMMA NothingIsHandled ==
    /\ NotHandled \in Handlings /\ NotHandled.kind = "none" /\ NotHandled.at = "done"
    /\ NotHandled.page = 1 /\ NotHandled.batch = {} /\ NotHandled.previous = 0
    /\ NotHandled.there = NoRows /\ NotHandled.given = NoRows /\ NotHandled.calm = TRUE
    /\ NoRows.signatures = {} /\ NoRows.assets = {} /\ NoRows \in Rows
<1>1. NoRows \in Rows /\ NoRows.signatures = {} /\ NoRows.assets = {}
  BY DEF NoRows, Rows
<1> QED BY <1>1 DEF NotHandled, Handlings

LEMMA InitData == UserDataInit => DataInv
<1> SUFFICES ASSUME UserDataInit PROVE DataInv
  OBVIOUS
<1>1. handling = NotHandled /\ dataChanges = 0
  BY DEF UserDataInit
<1>2. PICK n, m \in 0..MaxRows : signatureRows = 1..n /\ assetRows = 1..m
  BY DEF UserDataInit
<1>3. stubborn \subseteq 1..MaxRows /\ signatureRows \subseteq 1..MaxRows /\ assetRows \subseteq 1..MaxRows
  BY <1>2, DataBounds DEF UserDataInit
<1>4. 1..MaxRows \subseteq RowIds /\ 1..MaxRows \subseteq 1..LatestId /\ 0 \in 0..LatestId
  BY <1>1, DataBounds DEF RowIds, LatestId
<1>5. handling \in Handlings /\ UserDataTypeOK
  BY <1>1, <1>3, <1>4, NothingIsHandled, TypesOfData, DataBounds
<1>6. IdsAreGiven /\ Steps
  BY <1>1, <1>3, <1>4, NothingIsHandled DEF IdsAreGiven, Steps
<1>7. ExportCovers /\ BatchTakesAll /\ PreviousIsGone /\ AllOfTheUser
  BY <1>1, NothingIsHandled DEF ExportCovers, BatchTakesAll, PreviousIsGone, AllOfTheUser
<1> QED BY <1>5, <1>6, <1>7 DEF DataInv

\* A later row changes no place.
LEMMA PlacesStay ==
    ASSUME NEW list \in SUBSET RowIds, NEW n \in Nat, list \subseteq 1..n,
           NEW more, more = list \/ more = list \cup {n + 1}
    PROVE  \A id \in 1..n : PlaceIn(more, id) = PlaceIn(list, id)
<1> SUFFICES ASSUME NEW id \in 1..n PROVE PlaceIn(more, id) = PlaceIn(list, id)
  OBVIOUS
<1>1. ~(n + 1 < id)
  OBVIOUS
<1>2. {other \in more : other < id} = {other \in list : other < id}
  BY <1>1
<1> QED BY <1>2 DEF PlaceIn

LEMMA PagesGrow ==
    ASSUME NEW list \in SUBSET RowIds, NEW more \in SUBSET RowIds, list \subseteq more
    PROVE  PagesOf(list) \in Nat /\ PagesOf(more) \in Nat /\ PagesOf(list) <= PagesOf(more)
           /\ Cardinality(list) <= PagesOf(list) * PageSize
<1>1. Cardinality(list) \in Nat /\ Cardinality(more) \in Nat /\ IsFiniteSet(more)
  BY ListsAreFinite
<1>2. Cardinality(list) <= Cardinality(more)
  BY <1>1, FS_Subset
<1> QED BY <1>1, <1>2, PagesSuffice, MorePages DEF PagesOf

LEMMA PageRounds ==
    ASSUME NEW n \in Int, NEW m \in Int, n <= m
    PROVE  n * PageSize \in Int /\ n * PageSize <= m * PageSize
BY DataBounds

\* The user creates a row: its id is new, and comes after all the others.
LEMMA CreateStep ==
    ASSUME DataInv, Creates
    PROVE  DataInv'
<1>1. /\ handling \in Handlings /\ signatureRows \subseteq RowIds /\ assetRows \subseteq RowIds
      /\ stubborn \subseteq 1..MaxRows /\ dataChanges \in 0..MaxDataChanges /\ UserDataTypeOK
  BY TypesOfData DEF DataInv
<1>2. PICK w : w = [handling EXCEPT !.calm = handling.calm /\ TRUE]
  OBVIOUS
<1>3. /\ handling' = w /\ dataChanges' = dataChanges + 1 /\ dataChanges < MaxDataChanges
      /\ stubborn' = stubborn
  BY <1>2 DEF Creates, Touches
<1>4. handling' = handling
  BY <1>1, <1>2, <1>3 DEF Handlings
<1>5. LatestId \in Nat /\ LatestId' = LatestId + 1 /\ 1..LatestId \subseteq RowIds /\ LatestId + 1 \in RowIds
  BY <1>1, <1>3, DataBounds DEF LatestId, RowIds
<1>6. /\ signatureRows' = signatureRows \/ signatureRows' = signatureRows \cup {LatestId + 1}
      /\ assetRows' = assetRows \/ assetRows' = assetRows \cup {LatestId + 1}
  BY <1>3, <1>5, DataBounds DEF Creates, LatestId
<1>7. /\ signatureRows \subseteq 1..LatestId /\ assetRows \subseteq 1..LatestId
      /\ handling.there.signatures \subseteq 1..LatestId /\ handling.there.assets \subseteq 1..LatestId
      /\ handling.batch \subseteq 1..LatestId /\ handling.previous \in 0..LatestId
  BY DEF DataInv, IdsAreGiven
<1>8. signatureRows' \subseteq RowIds /\ assetRows' \subseteq RowIds
  BY <1>1, <1>5, <1>6
<1>9. UserDataTypeOK' /\ handling' \in Handlings
  <2>1. dataChanges' \in 0..MaxDataChanges
    BY <1>1, <1>3, DataBounds
  <2> QED BY <2>1, <1>1, <1>3, <1>4, <1>8 DEF UserDataTypeOK
<1>10. IdsAreGiven' /\ Steps'
  <2>1. 1..LatestId \subseteq 1..(LatestId + 1) /\ LatestId + 1 \in 1..(LatestId + 1)
    BY <1>5
  <2>2. 0..LatestId \subseteq 0..(LatestId + 1)
    BY <1>5
  <2> QED BY <2>1, <2>2, <1>4, <1>5, <1>6, <1>7 DEF DataInv, IdsAreGiven, Steps
<1>11. LeftSignatures' = LeftSignatures /\ LeftAssets' = LeftAssets
  <2>1. LatestId + 1 \notin 1..LatestId
    BY <1>5
  <2> QED BY <2>1, <1>4, <1>6, <1>7 DEF LeftSignatures, LeftAssets
<1>12. ExportCovers'
  <2> SUFFICES ASSUME handling.kind = "export", handling.calm, handling.at # "done"
               PROVE  ExportCovers'
    BY <1>4 DEF DataInv, ExportCovers
  <2>1. /\ handling.there.signatures \subseteq signatureRows /\ handling.there.assets \subseteq assetRows
        /\ \A id \in handling.there.signatures :
              PlaceIn(signatureRows, id) < (handling.page - 1) * PageSize =>
                 id \in handling.given.signatures
        /\ \A id \in handling.there.assets :
              PlaceIn(assetRows, id) < (handling.page - 1 - PagesOf(signatureRows)) * PageSize =>
                 id \in handling.given.assets
    BY DEF DataInv, ExportCovers
  <2>2. /\ \A id \in 1..LatestId : PlaceIn(signatureRows', id) = PlaceIn(signatureRows, id)
        /\ \A id \in 1..LatestId : PlaceIn(assetRows', id) = PlaceIn(assetRows, id)
    BY <1>1, <1>5, <1>6, <1>7, PlacesStay
  <2>3. PagesOf(signatureRows) \in Nat /\ PagesOf(signatureRows') \in Nat
        /\ PagesOf(signatureRows) <= PagesOf(signatureRows')
    BY <1>1, <1>6, <1>8, PagesGrow
  <2>4. handling.page \in Nat
    BY <1>1, TypesOfData
  <2> DEFINE before == handling.page - 1 - PagesOf(signatureRows)
             after == handling.page - 1 - PagesOf(signatureRows')
  <2>5. after * PageSize <= before * PageSize /\ after * PageSize \in Int /\ before * PageSize \in Int
    <3>1. after \in Int /\ before \in Int /\ after <= before
      BY <2>3, <2>4
    <3> HIDE DEF after, before
    <3> QED BY <3>1, PageRounds
  <2>6. \A id \in handling.there.assets : PlaceIn(assetRows, id) \in Nat
    BY <1>1, <2>1, PlaceOf
  <2>7. \A id \in handling.there.assets :
           PlaceIn(assetRows', id) < after * PageSize => id \in handling.given.assets
    <3>1. \A id \in handling.there.assets :
             PlaceIn(assetRows, id) < before * PageSize => id \in handling.given.assets
      BY <2>1
    <3> HIDE DEF after, before
    <3> QED BY <3>1, <2>2, <2>5, <2>6, <1>7
  <2>8. \A id \in handling.there.signatures :
           PlaceIn(signatureRows', id) < (handling.page - 1) * PageSize =>
              id \in handling.given.signatures
    BY <2>1, <2>2, <1>7
  <2>9. /\ handling.there.signatures \subseteq signatureRows'
        /\ handling.there.assets \subseteq assetRows'
    BY <2>1, <1>6
  <2> QED BY <2>7, <2>8, <2>9, <1>4 DEF ExportCovers
<1>13. BatchTakesAll' /\ AllOfTheUser'
  BY <1>3, <1>4, <1>11 DEF DataInv, BatchTakesAll, AllOfTheUser
<1>14. PreviousIsGone'
  <2>1. LatestId + 1 # handling.previous
    BY <1>5, <1>7
  <2> QED BY <2>1, <1>3, <1>4, <1>6 DEF DataInv, PreviousIsGone
<1> QED BY <1>9, <1>10, <1>12, <1>13, <1>14 DEF DataInv

LEMMA RemoveStep ==
    ASSUME DataInv, Removes
    PROVE  DataInv'
<1>1. /\ handling \in Handlings /\ signatureRows \subseteq RowIds /\ assetRows \subseteq RowIds
      /\ stubborn \subseteq 1..MaxRows /\ dataChanges \in 0..MaxDataChanges /\ UserDataTypeOK
  BY TypesOfData DEF DataInv
<1>2. PICK w : w = [handling EXCEPT !.calm = handling.calm /\ FALSE]
  OBVIOUS
<1>3. /\ handling' = w /\ dataChanges' = dataChanges + 1 /\ dataChanges < MaxDataChanges
      /\ stubborn' = stubborn /\ signatureRows' \subseteq signatureRows
      /\ assetRows' \subseteq assetRows
  BY <1>2 DEF Removes, Touches
<1>4. /\ w \in Handlings /\ w.kind = handling.kind /\ w.at = handling.at /\ w.page = handling.page
      /\ w.batch = handling.batch /\ w.previous = handling.previous /\ w.there = handling.there
      /\ w.given = handling.given /\ ~w.calm
  BY <1>1, <1>2 DEF Handlings
<1>5. LatestId \in Nat /\ LatestId' = LatestId + 1
  BY <1>1, <1>3, DataBounds DEF LatestId
<1>6. UserDataTypeOK' /\ handling' \in Handlings
  <2>1. dataChanges' \in 0..MaxDataChanges
    BY <1>1, <1>3, DataBounds
  <2> QED BY <2>1, <1>1, <1>3, <1>4 DEF UserDataTypeOK, Handlings
<1>7. IdsAreGiven' /\ Steps'
  <2>1. 1..LatestId \subseteq 1..(LatestId + 1) /\ 0..LatestId \subseteq 0..(LatestId + 1)
    BY <1>5
  <2> QED BY <2>1, <1>3, <1>4, <1>5 DEF DataInv, IdsAreGiven, Steps
<1>8. LeftSignatures' \subseteq LeftSignatures /\ LeftAssets' \subseteq LeftAssets
  BY <1>3, <1>4 DEF LeftSignatures, LeftAssets
<1>9. ExportCovers' /\ PreviousIsGone' /\ BatchTakesAll'
  BY <1>3, <1>4, <1>8 DEF DataInv, ExportCovers, PreviousIsGone, BatchTakesAll
<1>10. AllOfTheUser'
  BY <1>3, <1>4, <1>8 DEF DataInv, AllOfTheUser
<1> QED BY <1>6, <1>7, <1>9, <1>10 DEF DataInv

LEMMA BeginHandlingStep ==
    ASSUME DataInv, NEW kind \in {"export", "erase", "purge"}, BeginsWith(kind)
    PROVE  DataInv'
<1>1. /\ handling \in Handlings /\ signatureRows \subseteq RowIds /\ assetRows \subseteq RowIds
      /\ UserDataTypeOK
  BY TypesOfData DEF DataInv
<1>2. PICK w : w = [NotHandled EXCEPT !.kind = kind, !.at = "asks", !.there = AllRows]
  OBVIOUS
<1>3. handling' = w /\ UNCHANGED <<signatureRows, assetRows, stubborn, dataChanges>>
  BY <1>2 DEF BeginsWith
<1>4. AllRows \in Rows /\ AllRows.signatures = signatureRows /\ AllRows.assets = assetRows
  BY <1>1 DEF AllRows, Rows
<1>5. /\ w \in Handlings /\ w.kind = kind /\ w.at = "asks" /\ w.page = 1 /\ w.batch = {}
      /\ w.previous = 0 /\ w.there = AllRows
  BY <1>2, <1>4, NothingIsHandled DEF Handlings
<1>6. UserDataTypeOK' /\ handling' \in Handlings
  BY <1>1, <1>3, <1>5 DEF UserDataTypeOK, Handlings
<1>7. IdsAreGiven' /\ Steps'
  <2>1. LatestId' = LatestId /\ 0 \in 0..LatestId
    BY <1>1, <1>3, DataBounds DEF LatestId, UserDataTypeOK
  <2> QED BY <2>1, <1>3, <1>4, <1>5 DEF DataInv, IdsAreGiven, Steps
<1>8. BatchTakesAll' /\ AllOfTheUser'
  BY <1>3, <1>5 DEF BatchTakesAll, AllOfTheUser
<1>9. PreviousIsGone'
  BY <1>1, <1>3, <1>5 DEF PreviousIsGone, RowIds
<1>10. ExportCovers'
  <2> SUFFICES ASSUME kind = "export" PROVE ExportCovers'
    BY <1>3, <1>5 DEF ExportCovers
  <2>1. /\ \A id \in signatureRows : PlaceIn(signatureRows, id) \in Nat
        /\ \A id \in assetRows : PlaceIn(assetRows, id) \in Nat
    BY <1>1, PlaceOf
  <2>2. PagesOf(signatureRows) \in Nat
    BY <1>1, PagesGrow
  <2>3. (1 - 1) * PageSize = 0
    BY DataBounds
  <2>4. (1 - 1 - PagesOf(signatureRows)) * PageSize <= 0
    <3>1. 1 - 1 - PagesOf(signatureRows) \in Int /\ 1 - 1 - PagesOf(signatureRows) <= 0
      BY <2>2
    <3>2. 0 * PageSize = 0 /\ 0 \in Int
      BY DataBounds
    <3> QED BY <3>1, <3>2, PageRounds
  <2>5. (1 - 1 - PagesOf(signatureRows)) * PageSize \in Int
    BY <2>2, DataBounds
  <2>6. \A id \in signatureRows : ~(PlaceIn(signatureRows, id) < (1 - 1) * PageSize)
    BY <2>1, <2>3
  <2>7. \A id \in assetRows :
           ~(PlaceIn(assetRows, id) < (1 - 1 - PagesOf(signatureRows)) * PageSize)
    BY <2>1, <2>4, <2>5
  <2> QED BY <2>6, <2>7, <1>3, <1>4, <1>5 DEF ExportCovers
<1> QED BY <1>6, <1>7, <1>8, <1>9, <1>10 DEF DataInv

\* A page of an export: either of signatures, or of assets when there are no more
\* signatures.
LEMMA ExportStep ==
    ASSUME DataInv, ExportsPage
    PROVE  DataInv'
<1>1. /\ handling \in Handlings /\ signatureRows \in SUBSET RowIds /\ assetRows \in SUBSET RowIds
      /\ UserDataTypeOK /\ handling.page \in Nat /\ handling.page > 0
      /\ handling.given \in Rows /\ handling.given.signatures \subseteq RowIds
      /\ handling.given.assets \subseteq RowIds
  BY TypesOfData DEF DataInv, Steps, Handlings
<1>2. PICK page, pages, there, given : /\ page = handling.page /\ pages = PagesOf(signatureRows)
                                       /\ there = handling.there /\ given = handling.given
  OBVIOUS
<1>3. /\ pages \in Nat /\ Cardinality(signatureRows) <= pages * PageSize
      /\ Cardinality(signatureRows) \in Nat
  BY <1>1, <1>2, PagesGrow, ListsAreFinite
<1>4. /\ UNCHANGED <<signatureRows, assetRows, stubborn, dataChanges>>
      /\ handling.kind = "export" /\ handling.at = "asks"
  BY DEF ExportsPage
<1>5. /\ \A id \in signatureRows : PlaceIn(signatureRows, id) \in Nat
                                   /\ PlaceIn(signatureRows, id) < Cardinality(signatureRows)
      /\ \A id \in assetRows : PlaceIn(assetRows, id) \in Nat
  BY <1>1, PlaceOf
<1>6. handling.calm =>
        /\ there.signatures \subseteq signatureRows /\ there.assets \subseteq assetRows
        /\ \A id \in there.signatures :
              PlaceIn(signatureRows, id) < (page - 1) * PageSize => id \in given.signatures
        /\ \A id \in there.assets :
              PlaceIn(assetRows, id) < (page - 1 - pages) * PageSize => id \in given.assets
  BY <1>2, <1>4 DEF DataInv, ExportCovers
<1>7. PICK more, w :
        /\ handling' = w /\ w \in Handlings /\ w.kind = "export" /\ w.page = page + 1
        /\ w.batch = handling.batch /\ w.previous = handling.previous /\ w.there = there
        /\ w.given = more /\ w.calm = handling.calm /\ w.at \in {"asks", "done"}
        /\ IF page <= pages
           THEN /\ more.signatures = given.signatures \cup Page(signatureRows, page)
                /\ more.assets = given.assets /\ w.at = "asks"
           ELSE /\ more.signatures = given.signatures
                /\ more.assets = given.assets \cup Page(assetRows, page - pages)
                /\ w.at = "done" => Cardinality(Page(assetRows, page - pages)) < PageSize
  <2>1. CASE page <= pages
    <3>1. PICK more : more = [handling.given EXCEPT !.signatures =
                                 handling.given.signatures \cup Page(signatureRows, handling.page)]
      OBVIOUS
    <3>2. PICK w : w = [handling EXCEPT !.page = handling.page + 1, !.given = more]
      OBVIOUS
    <3>3. handling' = w
      BY <2>1, <3>1, <3>2, <1>2 DEF ExportsPage
    <3>4. Page(signatureRows, handling.page) \subseteq RowIds
      BY <1>1 DEF Page
    <3>5. /\ more \in Rows /\ more.assets = given.assets
          /\ more.signatures = given.signatures \cup Page(signatureRows, page)
      BY <3>1, <3>4, <1>1, <1>2 DEF Rows
    <3>6. /\ w \in Handlings /\ w.page = handling.page + 1 /\ w.given = more /\ w.kind = handling.kind
          /\ w.at = handling.at /\ w.batch = handling.batch /\ w.previous = handling.previous
          /\ w.there = handling.there /\ w.calm = handling.calm
      <4>1. handling.page + 1 \in Nat /\ handling \in Handlings /\ more \in Rows
        BY <3>5, <1>1
      <4>2. w \in Handlings
        BY <3>2, <4>1 DEF Handlings
      <4> QED BY <3>2, <4>1, <4>2 DEF Handlings
    <3> QED BY <2>1, <3>3, <3>5, <3>6, <1>2, <1>4
  <2>2. CASE ~(page <= pages)
    <3>1. PICK found, at : /\ found = Page(assetRows, handling.page - PagesOf(signatureRows))
                            /\ at = IF Cardinality(found) < PageSize THEN "done" ELSE "asks"
      OBVIOUS
    <3>2. PICK more : more = [handling.given EXCEPT !.assets = handling.given.assets \cup found]
      OBVIOUS
    <3>3. PICK w : w = [handling EXCEPT !.page = handling.page + 1, !.given = more, !.at = at]
      OBVIOUS
    <3>4. handling' = w
      BY <2>2, <3>1, <3>2, <3>3, <1>2 DEF ExportsPage
    <3>5. found \subseteq RowIds
      BY <3>1, <1>1 DEF Page
    <3>6. /\ more \in Rows /\ more.signatures = given.signatures
          /\ more.assets = given.assets \cup found
      BY <3>2, <3>5, <1>1, <1>2 DEF Rows
    <3>7. at \in {"asks", "done"} /\ (at = "done" => Cardinality(found) < PageSize)
      BY <3>1
    <3>8. /\ w \in Handlings /\ w.page = handling.page + 1 /\ w.given = more /\ w.kind = handling.kind
          /\ w.at = at /\ w.batch = handling.batch /\ w.previous = handling.previous
          /\ w.there = handling.there /\ w.calm = handling.calm
      <4>1. handling.page + 1 \in Nat /\ handling \in Handlings /\ more \in Rows
        BY <3>6, <1>1
      <4>2. w \in Handlings
        BY <3>3, <3>7, <4>1 DEF Handlings
      <4> QED BY <3>3, <4>1, <4>2 DEF Handlings
    <3> QED BY <2>2, <3>1, <3>4, <3>6, <3>7, <3>8, <1>2, <1>4
  <2> QED BY <2>1, <2>2
<1>8. UserDataTypeOK' /\ handling' \in Handlings
  BY <1>1, <1>4, <1>7 DEF UserDataTypeOK, Handlings
<1>9. IdsAreGiven' /\ Steps' /\ PreviousIsGone' /\ BatchTakesAll'
  BY <1>1, <1>2, <1>4, <1>7 DEF DataInv, IdsAreGiven, LatestId, Steps, PreviousIsGone, BatchTakesAll
<1>10. /\ page \in Nat /\ page > 0 /\ (page - 1) * PageSize \in Int /\ page * PageSize \in Int
       /\ (page - 1 - pages) * PageSize \in Int /\ (page - pages) * PageSize \in Int
  BY <1>1, <1>2, <1>3, DataBounds
<1>11. ASSUME handling.calm, page > pages
       PROVE  there.signatures \subseteq given.signatures
  <2>1. pages * PageSize <= (page - 1) * PageSize
    BY <1>3, <1>10, <1>11, PageRounds
  <2>2. pages * PageSize \in Int
    BY <1>3, DataBounds
  <2> QED BY <2>1, <2>2, <1>3, <1>5, <1>6, <1>10, <1>11
<1>12. ASSUME handling.calm
       PROVE  /\ \A id \in there.signatures :
                    PlaceIn(signatureRows, id) < page * PageSize => id \in more.signatures
              /\ \A id \in there.assets :
                    PlaceIn(assetRows, id) < (page - pages) * PageSize => id \in more.assets
  <2>1. CASE page <= pages
    <3>1. (page - pages) * PageSize <= 0
      <4>1. page - pages \in Int /\ page - pages <= 0 /\ 0 * PageSize = 0
        BY <2>1, <1>3, <1>10, DataBounds
      <4> QED BY <4>1, PageRounds
    <3>2. \A id \in there.assets : ~(PlaceIn(assetRows, id) < (page - pages) * PageSize)
      BY <3>1, <1>5, <1>6, <1>10, <1>12
    <3>3. \A id \in signatureRows : /\ PlaceIn(signatureRows, id) < page * PageSize
                                    /\ ~(PlaceIn(signatureRows, id) < (page - 1) * PageSize)
                                    => id \in Page(signatureRows, page)
      BY <1>5, <1>10 DEF Page, PlaceIn
    <3> QED BY <2>1, <3>2, <3>3, <1>6, <1>7, <1>12
  <2>2. CASE ~(page <= pages)
    <3>1. \A id \in assetRows : /\ PlaceIn(assetRows, id) < (page - pages) * PageSize
                                /\ ~(PlaceIn(assetRows, id) < (page - 1 - pages) * PageSize)
                                => id \in Page(assetRows, page - pages)
      <4>1. page - pages - 1 = page - 1 - pages
        BY <1>3, <1>10
      <4> QED BY <4>1, <1>5, <1>10 DEF Page, PlaceIn
    <3>2. there.signatures \subseteq given.signatures
      BY <2>2, <1>3, <1>10, <1>11, <1>12
    <3> QED BY <2>2, <3>1, <3>2, <1>6, <1>7, <1>12
  <2> QED BY <2>1, <2>2
<1>13. ASSUME handling.calm, w.at = "done"
       PROVE  there.signatures \subseteq more.signatures /\ there.assets \subseteq more.assets
  <2>1. ~(page <= pages) /\ Cardinality(Page(assetRows, page - pages)) < PageSize
    BY <1>7, <1>13
  <2>2. page - pages \in Nat \ {0}
    BY <2>1, <1>3, <1>10
  <2>3. \A id \in assetRows : PlaceIn(assetRows, id) < (page - pages) * PageSize
    BY <2>1, <2>2, <1>1, ShortPageEnds
  <2>4. there.assets \subseteq more.assets
    BY <2>3, <1>6, <1>12, <1>13
  <2>5. there.signatures \subseteq more.signatures
    BY <2>1, <1>3, <1>7, <1>10, <1>11, <1>13
  <2> QED BY <2>4, <2>5
<1>14. ExportCovers'
  <2>1. w.page - 1 = page /\ page + 1 - 1 - pages = page - pages
    BY <1>3, <1>7, <1>10
  <2>2. pages = PagesOf(signatureRows')
    BY <1>2, <1>4
  <2> QED BY <2>1, <2>2, <1>4, <1>6, <1>7, <1>12, <1>13 DEF ExportCovers
<1>15. AllOfTheUser'
  BY <1>7, <1>14 DEF AllOfTheUser, ExportCovers
<1> QED BY <1>8, <1>9, <1>14, <1>15 DEF DataInv

\* What a step that takes away leaves of the invariant, whatever it does with the rows.
LEMMA TakingAway ==
    ASSUME DataInv, NEW w \in Handlings, handling' = w, w.kind \in {"erase", "purge"},
           UNCHANGED <<stubborn, dataChanges>>,
           signatureRows' \subseteq signatureRows, assetRows' \subseteq assetRows,
           w.there = handling.there, w.page > 0,
           w.batch \subseteq assetRows, w.previous \in 0..LatestId,
           BatchTakesAll', PreviousIsGone', AllOfTheUser'
    PROVE  DataInv'
<1>1. /\ UserDataTypeOK /\ signatureRows \subseteq RowIds /\ assetRows \subseteq RowIds
  BY TypesOfData DEF DataInv
<1>2. UserDataTypeOK'
  BY <1>1 DEF UserDataTypeOK, Handlings
<1>3. IdsAreGiven' /\ Steps'
  BY DEF DataInv, IdsAreGiven, LatestId, Steps
<1>4. ExportCovers'
  BY DEF ExportCovers
<1> QED BY <1>2, <1>3, <1>4 DEF DataInv

LEMMA EraseReadStep ==
    ASSUME DataInv, ErasesFrom
    PROVE  DataInv'
<1>1. /\ handling \in Handlings /\ assetRows \in SUBSET RowIds
      /\ handling.kind = "erase" /\ handling.at = "asks"
      /\ UNCHANGED <<signatureRows, assetRows, stubborn, dataChanges>>
  BY TypesOfData DEF DataInv, ErasesFrom
<1>2. PICK w : w = [handling EXCEPT !.at = "deletes", !.batch = Page(assetRows, 1)]
  OBVIOUS
<1>3. handling' = w
  BY <1>2 DEF ErasesFrom
<1>4. /\ Page(assetRows, 1) \subseteq assetRows
      /\ Cardinality(Page(assetRows, 1)) < PageSize => Page(assetRows, 1) = assetRows
  BY <1>1, ShortFirstPage
<1>5. /\ w \in Handlings /\ w.kind = "erase" /\ w.at = "deletes" /\ w.batch = Page(assetRows, 1)
      /\ w.there = handling.there /\ w.page = handling.page /\ w.previous = handling.previous
  <2>1. Page(assetRows, 1) \subseteq RowIds
    BY <1>1, <1>4
  <2> QED BY <2>1, <1>1, <1>2 DEF Handlings
<1>6. BatchTakesAll' /\ PreviousIsGone' /\ AllOfTheUser'
  BY <1>1, <1>3, <1>4, <1>5 DEF BatchTakesAll, LeftAssets, PreviousIsGone, AllOfTheUser
<1>7. handling.page > 0 /\ handling.previous \in 0..LatestId
  BY DEF DataInv, Steps, IdsAreGiven
<1> QED BY <1>1, <1>3, <1>4, <1>5, <1>6, <1>7, TakingAway

LEMMA PurgeReadStep ==
    ASSUME DataInv, PurgeReads
    PROVE  DataInv'
<1>1. /\ handling \in Handlings /\ assetRows \in SUBSET RowIds
      /\ handling.kind = "purge" /\ handling.at = "asks"
      /\ UNCHANGED <<assetRows, stubborn, dataChanges>>
      /\ assetRows \subseteq 1..LatestId /\ handling.page > 0 /\ handling.previous \in 0..LatestId
      /\ handling.batch \subseteq RowIds
  BY TypesOfData DEF DataInv, PurgeReads, Steps, IdsAreGiven
<1>2. PICK batch : batch = Page(assetRows, 1)
  OBVIOUS
<1>3. /\ batch \subseteq assetRows
      /\ Cardinality(batch) < PageSize => batch = assetRows
  BY <1>1, <1>2, ShortFirstPage
<1>4. batch \subseteq RowIds /\ batch \subseteq Nat
  BY <1>1, <1>3, ListsAreFinite
<1>5. batch # {} => Min(batch) \in batch
  BY <1>4, LeastOf
<1>6. stubborn = {} => handling.previous \notin assetRows
  BY <1>1 DEF DataInv, PreviousIsGone
<1>7. CASE batch = {} \/ Min(batch) = handling.previous
  <2>1. PICK w : w = [handling EXCEPT !.at = "done"]
    OBVIOUS
  <2>2. handling' = w /\ signatureRows' = {}
    BY <1>2, <1>7, <2>1 DEF PurgeReads
  <2>3. /\ w \in Handlings /\ w.kind = "purge" /\ w.at = "done" /\ w.there = handling.there
        /\ w.page = handling.page /\ w.previous = handling.previous /\ w.batch = handling.batch
    BY <1>1, <2>1 DEF Handlings
  <2>4. stubborn = {} => assetRows = {}
    <3>1. ASSUME stubborn = {} PROVE batch = {}
      BY <1>3, <1>5, <1>6, <1>7, <3>1
    <3>2. Cardinality({}) = 0
      BY FS_EmptySet
    <3> QED BY <3>1, <3>2, <1>3, DataBounds
  <2>5. LeftSignatures' = {} /\ LeftAssets' \subseteq assetRows
    BY <1>1, <2>2 DEF LeftSignatures, LeftAssets
  <2>6. AllOfTheUser' /\ BatchTakesAll' /\ PreviousIsGone'
    BY <1>1, <1>6, <2>2, <2>3, <2>4, <2>5 DEF AllOfTheUser, BatchTakesAll, PreviousIsGone
  <2>7. UserDataTypeOK' /\ w \in Handlings
    BY <1>1, <2>2, <2>3, TypesOfData DEF DataInv, UserDataTypeOK, Handlings
  <2>8. IdsAreGiven' /\ Steps' /\ ExportCovers'
    BY <1>1, <2>2, <2>3 DEF DataInv, IdsAreGiven, LatestId, Steps, ExportCovers
  <2> QED BY <2>2, <2>6, <2>7, <2>8 DEF DataInv
<1>8. CASE ~(batch = {} \/ Min(batch) = handling.previous)
  <2>1. PICK w : w = [handling EXCEPT !.at = "deletes", !.batch = batch, !.previous = Min(batch)]
    OBVIOUS
  <2>2. handling' = w /\ signatureRows' = signatureRows
    BY <1>2, <1>8, <2>1 DEF PurgeReads
  <2>3. Min(batch) \in batch /\ Min(batch) \in RowIds /\ Min(batch) \in 1..LatestId
    BY <1>1, <1>3, <1>4, <1>5, <1>8
  <2>4. /\ w \in Handlings /\ w.kind = "purge" /\ w.at = "deletes" /\ w.there = handling.there
        /\ w.page = handling.page /\ w.previous = Min(batch) /\ w.batch = batch
    BY <1>1, <1>4, <2>1, <2>3 DEF Handlings
  <2>5. BatchTakesAll' /\ PreviousIsGone' /\ AllOfTheUser'
    BY <1>1, <1>3, <2>2, <2>3, <2>4 DEF BatchTakesAll, LeftAssets, PreviousIsGone, AllOfTheUser
  <2>6. Min(batch) \in 0..LatestId
    BY <2>3
  <2> QED BY <1>1, <1>3, <2>2, <2>4, <2>5, <2>6, TakingAway
<1> QED BY <1>7, <1>8

\* A batch goes: after one that was not full, nothing is left but what refuses.
LEMMA BatchStep ==
    ASSUME DataInv, ErasesBatch \/ PurgesBatch
    PROVE  DataInv'
<1>1. /\ handling \in Handlings /\ assetRows \in SUBSET RowIds /\ handling.batch \subseteq RowIds
      /\ handling.kind \in {"erase", "purge"} /\ handling.at = "deletes" /\ DeletesBatch
      /\ handling.page \in Nat /\ handling.page > 0 /\ handling.previous \in 0..LatestId
  BY TypesOfData DEF DataInv, ErasesBatch, PurgesBatch, Steps, IdsAreGiven
<1>2. /\ assetRows' = assetRows \ (handling.batch \ stubborn)
      /\ UNCHANGED <<stubborn, dataChanges>>
  BY <1>1 DEF DeletesBatch
<1>3. Cardinality(handling.batch) \in Nat
  BY <1>1, ListsAreFinite
<1>4. PICK w \in Handlings :
        /\ handling' = w /\ w.kind = handling.kind /\ w.batch = {} /\ w.page > 0
        /\ w.there = handling.there /\ w.previous = handling.previous
        /\ \/ Cardinality(handling.batch) >= PageSize /\ w.at = "asks" /\ signatureRows' = signatureRows
           \/ Cardinality(handling.batch) < PageSize /\ w.at = "done" /\ signatureRows' = {}
  <2>1. CASE Cardinality(handling.batch) >= PageSize
    <3>1. PICK page : page = IF handling.page > MaxRows THEN handling.page ELSE handling.page + 1
      OBVIOUS
    <3>2. page \in Nat /\ page > 0
      BY <1>1, <3>1
    <3>3. PICK w : w = [handling EXCEPT !.at = "asks", !.batch = {}, !.page = page]
      OBVIOUS
    <3>4. handling' = w /\ signatureRows' = signatureRows
      BY <1>1, <2>1, <3>1, <3>3 DEF DeletesBatch
    <3>5. /\ w \in Handlings /\ w.kind = handling.kind /\ w.batch = {} /\ w.page = page
          /\ w.there = handling.there /\ w.previous = handling.previous /\ w.at = "asks"
      BY <1>1, <3>2, <3>3 DEF Handlings
    <3> QED BY <2>1, <3>2, <3>4, <3>5
  <2>2. CASE Cardinality(handling.batch) < PageSize
    <3>1. PICK w : w = [handling EXCEPT !.at = "done", !.batch = {}]
      OBVIOUS
    <3>2. ~(Cardinality(handling.batch) >= PageSize)
      BY <1>3, <2>2, DataBounds
    <3>3. handling' = w /\ signatureRows' = {}
      BY <1>1, <3>1, <3>2 DEF DeletesBatch
    <3>4. /\ w \in Handlings /\ w.kind = handling.kind /\ w.batch = {} /\ w.page = handling.page
          /\ w.there = handling.there /\ w.previous = handling.previous /\ w.at = "done"
      BY <1>1, <3>1 DEF Handlings
    <3> QED BY <1>1, <2>2, <3>3, <3>4
  <2> QED BY <1>3, <2>1, <2>2, DataBounds
<1>5. BatchTakesAll'
  BY <1>4 DEF BatchTakesAll
<1>6. PreviousIsGone'
  <2>1. stubborn = {} /\ handling.kind = "purge" => handling.previous \in handling.batch
    BY <1>1 DEF DataInv, PreviousIsGone
  <2> QED BY <2>1, <1>2, <1>4 DEF PreviousIsGone
<1>7. AllOfTheUser'
  <2> SUFFICES ASSUME w.at = "done" PROVE AllOfTheUser'
    BY <1>4 DEF AllOfTheUser
  <2>1. Cardinality(handling.batch) < PageSize /\ signatureRows' = {}
    BY <1>4
  <2>2. LeftAssets \subseteq handling.batch
    BY <2>1, <1>1 DEF DataInv, BatchTakesAll
  <2>3. LeftAssets' \subseteq stubborn
    BY <2>2, <1>2, <1>4 DEF LeftAssets
  <2>4. LeftSignatures' = {}
    BY <2>1 DEF LeftSignatures
  <2> QED BY <2>3, <2>4, <1>1, <1>2, <1>4 DEF AllOfTheUser
<1>8. signatureRows' \subseteq signatureRows /\ assetRows' \subseteq assetRows
  BY <1>2, <1>4
<1> QED BY <1>1, <1>2, <1>4, <1>5, <1>6, <1>7, <1>8, TakingAway

LEMMA ReassignStep ==
    ASSUME DataInv, Reassigns
    PROVE  DataInv'
<1>1. /\ signatureRows \subseteq RowIds /\ assetRows \subseteq RowIds /\ UserDataTypeOK
  BY TypesOfData DEF DataInv
<1>2. PICK w : w = [NotHandled EXCEPT !.kind = "reassign", !.there = AllRows]
  OBVIOUS
<1>3. /\ handling' = w /\ signatureRows' = {} /\ assetRows' = {}
      /\ UNCHANGED <<stubborn, dataChanges>>
  BY <1>2 DEF Reassigns
<1>4. AllRows \in Rows /\ AllRows.signatures = signatureRows /\ AllRows.assets = assetRows
  BY <1>1 DEF AllRows, Rows
<1>5. /\ w \in Handlings /\ w.kind = "reassign" /\ w.at = "done" /\ w.page = 1 /\ w.batch = {}
      /\ w.previous = 0 /\ w.there = AllRows
  BY <1>2, <1>4, NothingIsHandled DEF Handlings
<1>6. UserDataTypeOK'
  BY <1>1, <1>3, <1>5 DEF UserDataTypeOK, Handlings
<1>7. IdsAreGiven' /\ Steps'
  <2>1. LatestId' = LatestId /\ 0 \in 0..LatestId
    BY <1>1, <1>3, DataBounds DEF LatestId, UserDataTypeOK
  <2> QED BY <2>1, <1>3, <1>4, <1>5 DEF DataInv, IdsAreGiven, Steps
<1>8. ExportCovers' /\ BatchTakesAll' /\ PreviousIsGone'
  BY <1>3, <1>5 DEF ExportCovers, BatchTakesAll, PreviousIsGone
<1>9. AllOfTheUser'
  BY <1>3, <1>5 DEF AllOfTheUser, LeftSignatures, LeftAssets
<1> QED BY <1>3, <1>5, <1>6, <1>7, <1>8, <1>9 DEF DataInv

\* Every step keeps the invariant of what is done with a user's data.
LEMMA DataStep == DataInv /\ [UserDataNext]_userDataVars => DataInv'
<1> SUFFICES ASSUME DataInv, [UserDataNext]_userDataVars PROVE DataInv'
  OBVIOUS
<1>1. CASE UNCHANGED userDataVars
  BY <1>1 DEF userDataVars, DataInv, UserDataTypeOK, IdsAreGiven, LatestId, Steps, ExportCovers,
     BatchTakesAll, PreviousIsGone, AllOfTheUser, LeftSignatures, LeftAssets
<1>2. CASE UserDataNext
  BY <1>2, CreateStep, RemoveStep, BeginHandlingStep, ExportStep, EraseReadStep, PurgeReadStep, BatchStep,
     ReassignStep DEF UserDataNext
<1> QED BY <1>1, <1>2

\* The inductive invariant of exports, erasures and deletions.
THEOREM DataInvariant == UserDataSpec => []DataInv
BY InitData, DataStep, PTL DEF UserDataSpec

\* For any size of a page, any number of rows, and whatever the user creates and deletes
\* between two pages: an export that is done holds all there was when it began unless
\* something was deleted, an erasure that is done has left only what refuses to go, and a
\* deletion of the user nothing when nothing refuses.
THEOREM AllIsHandled == UserDataSpec => []AllOfTheUser
<1>1. DataInv => AllOfTheUser
  BY DEF DataInv
<1> QED BY <1>1, DataInvariant, PTL

-----------------------------------------------------------------------------
(* The sum of the sizes. *)

Weight(table, k) == table[k].rows * table[k].size
Picked(s) == CHOOSE x \in s : TRUE

\* A function that is the sum of the weights of every set of keys.
SumsUp(iter, table) ==
    iter = [s \in SUBSET Keys |->
              IF s = {} THEN 0 ELSE Weight(table, Picked(s)) + iter[s \ {Picked(s)}]]

LEMMA KeysAreFinite ==
    ASSUME NEW s \in SUBSET Keys
    PROVE  /\ IsFiniteSet(s) /\ Cardinality(s) \in Nat
           /\ Cardinality(s) <= Cardinality(Keys) /\ Cardinality(Keys) \in Nat
           /\ Cardinality(s) = 0 <=> s = {}
           /\ s # {} => /\ Picked(s) \in s /\ s \ {Picked(s)} \in SUBSET Keys
                        /\ Cardinality(s \ {Picked(s)}) = Cardinality(s) - 1
<1>1. IsFiniteSet(Keys)
  BY UploadsAssumption
<1>2. IsFiniteSet(s) /\ Cardinality(s) <= Cardinality(Keys)
  BY <1>1, FS_Subset
<1>3. Cardinality(s) \in Nat /\ Cardinality(Keys) \in Nat
  BY <1>1, <1>2, FS_CardinalityType
<1>4. Cardinality(s) = 0 <=> s = {}
  BY <1>2, FS_EmptySet
<1>5. s # {} => Picked(s) \in s
  BY DEF Picked
<1>6. s # {} => Cardinality(s \ {Picked(s)}) = Cardinality(s) - 1
  BY <1>2, <1>5, FS_RemoveElement
<1> QED BY <1>2, <1>3, <1>4, <1>5, <1>6

\* Whatever holds of the empty set, and of a set when it holds without the key that the
\* sum takes first, holds of every set of keys.
LEMMA KeysInduction ==
    ASSUME NEW Good \in SUBSET SUBSET Keys, {} \in Good,
           \A s \in SUBSET Keys : s # {} /\ s \ {Picked(s)} \in Good => s \in Good
    PROVE  \A s \in SUBSET Keys : s \in Good
<1> DEFINE Bad == {s \in SUBSET Keys : s \notin Good}
           HowMany == {Cardinality(s) : s \in Bad}
<1> SUFFICES ASSUME Bad # {} PROVE FALSE
  OBVIOUS
<1>1. HowMany \in SUBSET Nat /\ HowMany # {}
  <2>1. \A s \in Bad : Cardinality(s) \in Nat
    BY KeysAreFinite
  <2> QED BY <2>1
<1>2. PICK n \in HowMany : \A m \in HowMany : n <= m
  <2> HIDE DEF HowMany
  <2> QED BY <1>1, LeastOf
<1>3. PICK s \in Bad : Cardinality(s) = n
  BY <1>2
<1>4. s # {} /\ s \ {Picked(s)} \in Bad
  BY <1>3, KeysAreFinite
<1>5. Cardinality(s \ {Picked(s)}) = n - 1 /\ n \in Nat
  BY <1>3, <1>4, KeysAreFinite
<1>6. n <= Cardinality(s \ {Picked(s)})
  BY <1>2, <1>4
<1> QED BY <1>5, <1>6

\* The function that sums over every set of keys: on the sets of at most n keys, for each n.
LEMMA SumExists == ASSUME NEW table PROVE \E iter : SumsUp(iter, table)
<1> DEFINE Upto(n) == {s \in SUBSET Keys : Cardinality(s) <= n}
           Body(g, s) == IF s = {} THEN 0 ELSE Weight(table, Picked(s)) + g[s \ {Picked(s)}]
           Has(n) == \E g : g = [s \in Upto(n) |-> Body(g, s)]
           Bad == {n \in Nat : ~Has(n)}
<1>1. Bad = {}
  <2> SUFFICES ASSUME Bad # {} PROVE FALSE
    OBVIOUS
  <2>1. PICK n \in Bad : \A m \in Bad : n <= m
    <3>1. Bad \in SUBSET Nat
      OBVIOUS
    <3> HIDE DEF Bad
    <3> QED BY <3>1, LeastOf
  <2>2. CASE n = 0
    <3> DEFINE g == [s \in Upto(0) |-> 0]
    <3>1. ASSUME NEW s \in Upto(0) PROVE s = {}
      <4>1. s \in SUBSET Keys /\ Cardinality(s) <= 0
        OBVIOUS
      <4>2. Cardinality(s) \in Nat /\ (Cardinality(s) = 0 => s = {})
        BY <4>1, KeysAreFinite
      <4> QED BY <4>1, <4>2
    <3>2. g = [s \in Upto(0) |-> Body(g, s)]
      <4>1. \A s \in Upto(0) : Body(g, s) = 0
        BY <3>1
      <4> HIDE DEF Body, Upto
      <4> QED BY <4>1
    <3>3. Has(0)
      <4> HIDE DEF Body, Upto, g
      <4> QED BY <3>2
    <3> QED BY <2>2, <3>3
  <2>3. CASE n # 0
    <3>1. n - 1 \in Nat /\ n - 1 \notin Bad
      <4>1. n \in Nat
        BY <2>1
      <4>2. n - 1 \in Nat /\ ~ (n <= n - 1)
        BY <2>3, <4>1
      <4> HIDE DEF Bad
      <4> QED BY <2>1, <4>2
    <3>2. Has(n - 1)
      <4> HIDE DEF Has
      <4> QED BY <3>1
    <3>3. PICK h : h = [s \in Upto(n - 1) |-> Body(h, s)]
      BY <3>2
    <3> DEFINE g == [s \in Upto(n) |-> Body(h, s)]
    <3>4. \A s \in Upto(n) : s # {} => s \ {Picked(s)} \in Upto(n - 1) /\ s \ {Picked(s)} \in Upto(n)
      <4> SUFFICES ASSUME NEW s \in Upto(n), s # {}
                   PROVE  s \ {Picked(s)} \in Upto(n - 1) /\ s \ {Picked(s)} \in Upto(n)
        OBVIOUS
      <4>1. /\ s \ {Picked(s)} \in SUBSET Keys
            /\ Cardinality(s \ {Picked(s)}) = Cardinality(s) - 1 /\ Cardinality(s) \in Nat
        BY KeysAreFinite
      <4>2. n \in Nat /\ Cardinality(s) <= n
        BY <2>1
      <4> QED BY <4>1, <4>2
    <3>5. ASSUME NEW s \in Upto(n) PROVE Body(g, s) = Body(h, s)
      <4> DEFINE t == s \ {Picked(s)}
      <4>1. ASSUME s # {} PROVE g[t] = h[t]
        <5>1. t \in Upto(n - 1) /\ t \in Upto(n)
          BY <3>4, <4>1
        <5>2. g[t] = Body(h, t)
          <6> HIDE DEF t, Body, Upto
          <6> QED BY <5>1
        <5>3. h[t] = Body(h, t)
          <6> HIDE DEF t, Body, Upto
          <6> QED BY <3>3, <5>1
        <5> QED BY <5>2, <5>3
      <4> HIDE DEF g
      <4> QED BY <4>1
    <3>6. g = [s \in Upto(n) |-> Body(g, s)]
      <4>1. [s \in Upto(n) |-> Body(h, s)] = [s \in Upto(n) |-> Body(g, s)]
        <5> HIDE DEF g, Body, Upto
        <5> QED BY <3>5
      <4> QED BY <4>1
    <3>7. Has(n)
      <4> HIDE DEF g, Body, Upto
      <4> QED BY <3>6
    <3> QED BY <2>1, <3>7
  <2> QED BY <2>2, <2>3
<1>2. Cardinality(Keys) \in Nat /\ Upto(Cardinality(Keys)) = SUBSET Keys
  <2>1. \A s \in SUBSET Keys : Cardinality(s) <= Cardinality(Keys)
    BY KeysAreFinite
  <2>2. Cardinality(Keys) \in Nat
    BY KeysAreFinite
  <2> QED BY <2>1, <2>2
<1>3. Has(Cardinality(Keys))
  <2> HIDE DEF Has
  <2> QED BY <1>1, <1>2
<1> QED BY <1>2, <1>3 DEF SumsUp

\* The fold is such a sum.
LEMMA UsedIsASum ==
    ASSUME NEW table
    PROVE  \E iter : SumsUp(iter, table) /\ SizeSum(table) = iter[Keys]
<1> DEFINE i == CHOOSE iter : SumsUp(iter, table)
<1>1. SumsUp(i, table)
  BY SumExists
<1>2. SizeSum(table) = i[Keys]
  BY DEF SizeSum, MapThenSumSet, MapThenFoldSet, SumsUp, Weight, Picked
<1> QED BY <1>1, <1>2

Tables == [Keys -> [rows : Nat, size : 0..MaxSize]]

LEMMA WeightIsNat == ASSUME NEW table \in Tables, NEW k \in Keys PROVE Weight(table, k) \in Nat
<1>1. table[k].rows \in Nat /\ table[k].size \in Nat
  BY UploadsAssumption DEF Tables
<1>2. \A m, n \in Nat : m * n \in Nat
  OBVIOUS
<1> QED BY <1>1, <1>2 DEF Weight

LEMMA SumIsNat ==
    ASSUME NEW table \in Tables, NEW iter, SumsUp(iter, table)
    PROVE  \A s \in SUBSET Keys : iter[s] \in Nat
<1> DEFINE Good == {s \in SUBSET Keys : iter[s] \in Nat}
<1>1. {} \in Good
  BY DEF SumsUp
<1>2. ASSUME NEW s \in SUBSET Keys, s # {}, s \ {Picked(s)} \in Good
      PROVE  s \in Good
  <2>1. iter[s] = Weight(table, Picked(s)) + iter[s \ {Picked(s)}]
    BY <1>2 DEF SumsUp
  <2>2. Weight(table, Picked(s)) \in Nat
    BY <1>2, KeysAreFinite, WeightIsNat
  <2> QED BY <1>2, <2>1, <2>2
<1>3. \A s \in SUBSET Keys : s \in Good
  <2>1. Good \in SUBSET SUBSET Keys
    OBVIOUS
  <2> HIDE DEF Good
  <2> QED BY <1>1, <1>2, <2>1, KeysInduction
<1> QED BY <1>3

\* A table that differs at one key has another sum by what that key has.
LEMMA UsedMoves ==
    ASSUME NEW one \in Tables, NEW other \in Tables, NEW k \in Keys,
           \A x \in Keys \ {k} : Weight(one, x) = Weight(other, x)
    PROVE  /\ SizeSum(one) \in Nat /\ SizeSum(other) \in Nat
           /\ SizeSum(one) + Weight(other, k) = SizeSum(other) + Weight(one, k)
<1>1. PICK i : SumsUp(i, one) /\ SizeSum(one) = i[Keys]
  BY UsedIsASum
<1>2. PICK j : SumsUp(j, other) /\ SizeSum(other) = j[Keys]
  BY UsedIsASum
<1>3. \A s \in SUBSET Keys : i[s] \in Nat /\ j[s] \in Nat
  BY <1>1, <1>2, SumIsNat
<1>4. Weight(one, k) \in Nat /\ Weight(other, k) \in Nat
  BY WeightIsNat
<1> DEFINE Good == {s \in SUBSET Keys :
                      IF k \in s THEN i[s] + Weight(other, k) = j[s] + Weight(one, k)
                                 ELSE i[s] = j[s]}
<1>5. {} \in Good
  <2>1. i[{}] = 0 /\ j[{}] = 0
    BY <1>1, <1>2 DEF SumsUp
  <2> QED BY <2>1
<1>6. ASSUME NEW s \in SUBSET Keys, s # {}, s \ {Picked(s)} \in Good
      PROVE  s \in Good
  <2> DEFINE x == Picked(s)
             t == s \ {Picked(s)}
  <2>1. x \in s /\ x \in Keys /\ t \in SUBSET Keys
    BY <1>6, KeysAreFinite
  <2>2. i[s] = Weight(one, x) + i[t] /\ j[s] = Weight(other, x) + j[t]
    BY <1>1, <1>2, <1>6 DEF SumsUp
  <2>3. i[t] \in Nat /\ j[t] \in Nat /\ Weight(one, x) \in Nat /\ Weight(other, x) \in Nat
    <3> HIDE DEF x, t
    <3> QED BY <1>3, <2>1, WeightIsNat
  <2>4. CASE x = k
    <3>1. i[t] = j[t]
      BY <1>6, <2>4
    <3> HIDE DEF x, t
    <3> QED BY <1>4, <2>1, <2>2, <2>3, <2>4, <3>1
  <2>5. CASE x # k
    <3>1. Weight(one, x) = Weight(other, x)
      <4> HIDE DEF x
      <4> QED BY <2>1, <2>5
    <3>2. IF k \in s THEN i[t] + Weight(other, k) = j[t] + Weight(one, k) ELSE i[t] = j[t]
      BY <1>6, <2>5
    <3> HIDE DEF x, t
    <3> QED BY <1>4, <2>2, <2>3, <3>1, <3>2
  <2> QED BY <2>4, <2>5
<1>7. \A s \in SUBSET Keys : s \in Good
  <2>1. Good \in SUBSET SUBSET Keys
    OBVIOUS
  <2> HIDE DEF Good
  <2> QED BY <1>5, <1>6, <2>1, KeysInduction
<1>8. Keys \in Good
  <2> HIDE DEF Good
  <2> QED BY <1>7
<1> QED BY <1>1, <1>2, <1>3, <1>8

\* A table without rows sums to nothing.
LEMMA NothingUsed ==
    ASSUME NEW table \in Tables, \A k \in Keys : Weight(table, k) = 0
    PROVE  SizeSum(table) = 0
<1>1. PICK i : SumsUp(i, table) /\ SizeSum(table) = i[Keys]
  BY UsedIsASum
<1> DEFINE Good == {s \in SUBSET Keys : i[s] = 0}
<1>2. {} \in Good
  BY <1>1 DEF SumsUp
<1>3. ASSUME NEW s \in SUBSET Keys, s # {}, s \ {Picked(s)} \in Good
      PROVE  s \in Good
  <2>1. i[s] = Weight(table, Picked(s)) + i[s \ {Picked(s)}]
    BY <1>1, <1>3 DEF SumsUp
  <2>2. Picked(s) \in Keys
    BY <1>3, KeysAreFinite
  <2> QED BY <1>3, <2>1, <2>2
<1>4. \A s \in SUBSET Keys : s \in Good
  <2>1. Good \in SUBSET SUBSET Keys
    OBVIOUS
  <2> HIDE DEF Good
  <2> QED BY <1>2, <1>3, <2>1, KeysInduction
<1> QED BY <1>1, <1>4
-----------------------------------------------------------------------------
(* The uploads. *)

\* Each request is about one key, which no other request is about.
OneKeyEach ==
    /\ \A r \in Requests : /\ request[r].at = "free" => request[r].key = {}
                           /\ request[r].at # "free" => \E k \in minted : request[r].key = {k}
                           /\ request[r].at = "insert" => request[r].size \in Sizes
    /\ \A r, q \in Requests : \A k \in Keys :
          k \in request[r].key /\ k \in request[q].key => r = q

\* A key that is not handed out has nothing.
NothingUnminted ==
    \A k \in Keys \ minted : /\ pending[k] = 0 /\ object[k] = 0 /\ assets[k].rows = 0
                             /\ k \notin dropping

\* What a row, or a request about to insert one, says of the object; and the record of an
\* upload that came to its row is gone, or the request that inserted it will remove it.
RowsAreSound ==
    \A k \in Keys :
       /\ assets[k].rows > 0 => /\ assets[k].rows = 1 /\ k \notin dropping
                                /\ assets[k].size \in Sizes /\ object[k] = assets[k].size
       /\ \A r \in Requests : k \in request[r].key /\ request[r].at = "insert" =>
             object[k] = request[r].size /\ assets[k].rows = 0 /\ k \notin dropping
       /\ assets[k].rows > 0 \/ k \in dropping =>
             \/ pending[k] = 0
             \/ \E r \in Requests : k \in request[r].key /\ request[r].at = "forget"

Inserting == {r \in Requests : request[r].at = "insert"}

\* The requests that have passed the check but the last of them to do so may each bring
\* a file of the largest size over the quota.
Allowed == Quota + MaxSize * (Cardinality(Requests) - 1)

QuotaIsKept ==
    /\ Used <= Allowed
    /\ Inserting = {} \/ \E r \in Inserting :
          Used + request[r].size + MaxSize * (Cardinality(Inserting) - 1) <= Allowed


\* What each request, key and row is like, apart from the quota.
KeysInv == UploadsTypeOK /\ OneKeyEach /\ NothingUnminted /\ RowsAreSound

\* The inductive invariant of the uploads.
UploadsInv == KeysInv /\ (Quota > 0 => QuotaIsKept)

\* Every step keeps what requests, keys and rows say of one another.
LEMMA KeysStep == KeysInv /\ [UploadsNext]_uploadVars => KeysInv'
<1> SUFFICES ASSUME KeysInv, [UploadsNext]_uploadVars PROVE KeysInv'
  OBVIOUS
<1>0. MaxSize \in Nat \ {0}
  BY UploadsAssumption
<1>1. ASSUME NEW k \in Keys, NEW size \in Sizes, InitUpload(k, size) PROVE KeysInv'
  <2>1. UploadsTypeOK'
    BY <1>0, <1>1 DEF InitUpload, Mint, KeysInv, UploadsTypeOK, Sizes
  <2>2. OneKeyEach'
    BY <1>0, <1>1 DEF InitUpload, Mint, KeysInv, UploadsTypeOK, OneKeyEach, Sizes
  <2>3. NothingUnminted'
    BY <1>0, <1>1 DEF InitUpload, Mint, KeysInv, UploadsTypeOK, OneKeyEach, NothingUnminted, Sizes
  <2>4. RowsAreSound'
    BY <1>0, <1>1 DEF InitUpload, Mint, KeysInv, UploadsTypeOK, OneKeyEach, NothingUnminted, RowsAreSound, Sizes
  <2> QED BY <2>1, <2>2, <2>3, <2>4 DEF KeysInv
<1>2. ASSUME NEW k \in Keys, NEW size \in Sizes, PutObject(k, size) PROVE KeysInv'
  <2>1. UploadsTypeOK'
    BY <1>0, <1>2 DEF PutObject, KeysInv, UploadsTypeOK, Sizes
  <2>2. OneKeyEach'
    BY <1>0, <1>2 DEF PutObject, KeysInv, UploadsTypeOK, OneKeyEach, Sizes
  <2>3. NothingUnminted'
    BY <1>0, <1>2 DEF PutObject, KeysInv, UploadsTypeOK, OneKeyEach, NothingUnminted, Sizes
  <2>4. RowsAreSound'
    BY <1>0, <1>2 DEF PutObject, KeysInv, UploadsTypeOK, OneKeyEach, NothingUnminted, RowsAreSound, Sizes
  <2> QED BY <2>1, <2>2, <2>3, <2>4 DEF KeysInv
<1>3. ASSUME NEW k \in Keys, Expire(k) PROVE KeysInv'
  <2>1. UploadsTypeOK'
    BY <1>0, <1>3 DEF Expire, KeysInv, UploadsTypeOK, Sizes
  <2>2. OneKeyEach'
    BY <1>0, <1>3 DEF Expire, KeysInv, UploadsTypeOK, OneKeyEach, Sizes
  <2>3. NothingUnminted'
    BY <1>0, <1>3 DEF Expire, KeysInv, UploadsTypeOK, OneKeyEach, NothingUnminted, Sizes
  <2>4. RowsAreSound'
    BY <1>0, <1>3 DEF Expire, KeysInv, UploadsTypeOK, OneKeyEach, NothingUnminted, RowsAreSound, Sizes
  <2> QED BY <2>1, <2>2, <2>3, <2>4 DEF KeysInv
<1>4. ASSUME NEW k \in Keys, DeleteAsset(k) PROVE KeysInv'
  <2>1. UploadsTypeOK'
    BY <1>0, <1>4 DEF DeleteAsset, KeysInv, UploadsTypeOK, Sizes
  <2>2. OneKeyEach'
    BY <1>0, <1>4 DEF DeleteAsset, KeysInv, UploadsTypeOK, OneKeyEach, Sizes
  <2>3. NothingUnminted'
    BY <1>0, <1>4 DEF DeleteAsset, KeysInv, UploadsTypeOK, OneKeyEach, NothingUnminted, Sizes
  <2>4. RowsAreSound'
    BY <1>0, <1>4 DEF DeleteAsset, KeysInv, UploadsTypeOK, OneKeyEach, NothingUnminted, RowsAreSound, Sizes
  <2> QED BY <2>1, <2>2, <2>3, <2>4 DEF KeysInv
<1>5. ASSUME NEW k \in Keys, DropObject(k) PROVE KeysInv'
  <2>1. UploadsTypeOK'
    BY <1>0, <1>5 DEF DropObject, KeysInv, UploadsTypeOK, Sizes
  <2>2. OneKeyEach'
    BY <1>0, <1>5 DEF DropObject, KeysInv, UploadsTypeOK, OneKeyEach, Sizes
  <2>3. NothingUnminted'
    BY <1>0, <1>5 DEF DropObject, KeysInv, UploadsTypeOK, OneKeyEach, NothingUnminted, Sizes
  <2>4. RowsAreSound'
    BY <1>0, <1>5 DEF DropObject, KeysInv, UploadsTypeOK, OneKeyEach, NothingUnminted, RowsAreSound, Sizes
  <2> QED BY <2>1, <2>2, <2>3, <2>4 DEF KeysInv
<1>6. ASSUME NEW r \in Requests, NEW k \in Keys, FinalizeChecks(r, k) PROVE KeysInv'
  <2>0. /\ request[r].at = "free" /\ \A q \in Requests : request[q].key # {k}
        /\ pending[k] # 0 /\ object[k] # 0
    BY <1>6 DEF FinalizeChecks, Free
  <2>1. \A q \in Requests : k \notin request[q].key
    <3> SUFFICES ASSUME NEW q \in Requests, k \in request[q].key PROVE FALSE
      OBVIOUS
    <3>1. request[q].at # "free"
      BY DEF KeysInv, OneKeyEach
    <3>2. \E j \in minted : request[q].key = {j}
      BY <3>1 DEF KeysInv, OneKeyEach
    <3> QED BY <2>0, <3>2
  <2>2. assets[k].rows = 0 /\ k \notin dropping /\ k \in minted
    BY <2>0, <2>1 DEF KeysInv, UploadsTypeOK, NothingUnminted, RowsAreSound
  <2>3. CASE Reject(k) /\ UNCHANGED request
    <3>1. UNCHANGED <<minted, assets, request, dropping>>
      BY <1>6, <2>3 DEF FinalizeChecks
    <3>2. UploadsTypeOK' /\ OneKeyEach'
      BY <1>0, <2>3, <3>1 DEF Reject, KeysInv, UploadsTypeOK, OneKeyEach, Sizes
    <3>3. NothingUnminted' /\ RowsAreSound'
      BY <2>1, <2>2, <2>3, <3>1
      DEF Reject, KeysInv, UploadsTypeOK, OneKeyEach, NothingUnminted, RowsAreSound
    <3> QED BY <3>2, <3>3 DEF KeysInv
  <2>4. CASE /\ request' = [request EXCEPT ![r] =
                    [at |-> "insert", key |-> {k}, size |-> object[k]]]
             /\ UNCHANGED <<object, pending>>
    <3>1. UNCHANGED <<minted, pending, object, assets, dropping>>
      BY <1>6, <2>4 DEF FinalizeChecks
    <3>2. object[k] \in Sizes /\ object[k] \in 0..MaxSize
      BY <1>0, <2>0 DEF KeysInv, UploadsTypeOK, Sizes
    <3>3. /\ \A q \in Requests : q # r => request'[q] = request[q]
          /\ request'[r] = [at |-> "insert", key |-> {k}, size |-> object[k]]
      BY <2>4 DEF KeysInv, UploadsTypeOK
    <3>4. UploadsTypeOK'
      BY <2>4, <3>1, <3>2 DEF KeysInv, UploadsTypeOK
    <3>5. OneKeyEach'
      BY <2>1, <2>2, <3>1, <3>2, <3>3 DEF KeysInv, OneKeyEach
    <3>6. NothingUnminted' /\ RowsAreSound'
      BY <2>0, <2>1, <2>2, <3>1, <3>3
      DEF KeysInv, UploadsTypeOK, OneKeyEach, NothingUnminted, RowsAreSound
    <3> QED BY <3>4, <3>5, <3>6 DEF KeysInv
  <2> QED BY <1>6, <2>3, <2>4 DEF FinalizeChecks
<1>7. ASSUME NEW r \in Requests, NEW k \in Keys, NEW size \in Sizes, DirectStores(r, k, size) PROVE KeysInv'
  <2>1. UploadsTypeOK'
    BY <1>0, <1>7 DEF DirectStores, Mint, Free, KeysInv, UploadsTypeOK, Sizes
  <2>2. OneKeyEach'
    <3>1. \A q \in Requests : k \notin request[q].key
      BY <1>7 DEF DirectStores, Mint, KeysInv, UploadsTypeOK, OneKeyEach
    <3>2. /\ \A q \in Requests : q # r => request'[q] = request[q]
          /\ request'[r] = [at |-> "insert", key |-> {k}, size |-> size]
          /\ minted' = minted \cup {k}
      BY <1>7 DEF DirectStores, Mint, KeysInv, UploadsTypeOK
    <3> QED BY <1>7, <3>1, <3>2 DEF KeysInv, OneKeyEach
  <2>3. NothingUnminted'
    BY <1>0, <1>7 DEF DirectStores, Mint, Free, KeysInv, UploadsTypeOK, OneKeyEach, NothingUnminted, Sizes
  <2>4. RowsAreSound'
    BY <1>0, <1>7 DEF DirectStores, Mint, Free, KeysInv, UploadsTypeOK, OneKeyEach, NothingUnminted, RowsAreSound, Sizes
  <2> QED BY <2>1, <2>2, <2>3, <2>4 DEF KeysInv
<1>8. ASSUME NEW r \in Requests, InsertAsset(r) PROVE KeysInv'
  <2>1. UploadsTypeOK'
    BY <1>0, <1>8 DEF InsertAsset, KeysInv, UploadsTypeOK, Sizes
  <2>2. OneKeyEach'
    BY <1>0, <1>8 DEF InsertAsset, KeysInv, UploadsTypeOK, OneKeyEach, Sizes
  <2>3. NothingUnminted'
    BY <1>0, <1>8 DEF InsertAsset, KeysInv, UploadsTypeOK, OneKeyEach, NothingUnminted, Sizes
  <2>4. RowsAreSound'
    BY <1>0, <1>8 DEF InsertAsset, KeysInv, UploadsTypeOK, OneKeyEach, NothingUnminted, RowsAreSound, Sizes
  <2> QED BY <2>1, <2>2, <2>3, <2>4 DEF KeysInv
<1>9. ASSUME NEW r \in Requests, ForgetPending(r) PROVE KeysInv'
  <2>1. UploadsTypeOK'
    BY <1>0, <1>9 DEF ForgetPending, Free, KeysInv, UploadsTypeOK, Sizes
  <2>2. OneKeyEach'
    BY <1>0, <1>9 DEF ForgetPending, Free, KeysInv, UploadsTypeOK, OneKeyEach, Sizes
  <2>3. NothingUnminted'
    BY <1>0, <1>9 DEF ForgetPending, Free, KeysInv, UploadsTypeOK, OneKeyEach, NothingUnminted, Sizes
  <2>4. RowsAreSound'
    BY <1>0, <1>9 DEF ForgetPending, Free, KeysInv, UploadsTypeOK, OneKeyEach, NothingUnminted, RowsAreSound, Sizes
  <2> QED BY <2>1, <2>2, <2>3, <2>4 DEF KeysInv
<1>10. CASE UNCHANGED uploadVars
  BY <1>10 DEF uploadVars, KeysInv, UploadsTypeOK, OneKeyEach, NothingUnminted, RowsAreSound
<1> QED BY <1>1, <1>2, <1>3, <1>4, <1>5, <1>6, <1>7, <1>8, <1>9, <1>10 DEF UploadsNext

LEMMA KeysInit == UploadsInit => KeysInv
  BY UploadsAssumption
  DEF UploadsInit, KeysInv, Free, UploadsTypeOK, OneKeyEach, NothingUnminted, RowsAreSound

-----------------------------------------------------------------------------
(* The quota. *)

LEMMA Times ==
    ASSUME NEW m \in Nat, NEW c \in Nat
    PROVE  /\ m * c \in Nat /\ m * (c + 1) = m * c + m
           /\ \A d \in Nat : c <= d => m * c <= m * d
<1>1. \A d \in Nat : m * d \in Nat /\ m * (c + d) = m * c + m * d
  OBVIOUS
<1>2. \A d \in Nat : c <= d => d - c \in Nat /\ c + (d - c) = d
  OBVIOUS
<1>3. \A d \in Nat : c <= d => m * d = m * c + m * (d - c) /\ m * (d - c) \in Nat
  BY <1>1, <1>2
<1>4. m * 1 = m
  OBVIOUS
<1> QED BY <1>1, <1>3, <1>4

CountsAreSound ==
    /\ IsFiniteSet(Inserting) /\ Cardinality(Inserting) \in Nat
    /\ Cardinality(Inserting) <= Cardinality(Requests)
    /\ Cardinality(Requests) - 1 \in Nat
    /\ Inserting # {} => Cardinality(Inserting) - 1 \in Nat
    /\ MaxSize \in Nat /\ Quota \in Nat
    /\ MaxSize * (Cardinality(Requests) - 1) \in Nat /\ Allowed \in Nat

LEMMA InsertingIsFinite == CountsAreSound
<1>1. IsFiniteSet(Requests) /\ Requests # {} /\ MaxSize \in Nat /\ Quota \in Nat
  BY UploadsAssumption
<1>2. Inserting \in SUBSET Requests
  BY DEF Inserting
<1>3. IsFiniteSet(Inserting) /\ Cardinality(Inserting) <= Cardinality(Requests)
  BY <1>1, <1>2, FS_Subset
<1>4. Cardinality(Inserting) \in Nat /\ Cardinality(Requests) \in Nat
  BY <1>1, <1>3, FS_CardinalityType
<1>5. Cardinality(Requests) # 0 /\ (Inserting # {} => Cardinality(Inserting) # 0)
  BY <1>1, <1>3, FS_EmptySet
<1>6. Cardinality(Requests) - 1 \in Nat
  BY <1>4, <1>5
<1>7. MaxSize * (Cardinality(Requests) - 1) \in Nat
  BY <1>1, <1>6, Times
<1> QED BY <1>1, <1>3, <1>4, <1>5, <1>6, <1>7 DEF Allowed, CountsAreSound

\* A request that passes the check adds at most its own file to what the others may still
\* bring; an insert moves its file from those to the sum.
LEMMA QuotaStep ==
    ASSUME KeysInv, KeysInv', Quota > 0, QuotaIsKept, [UploadsNext]_uploadVars
    PROVE  QuotaIsKept'
<1> DEFINE M == MaxSize
           I == Inserting
           N == Cardinality(Inserting)
<1>0. /\ UploadsTypeOK /\ OneKeyEach /\ NothingUnminted /\ RowsAreSound
      /\ UploadsTypeOK' /\ OneKeyEach' /\ RowsAreSound'
  BY DEF KeysInv
<1>1. /\ assets \in Tables /\ assets' \in Tables
      /\ Used = SizeSum(assets) /\ Used' = SizeSum(assets')
  BY <1>0 DEF UploadsTypeOK, Tables, Used
<1>2. /\ M \in Nat /\ Allowed \in Nat /\ N \in Nat /\ N' \in Nat
      /\ I # {} => N - 1 \in Nat
      /\ I' # {} => N' - 1 \in Nat
      /\ Allowed' = Allowed
  <2>1. CountsAreSound /\ CountsAreSound'
    BY InsertingIsFinite, PTL
  <2> QED BY <2>1 DEF Allowed, CountsAreSound
<1>3. \A r \in I : request[r].size \in Nat /\ request[r].size <= M
  BY <1>0, <1>2 DEF OneKeyEach, Inserting, Sizes
<1>4. \A r \in I' : request'[r].size \in Nat /\ request'[r].size <= M
  BY <1>0, <1>2 DEF OneKeyEach, Inserting, Sizes
<1>5. ASSUME Used' \in Nat, Used \in Nat, Used' <= Used, UNCHANGED Inserting,
             \A r \in Inserting : request'[r] = request[r]
      PROVE  QuotaIsKept'
  <2>1. Used' <= Allowed'
    BY <1>2, <1>5 DEF QuotaIsKept
  <2>2. CASE Inserting = {}
    BY <1>5, <2>1, <2>2 DEF QuotaIsKept
  <2>3. ASSUME NEW r \in Inserting, Used + request[r].size + M * (N - 1) <= Allowed
        PROVE  QuotaIsKept'
    <3>1. r \in Inserting' /\ request'[r].size = request[r].size /\ N' = N
      BY <1>5, <2>3
    <3>2. M * (N - 1) \in Nat
      BY <1>2, <2>3, Times
    <3>3. Used' + request'[r].size + M * (N' - 1) <= Allowed'
      BY <1>2, <1>3, <1>5, <2>3, <3>1, <3>2
    <3> QED BY <2>1, <3>1, <3>3 DEF QuotaIsKept
  <2> QED BY <2>2, <2>3 DEF QuotaIsKept
<1>6. ASSUME UNCHANGED <<assets, request>> PROVE QuotaIsKept'
  <2>1. Used' = Used
    BY <1>1, <1>6
  <2> QED BY <1>6, <2>1 DEF QuotaIsKept, Inserting, Allowed
\* A request passes the check.
<1>7. ASSUME NEW r \in Requests, NEW k \in Keys, NEW size \in Sizes, request[r] = Free,
             ~ExceedsQuota(size), UNCHANGED assets,
             request' = [request EXCEPT ![r] = [at |-> "insert", key |-> {k}, size |-> size]]
      PROVE  QuotaIsKept'
  <2>1. Used \in Nat /\ Used' = Used /\ size \in Nat
    BY <1>0, <1>1, <1>7, UsedMoves DEF Sizes
  <2>2. Used + size <= Quota
    BY <1>7, <2>1, UploadsAssumption DEF ExceedsQuota
  <2>3. r \in I' /\ request'[r].size = size
    BY <1>0, <1>7 DEF UploadsTypeOK, Inserting
  <2>4. N' - 1 \in Nat /\ Cardinality(Requests) - 1 \in Nat /\ N' - 1 <= Cardinality(Requests) - 1
    <3>1. N' <= Cardinality(Requests)
      <4>1. CountsAreSound'
        BY InsertingIsFinite, PTL
      <4> QED BY <4>1 DEF CountsAreSound
    <3>2. Cardinality(Requests) - 1 \in Nat
      BY InsertingIsFinite DEF CountsAreSound
    <3>3. N' - 1 \in Nat /\ N' \in Nat
      BY <1>2, <2>3
    <3>4. \A n, m \in Nat : n <= m => n - 1 <= m - 1
      OBVIOUS
    <3>5. Cardinality(Requests) \in Nat
      BY UploadsAssumption, FS_CardinalityType
    <3>6. N' - 1 <= Cardinality(Requests) - 1
      BY <3>1, <3>3, <3>4, <3>5
    <3> QED BY <3>2, <3>3, <3>6
  <2>5. /\ M * (N' - 1) \in Nat /\ M * (Cardinality(Requests) - 1) \in Nat
        /\ M * (N' - 1) <= M * (Cardinality(Requests) - 1)
    BY <1>2, <2>4, Times
  <2>6. Used' + size + M * (N' - 1) <= Allowed /\ Used' <= Allowed
    BY <2>1, <2>2, <2>5, UploadsAssumption DEF Allowed
  <2> QED BY <1>2, <2>3, <2>6 DEF QuotaIsKept
<1>8. ASSUME NEW k \in Keys, NEW size \in Sizes, InitUpload(k, size) PROVE QuotaIsKept'
  BY <1>6, <1>8 DEF InitUpload
<1>9. ASSUME NEW k \in Keys, NEW size \in Sizes, PutObject(k, size) PROVE QuotaIsKept'
  BY <1>6, <1>9 DEF PutObject
<1>10. ASSUME NEW k \in Keys, Expire(k) \/ DropObject(k) PROVE QuotaIsKept'
  BY <1>6, <1>10 DEF Expire, DropObject
<1>11. ASSUME NEW k \in Keys, DeleteAsset(k) PROVE QuotaIsKept'
  <2>1. /\ assets[k].rows = 1 /\ assets[k].size \in Nat
        /\ assets' = [assets EXCEPT ![k].rows = 0]
    <3>1. assets[k].rows > 0 /\ assets' = [assets EXCEPT ![k].rows = assets[k].rows - 1]
      BY <1>11 DEF DeleteAsset
    <3>2. assets[k].rows = 1 /\ assets[k].size \in Nat
      BY <1>0, <3>1 DEF RowsAreSound, Sizes
    <3>3. assets[k].rows - 1 = 0
      BY <3>2
    <3> QED BY <3>1, <3>2, <3>3
  <2>2. Weight(assets, k) = assets[k].size /\ Weight(assets', k) = 0
    BY <1>1, <2>1 DEF Weight, Tables
  <2>3. \A x \in Keys \ {k} : Weight(assets, x) = Weight(assets', x)
    BY <1>1, <2>1 DEF Weight, Tables
  <2>4. Used \in Nat /\ Used' \in Nat /\ Used + 0 = Used' + assets[k].size
    BY <1>1, <2>2, <2>3, UsedMoves
  <2>5. UNCHANGED request /\ Used' <= Used
    BY <1>11, <2>1, <2>4 DEF DeleteAsset
  <2> QED BY <1>5, <2>4, <2>5 DEF Inserting
<1>12. ASSUME NEW r \in Requests, NEW k \in Keys, FinalizeChecks(r, k) PROVE QuotaIsKept'
  <2>1. CASE Reject(k) /\ UNCHANGED request
    BY <1>6, <1>12, <2>1 DEF FinalizeChecks
  <2>2. CASE ~(object[k] # pending[k] \/ ExceedsQuota(object[k]))
    <3>1. object[k] \in Sizes /\ UNCHANGED assets /\ request[r] = Free
      BY <1>0, <1>12, UploadsAssumption DEF FinalizeChecks, UploadsTypeOK, Sizes
    <3>2. request' = [request EXCEPT ![r] = [at |-> "insert", key |-> {k}, size |-> object[k]]]
      BY <1>12, <2>2 DEF FinalizeChecks
    <3> QED BY <1>7, <2>2, <3>1, <3>2
  <2> QED BY <1>12, <2>1, <2>2 DEF FinalizeChecks
<1>13. ASSUME NEW r \in Requests, NEW k \in Keys, NEW size \in Sizes, DirectStores(r, k, size)
       PROVE  QuotaIsKept'
  BY <1>7, <1>13 DEF DirectStores
<1>14. ASSUME NEW r \in Requests, InsertAsset(r) PROVE QuotaIsKept'
  <2>1. PICK k \in minted : request[r].key = {k}
    BY <1>0, <1>14 DEF InsertAsset, OneKeyEach
  <2>2. /\ k \in Keys /\ assets[k].rows = 0 /\ assets[k].size \in Nat
        /\ r \in I /\ request[r].size \in Nat /\ request[r].size <= M
    BY <1>0, <1>2, <1>3, <1>14, <2>1
    DEF InsertAsset, UploadsTypeOK, RowsAreSound, Inserting
  <2>3. /\ assets'[k] = [rows |-> 1, size |-> request[r].size]
        /\ \A x \in Keys \ {k} : assets'[x] = assets[x]
    BY <1>14, <2>1, <2>2 DEF InsertAsset
  <2>4. /\ Weight(assets, k) = 0 /\ Weight(assets', k) = request[r].size
        /\ \A x \in Keys \ {k} : Weight(assets, x) = Weight(assets', x)
    BY <2>2, <2>3 DEF Weight
  <2>5. Used \in Nat /\ Used' \in Nat /\ Used' = Used + request[r].size
    BY <1>1, <2>2, <2>4, UsedMoves
  <2>6. I' = I \ {r} /\ \A q \in I' : request'[q] = request[q]
    BY <1>0, <1>14 DEF InsertAsset, UploadsTypeOK, Inserting
  <2>7. N' = N - 1
    <3>1. IsFiniteSet(I)
      BY InsertingIsFinite DEF CountsAreSound
    <3> QED BY <2>2, <2>6, <3>1, FS_RemoveElement
  <2>8. PICK q \in I : Used + request[q].size + M * (N - 1) <= Allowed
    BY <2>2 DEF QuotaIsKept
  <2>9. N - 1 \in Nat /\ M * (N - 1) \in Nat
    BY <1>2, <2>2, Times
  <2>10. N' \in Nat /\ M * (N - 1) = M * N'
    BY <2>7, <2>9
  <2>11. I' # {} => N' - 1 \in Nat /\ M * (N' - 1) \in Nat /\ M * N' = M * (N' - 1) + M
    <3> SUFFICES ASSUME I' # {}
                 PROVE  N' - 1 \in Nat /\ M * (N' - 1) \in Nat /\ M * N' = M * (N' - 1) + M
      OBVIOUS
    <3>1. N' - 1 \in Nat
      BY <1>2
    <3>2. M * (N' - 1) \in Nat /\ M * ((N' - 1) + 1) = M * (N' - 1) + M
      BY <1>2, <3>1, Times
    <3>3. (N' - 1) + 1 = N'
      BY <2>10
    <3> QED BY <3>1, <3>2, <3>3
  <2> HIDE DEF N, M, I
  <2>12. CASE q = r
    <3>1. Used' + M * N' <= Allowed
      BY <2>5, <2>8, <2>10, <2>12
    <3>2. Used' <= Allowed
      BY <1>2, <2>5, <2>9, <2>10, <3>1
    <3>3. CASE I' = {}
      BY <1>2, <3>2, <3>3 DEF QuotaIsKept, I
    <3>4. ASSUME NEW p \in I' PROVE QuotaIsKept'
      <4>1. Used' + request'[p].size + M * (N' - 1) <= Allowed
        BY <1>2, <1>4, <2>5, <2>11, <3>1, <3>4
      <4> QED BY <1>2, <3>2, <3>4, <4>1 DEF QuotaIsKept, I, M, N
    <3> QED BY <3>3, <3>4
  <2>13. CASE q # r
    <3>1. q \in I' /\ request'[q].size = request[q].size /\ request[q].size \in Nat
      BY <1>3, <2>6, <2>8, <2>13
    <3>2. Used' + request'[q].size + M * (N' - 1) <= Allowed
      BY <1>2, <2>2, <2>5, <2>8, <2>10, <2>11, <3>1
    <3>3. Used' <= Allowed
      <4>1. M * (N' - 1) \in Nat /\ Used' \in Nat
        BY <2>5, <2>11, <3>1
      <4>2. \A a, b, c, d \in Nat : a + b + c <= d => a <= d
        OBVIOUS
      <4> QED BY <1>2, <3>1, <3>2, <4>1, <4>2
    <3> QED BY <1>2, <3>1, <3>2, <3>3 DEF QuotaIsKept, I, M, N
  <2> QED BY <2>12, <2>13
<1>15. ASSUME NEW r \in Requests, ForgetPending(r) PROVE QuotaIsKept'
  <2>1. UNCHANGED assets /\ request[r].at = "forget" /\ request' = [request EXCEPT ![r] = Free]
    BY <1>15 DEF ForgetPending
  <2>2. UNCHANGED Inserting /\ \A q \in Inserting : request'[q] = request[q]
    BY <1>0, <2>1 DEF UploadsTypeOK, Inserting, Free
  <2>3. CASE Keys = {}
    BY <1>0, <1>15, <2>1, <2>3 DEF OneKeyEach, UploadsTypeOK
  <2>4. CASE Keys # {}
    <3>1. PICK k \in Keys : TRUE
      BY <2>4
    <3>2. Used \in Nat /\ Used' = Used
      BY <1>1, <2>1, <3>1, UsedMoves
    <3> QED BY <1>5, <2>2, <3>2
  <2> QED BY <2>3, <2>4
<1>16. CASE UNCHANGED uploadVars
  BY <1>6, <1>16 DEF uploadVars
<1> QED BY <1>8, <1>9, <1>10, <1>11, <1>12, <1>13, <1>14, <1>15, <1>16 DEF UploadsNext

\* What a key, the request about it, its object and its row say of one another; and
\* how near the uploads on their way bring the sum to the quota.
THEOREM UploadsInvariant == UploadsSpec => []UploadsInv
<1>1. UploadsInit => UploadsInv
  <2> SUFFICES ASSUME UploadsInit PROVE UploadsInv
    OBVIOUS
  <2>1. KeysInv
    BY KeysInit
  <2>2. /\ assets \in Tables /\ \A k \in Keys : Weight(assets, k) = 0
    BY UploadsAssumption DEF UploadsInit, Tables, Weight
  <2>3. Used = 0
    BY <2>2, NothingUsed DEF Used
  <2>4. Inserting = {}
    BY DEF UploadsInit, Inserting, Free
  <2>5. Allowed \in Nat
    BY InsertingIsFinite DEF CountsAreSound
  <2> QED BY <2>1, <2>3, <2>4, <2>5 DEF UploadsInv, KeysInv, QuotaIsKept
<1>2. UploadsInv /\ [UploadsNext]_uploadVars => UploadsInv'
  <2> SUFFICES ASSUME UploadsInv, [UploadsNext]_uploadVars PROVE UploadsInv'
    OBVIOUS
  <2>1. KeysInv /\ KeysInv'
    BY KeysStep DEF UploadsInv, KeysInv
  <2>2. Quota > 0 => QuotaIsKept'
    BY <2>1, QuotaStep DEF UploadsInv
  <2> QED BY <2>1, <2>2 DEF UploadsInv, KeysInv
<1> QED BY <1>1, <1>2, PTL DEF UploadsSpec

\* For any number of keys and of requests at once, any quota and any sizes: a row is the
\* only one of its object and states its size, and requests that pass the check of the
\* quota together exceed it by no more than the files of all but one of them.
THEOREM AssetsAreAccountedFor == UploadsSpec => []AssetsAccountedFor
<1>1. UploadsInv => AssetsAccountedFor
  BY DEF UploadsInv, KeysInv, RowsAreSound, QuotaIsKept, Allowed, AssetsAccountedFor
<1> QED BY <1>1, UploadsInvariant, PTL
=============================================================================
