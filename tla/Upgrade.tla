------------------------------- MODULE Upgrade -------------------------------
(***************************************************************************)
(* The upgrade of the database after a release was deployed:               *)
(* Plugin::maybe_upgrade() with its lock and its back-off, the order of    *)
(* Installer::install(), the migrations, and the seeder of the default     *)
(* templates, which refreshes a row only while it holds what was seeded.   *)
(* Any request may find the database behind; several may at once, one may  *)
(* die or throw half way, and administrators edit the templates meanwhile. *)
(* Release 1 stands for those that kept no hash of what they seeded.       *)
(***************************************************************************)
EXTENDS Naturals, FiniteSets

CONSTANTS
    Upgraders,     \* requests at the same time
    LastTemplate,  \* the default templates are 1..LastTemplate
    MaxRelease,    \* bound on the releases
    MaxFaults      \* bound on the upgrades that throw, or die without cleaning up

ASSUME UpgradeAssumption ==
    /\ IsFiniteSet(Upgraders)
    /\ {LastTemplate, MaxFaults} \subseteq Nat
    /\ MaxRelease \in Nat \ {0, 1}

VARIABLES
    release,    \* IMGSIG_VERSION of the files on the server
    version,    \* the option imgsig_version, 0 when it is missing
    schema,     \* the option imgsig_schema_version
    applied,    \* the migrations whose up() has run
    upgradeLock, \* the option imgsig_upgrade_lock: "free", "held" or "stale"
    backoff,    \* whether the transient imgsig_upgrade_backoff is set
    rows,       \* the design of each default template's row
    seeded,     \* the option imgsig_template_hashes, 0 where it has no entry
    upgrader,   \* where each request is, and what it has read
    overwritten,\* the templates of which an upgrade has overwritten an edit
    faults      \* the upgrades that threw or died

database  == <<version, schema, applied>>
guards    == <<upgradeLock, backoff>>
templates == <<rows, seeded, overwritten>>
upgradeVars == <<release, database, guards, templates, upgrader, faults>>

Releases == 1..MaxRelease
Defaults == 1..LastTemplate
Missing == 0               \* no row has the slug
Own     == MaxRelease + 1  \* a system row the administrator has edited
Theirs  == MaxRelease + 2  \* a row of the slug that the plugin did not create

Absent == [at |-> "away", current |-> 0, next |-> 1, seen |-> Missing,
           hashes |-> [t \in Defaults |-> 0], changed |-> FALSE]

Installing == {u \in Upgraders : upgrader[u].at \notin {"away", "lock", "blocked", "takeover"}}

\* Release 2 is there: on a new site, on one with release 1, which shipped the first
\* template only (an administrator may have taken the slug of a later one), or on one
\* where it was installed.
UpgradeInit ==
    /\ release = 2 /\ version \in 0..2
    /\ schema = version /\ applied = 1..version
    /\ upgradeLock = "free" /\ backoff = FALSE
    /\ rows \in [Defaults -> {Missing, 1, 2, Theirs}]
    /\ \A t \in Defaults :
          IF version = 1 /\ t # 1 THEN rows[t] \in {Missing, Theirs} ELSE rows[t] = version
    /\ seeded = [t \in Defaults |-> IF version = 2 THEN 2 ELSE 0]
    /\ overwritten = {}
    /\ upgrader = [u \in Upgraders |-> Absent]
    /\ faults = 0

\* The next release.  Bound: none comes before the last one has been installed.
Deploy ==
    /\ release < MaxRelease /\ version = release
    /\ \A u \in Upgraders : upgrader[u] = Absent
    /\ release' = release + 1
    /\ UNCHANGED <<database, guards, templates, faults, upgrader>>

\* maybe_upgrade(): the database is behind, and the last failure not too recent.
Notices(u) ==
    /\ upgrader[u].at = "away" /\ version < release /\ ~backoff
    /\ upgrader' = [upgrader EXCEPT ![u].at = "lock"]
    /\ UNCHANGED <<release, database, guards, templates, faults>>

\* add_option(): atomic.
Locks(u) ==
    /\ upgrader[u].at = "lock"
    /\ upgradeLock' = IF upgradeLock = "free" THEN "held" ELSE upgradeLock
    /\ upgrader' = [upgrader EXCEPT ![u].at = IF upgradeLock = "free" THEN "migrate"
                                              ELSE "blocked"]
    /\ UNCHANGED <<release, database, backoff, templates, faults>>

\* Faulty: nobody takes over.
GivesUpOnLock(u) ==
    /\ upgrader[u].at = "blocked"
    /\ upgrader' = [upgrader EXCEPT ![u] = Absent]
    /\ UNCHANGED <<release, database, guards, templates, faults>>

\* The lock as it is by now: one that was deleted meanwhile reads as 0, an old one.
LooksAtLock(u) ==
    /\ upgrader[u].at = "blocked"
    /\ upgrader' = IF upgradeLock = "held" THEN [upgrader EXCEPT ![u] = Absent]
                   ELSE [upgrader EXCEPT ![u].at = "takeover"]
    /\ UNCHANGED <<release, database, guards, templates, faults>>

TakesOver(u) ==
    /\ upgrader[u].at = "takeover"
    /\ upgradeLock' = "held"
    /\ upgrader' = [upgrader EXCEPT ![u].at = "migrate"]
    /\ UNCHANGED <<release, database, backoff, templates, faults>>

\* migrate(): where the database is,
ReadsSchema(u) ==
    /\ upgrader[u].at = "migrate"
    /\ upgrader' = [upgrader EXCEPT ![u].at = "up", ![u].current = schema]
    /\ UNCHANGED <<release, database, guards, templates, faults>>

\* ... one migration after the other,
MigratesUp(u) ==
    /\ upgrader[u].at = "up" /\ upgrader[u].current < release
    /\ applied' = applied \cup {upgrader[u].current + 1}
    /\ upgrader' = [upgrader EXCEPT ![u].at = "stamp"]
    /\ UNCHANGED <<release, version, schema, guards, templates, faults>>

\* ... each recorded when it is done.
StampsSchema(u) ==
    /\ upgrader[u].at = "stamp"
    /\ schema' = upgrader[u].current + 1
    /\ upgrader' = [upgrader EXCEPT ![u].at = "up", ![u].current = @ + 1]
    /\ UNCHANGED <<release, version, applied, guards, templates, faults>>

\* seed(): the hashes of what was seeded,
StartsSeeding(u) ==
    /\ upgrader[u].at = "up" /\ upgrader[u].current >= release
    /\ upgrader' = [upgrader EXCEPT ![u].at = "find", ![u].next = 1, ![u].hashes = seeded,
                                    ![u].changed = FALSE]
    /\ UNCHANGED <<release, database, guards, templates, faults>>

\* ... the row of the next template,
FindsRow(u) ==
    /\ upgrader[u].at = "find" /\ upgrader[u].next \in Defaults
    /\ upgrader' = [upgrader EXCEPT ![u].at = "store", ![u].seen = rows[upgrader[u].next]]
    /\ UNCHANGED <<release, database, guards, templates, faults>>

\* Faulty: a row whose hash is not known counts as the plugin's own.
UnknownIsPristine(design, hash) == hash = 0 \/ design = hash

\* is_pristine(): it holds what was seeded, or what release 1 shipped.
IsPristine(design, hash) == IF hash = 0 THEN design = 1 ELSE design = hash

\* A row is written when there was none or it is pristine ...
Writes(seen, hash) ==
    \/ seen = Missing
    \/ seen \notin {Theirs, release} /\ IsPristine(seen, hash)

\* Faulty: a row that is up to date is not remembered as seeded.
RecordsWhatItWrites(seen, hash) == Writes(seen, hash)

\* ... and recorded when it is written, or up to date already.
Records(seen, hash) == Writes(seen, hash) \/ (seen = release /\ hash # release)

\* ... which it inserts (in vain when there is one by now: slugs are unique) or updates.
StoresRow(u) ==
    LET t == upgrader[u].next
        seen == upgrader[u].seen
        hash == upgrader[u].hashes[t]
    IN  /\ upgrader[u].at = "store"
        /\ rows' = IF Writes(seen, hash) /\ (seen = Missing => rows[t] = Missing)
                   THEN [rows EXCEPT ![t] = release] ELSE rows
        /\ overwritten' = IF rows[t] = Own /\ rows'[t] # Own THEN overwritten \cup {t}
                          ELSE overwritten
        /\ upgrader' = [upgrader EXCEPT
               ![u].at = "find", ![u].next = t + 1, ![u].seen = Missing,
               ![u].hashes = IF Records(seen, hash) THEN [@ EXCEPT ![t] = release] ELSE @,
               ![u].changed = @ \/ Records(seen, hash)]
        /\ UNCHANGED <<release, database, guards, seeded, faults>>

\* The option is written once, after the last template.
SavesHashes(u) ==
    /\ upgrader[u].at = "find" /\ upgrader[u].next \notin Defaults
    /\ seeded' = IF upgrader[u].changed THEN upgrader[u].hashes ELSE seeded
    /\ upgrader' = [upgrader EXCEPT ![u] = [Absent EXCEPT !.at = "version"]]
    /\ UNCHANGED <<release, database, guards, rows, overwritten, faults>>

\* install(): the version goes last,
StampsVersion(u) ==
    /\ upgrader[u].at = "version"
    /\ version' = release
    /\ upgrader' = [upgrader EXCEPT ![u].at = "unlock"]
    /\ UNCHANGED <<release, schema, applied, guards, templates, faults>>

\* ... and the lock is deleted, whoever has it by now.
Unlocks(u) ==
    /\ upgrader[u].at = "unlock"
    /\ upgradeLock' = "free"
    /\ upgrader' = [upgrader EXCEPT ![u] = Absent]
    /\ UNCHANGED <<release, database, backoff, templates, faults>>

\* A step of the installation throws: an hour of rest, and the lock is deleted.
Throws(u) ==
    /\ faults < MaxFaults /\ faults' = faults + 1
    /\ u \in Installing
    /\ backoff' = TRUE
    /\ upgrader' = [upgrader EXCEPT ![u] = [Absent EXCEPT !.at = "unlock"]]
    /\ UNCHANGED <<release, database, upgradeLock, templates>>

\* The process ends where it is, and its lock stays.
UpgradeDies(u) ==
    /\ faults < MaxFaults /\ faults' = faults + 1
    /\ u \in Installing
    /\ upgrader' = [upgrader EXCEPT ![u] = Absent]
    /\ UNCHANGED <<release, database, guards, templates>>

\* UPGRADE_LOCK_TTL.  Bound: an installation that is alive ends sooner.
UpgradeLockAges ==
    /\ upgradeLock = "held" /\ Installing = {}
    /\ upgradeLock' = "stale"
    /\ UNCHANGED <<release, database, backoff, templates, faults, upgrader>>

BackoffEnds ==
    /\ backoff /\ backoff' = FALSE
    /\ UNCHANGED <<release, database, upgradeLock, templates, faults, upgrader>>

\* TemplateService::update() by an administrator.
EditsTemplate(t) ==
    /\ rows[t] \in Releases
    /\ rows' = [rows EXCEPT ![t] = Own]
    /\ UNCHANGED <<release, database, guards, seeded, overwritten, faults, upgrader>>

\* A request that installs goes on.
GoesOn(u) ==
    \/ Locks(u) \/ LooksAtLock(u) \/ TakesOver(u) \/ ReadsSchema(u) \/ MigratesUp(u)
    \/ StampsSchema(u) \/ StartsSeeding(u) \/ FindsRow(u) \/ StoresRow(u) \/ SavesHashes(u)
    \/ StampsVersion(u) \/ Unlocks(u)

UpgradeNext ==
    \/ Deploy \/ UpgradeLockAges \/ BackoffEnds
    \/ \E t \in Defaults : EditsTemplate(t)
    \/ \E u \in Upgraders : Notices(u) \/ GoesOn(u) \/ Throws(u) \/ UpgradeDies(u)

UpgradeSpec == UpgradeInit /\ [][UpgradeNext]_upgradeVars

-----------------------------------------------------------------------------
UpgradeTypeOK ==
    /\ release \in Releases /\ {version, schema} \subseteq 0..release
    /\ applied \subseteq Releases
    /\ upgradeLock \in {"free", "held", "stale"} /\ backoff \in BOOLEAN
    /\ rows \in [Defaults -> 0..Theirs] /\ seeded \in [Defaults -> 0..release]
    /\ overwritten \subseteq Defaults
    /\ upgrader \in [Upgraders ->
         [at : {"away", "lock", "blocked", "takeover", "migrate", "up", "stamp", "find",
                "store", "version", "unlock"},
          current : 0..release, next : 1..(LastTemplate + 1), seen : 0..Theirs,
          hashes : [Defaults -> 0..release], changed : BOOLEAN]]
    /\ faults \in 0..MaxFaults

\* A recorded schema version has had its migrations, and a recorded release has all
\* its migrations and the default templates it ships, apart from the rows that are an
\* administrator's: after deaths, failures and several upgrades at once too ("so a
\* half-finished install isn't recorded as complete").
VersionIsEarned ==
    /\ 1..schema \subseteq applied
    /\ version = release =>
         /\ 1..release \subseteq applied
         /\ \A t \in Defaults \ overwritten : rows[t] \in {release, Own, Theirs}

\* "Edited system rows and admin-created rows are never touched": a seeder overwrites
\* an edit only if it had read the row before.
EditsOutlive ==
    [][\A t \in Defaults : rows[t] \in {Own, Theirs} =>
         \/ rows'[t] = rows[t]
         \/ \E u \in Upgraders : /\ upgrader[u].at = "store" /\ upgrader[u].next = t
                                 /\ upgrader[u].seen \in Releases \ {release}]_upgradeVars

\* Nothing is recorded that was not done, and no edit is lost to what is done.
UpgradesAreSafe == []VersionIsEarned /\ EditsOutlive

\* The deployed release is the installed one.
UpgradeDone == version = release
=============================================================================
