----------------------------- MODULE ServerProofs -----------------------------
(***************************************************************************)
(* The work that processes of the site share, for any number of processes, *)
(* people, groups, members and calls: the queue of invitations, a bucket   *)
(* of the rate limits, the chunks of an assignment, the directory and the  *)
(* daily Gmail pass.                                                       *)
(***************************************************************************)
EXTENDS InvitationQueue, RateLimit, TemplateAssignment, Directory, GmailSync,
        FiniteSetTheorems, WellFoundedInduction, TLAPS

\* Min() of the community modules, of any numbers at all.
LEMMA SmallestOne ==
    ASSUME NEW S \in SUBSET Nat, S # {}
    PROVE  Min(S) \in S /\ \A n \in S : Min(S) <= n
<1> DEFINE Upto(n) == 0 .. n
           T == {Upto(n) : n \in S}
           R == StrictSubsetOrdering(Nat)
<1>1. T \subseteq FiniteSubsetsOf(Nat)
  <2>1. \A n \in S : Upto(n) \subseteq Nat /\ IsFiniteSet(Upto(n))
    BY FS_Interval
  <2> QED BY <2>1 DEF FiniteSubsetsOf
<1>2. T # {}
  OBVIOUS
<1>3. PICK x \in T : \A y \in T : ~ (<<y, x>> \in R)
  <2>1. IsWellFoundedOn(R, FiniteSubsetsOf(Nat))
    BY FS_StrictSubsetOrderingWellFounded
  <2> HIDE DEF T, R
  <2> QED BY <1>1, <1>2, <2>1, WFMin
<1>4. PICK m \in S : x = Upto(m)
  BY <1>3
<1>5. \A n \in S : m <= n
  <2> SUFFICES ASSUME NEW n \in S, n < m PROVE FALSE
    OBVIOUS
  <2>1. /\ Upto(n) \subseteq Nat /\ Upto(m) \subseteq Nat /\ Upto(n) \subseteq Upto(m)
        /\ m \in Upto(m) /\ m \notin Upto(n)
    OBVIOUS
  <2>2. <<Upto(n), Upto(m)>> \in R
    <3> HIDE DEF Upto
    <3> QED BY <2>1 DEF StrictSubsetOrdering
  <2> QED BY <1>3, <1>4, <2>2
<1> QED BY <1>5 DEF Min

-----------------------------------------------------------------------------
(* The queue of invitations. *)

\* The job as the option has it and as the processes have loaded it.
JobCopies == {job} \cup {runner[r].copy : r \in Runners}
Live(record) == record.status \in {"running", "done"}

\* What a record says of its job is so: those who are not pending have been come to, and
\* nobody else than those the job is for; records of one job are for the same people.
RecordsAreSound ==
    /\ \A j \in JobIds : j > started => handled[j] = {}
    /\ \A a \in JobCopies : Live(a) =>
          /\ a.id \in 1..started /\ a.pending \subseteq a.to
          /\ a.to \ a.pending \subseteq handled[a.id] /\ handled[a.id] \subseteq a.to
    /\ \A a, b \in JobCopies : Live(a) /\ Live(b) /\ a.id = b.id => a.to = b.to

\* A process has a record while it mails, and its batch is not full then.
CopiesAreLoaded ==
    \A r \in Runners :
        /\ Live(runner[r].copy) <=> runner[r].at \in {"mail", "save"}
        /\ runner[r].at \in {"mail", "save"} => runner[r].done < BatchSize
        /\ runner[r].at = "mail" => runner[r].copy.pending # {}

Batching(r) == runner[r].at \in {"load", "mail", "save", "end"}

\* As long as no process has died, the lock is held by the one process that has a batch,
\* and is nobody's to take over.
LockExcludes ==
    /\ lock # "abandoned" /\ \A r \in Runners : runner[r].at # "takeover"
    /\ lock = "held" <=> \E r \in Runners : Batching(r)
    /\ \A r, q \in Runners : Batching(r) /\ Batching(q) => r = q

\* Then nobody is pending who has been come to, but for the one whose copy is to be saved.
PendingIsUnhandled ==
    /\ \A r \in Runners : Live(runner[r].copy) =>
          runner[r].copy.pending \cap handled[runner[r].copy.id] = {}
    /\ job.status = "running" /\ (\A r \in Runners : runner[r].at = "save" => runner[r].copy.id # job.id) =>
          job.pending \cap handled[job.id] = {}

QueueInv ==
    /\ InvitationTypeOK /\ RecordsAreSound /\ CopiesAreLoaded /\ ~again
    /\ job.status = "done" => job.pending = {}
    /\ deaths = 0 => LockExcludes /\ PendingIsUnhandled

LEMMA QueueBounds ==
    /\ MaxJobs \in Nat /\ MaxDeaths \in Nat /\ MaxReminders \in Nat
    /\ BatchSize \in Nat /\ BatchSize > 0 /\ People \subseteq Nat
    /\ Selections \subseteq SUBSET People
BY InvitationAssumption

LEMMA AtRestIsAProcess ==
    /\ NoJob \in JobRecords /\ AtRest \in Processes /\ AtRest.at = "idle" /\ AtRest.copy = NoJob
    /\ NoJob.status = "none" /\ ~Live(NoJob)
BY QueueBounds DEF AtRest, NoJob, Processes, JobRecords, Live

LEMMA InitQueue == InvitationInit => QueueInv
<1> SUFFICES ASSUME InvitationInit PROVE QueueInv
  OBVIOUS
<1>1. \A r \in Runners : runner[r] = AtRest
  BY DEF InvitationInit
<1>2. InvitationTypeOK
  <2>1. /\ person \in [People -> [invited : BOOLEAN, reminders : Nat, installed : BOOLEAN]]
        /\ handled \in [JobIds -> SUBSET People]
    BY DEF InvitationInit
  <2>2. runner \in [Runners -> Processes] /\ \A r \in Runners : runner[r].copy.status \in {"none", "running"}
    BY <1>1, AtRestIsAProcess DEF InvitationInit
  <2>3. /\ started \in 0..MaxJobs /\ job \in JobRecords /\ events \subseteq JobIds
        /\ lock \in {"free", "held", "abandoned"} /\ again \in BOOLEAN /\ deaths \in 0..MaxDeaths
    <3>1. job \in JobRecords
      BY AtRestIsAProcess DEF InvitationInit
    <3>2. started \in 0..MaxJobs /\ deaths \in 0..MaxDeaths
      BY QueueBounds DEF InvitationInit
    <3> QED BY <3>1, <3>2 DEF InvitationInit
  <2> QED BY <2>1, <2>2, <2>3 DEF InvitationTypeOK
<1>3. \A a \in JobCopies : a = NoJob
  BY <1>1, AtRestIsAProcess DEF JobCopies, InvitationInit
<1>4. RecordsAreSound
  BY <1>3, AtRestIsAProcess DEF InvitationInit, RecordsAreSound
<1>5. CopiesAreLoaded
  BY <1>1, AtRestIsAProcess DEF CopiesAreLoaded
<1>6. LockExcludes
  BY <1>1, AtRestIsAProcess DEF LockExcludes, Batching, InvitationInit
<1>7. PendingIsUnhandled
  BY <1>1, AtRestIsAProcess DEF PendingIsUnhandled, InvitationInit
<1> QED BY <1>2, <1>4, <1>5, <1>6, <1>7, AtRestIsAProcess DEF QueueInv, InvitationInit

\* As long as nobody is come to and no job begins, records stay as sound as they are.
LEMMA RecordsStay ==
    ASSUME RecordsAreSound, UNCHANGED <<started, handled>>,
           \A a \in JobCopies' : a \in JobCopies \/ ~Live(a)
    PROVE  RecordsAreSound'
<1>1. \A a \in JobCopies' : Live(a) => a \in JobCopies
  OBVIOUS
<1> QED BY <1>1 DEF RecordsAreSound

\* A process moves on.
LEMMA ProcessMoves ==
    ASSUME InvitationTypeOK, CopiesAreLoaded, NEW r \in Runners, NEW p \in Processes,
           runner' = [runner EXCEPT ![r] = p],
           p.copy.status \in {"none", "running"},
           p.copy.status = "running" <=> p.at \in {"mail", "save"},
           p.at \in {"mail", "save"} => p.done < BatchSize,
           p.at = "mail" => p.copy.pending # {}
    PROVE  /\ \A q \in Runners : runner'[q] = IF q = r THEN p ELSE runner[q]
           /\ runner' \in [Runners -> Processes]
           /\ \A q \in Runners : runner'[q].copy.status \in {"none", "running"}
           /\ CopiesAreLoaded'
<1>1. \A q \in Runners : runner'[q] = IF q = r THEN p ELSE runner[q]
  BY DEF InvitationTypeOK
<1>2. CopiesAreLoaded'
  BY <1>1 DEF CopiesAreLoaded, Live
<1> QED BY <1>1, <1>2 DEF InvitationTypeOK

-----------------------------------------------------------------------------
(* Requests, the daily event and the age of the lock. *)

LEMMA StartStep ==
    ASSUME QueueInv, NEW kind \in {"invite", "reminder"}, NEW to \in SUBSET People,
           StartJob(kind, to)
    PROVE  QueueInv'
<1>1. started' = started + 1 /\ started' \in 1..MaxJobs /\ started \in Nat
  BY QueueBounds DEF StartJob, QueueInv, InvitationTypeOK
<1>2. /\ UNCHANGED <<lock, runner, person, handled, again, deaths>>
      /\ job' = [id |-> started', kind |-> kind, status |-> "running", to |-> to, pending |-> to]
      /\ events' = events \cup {started'}
  BY DEF StartJob
<1>3. InvitationTypeOK'
  BY <1>1, <1>2 DEF QueueInv, InvitationTypeOK, JobRecords, JobIds
<1>4. handled[started'] = {} /\ \A j \in JobIds : j > started' => handled[j] = {}
  BY <1>1 DEF QueueInv, RecordsAreSound, JobIds
<1>5. JobCopies' \subseteq {job'} \cup JobCopies
  BY <1>2 DEF JobCopies
<1>6. \A a \in JobCopies : Live(a) => a.id \in 1..started
  BY DEF QueueInv, RecordsAreSound
<1>7. RecordsAreSound'
  <2>1. \A a \in JobCopies' : Live(a) =>
          /\ a.id \in 1..started' /\ a.pending \subseteq a.to
          /\ a.to \ a.pending \subseteq handled'[a.id] /\ handled'[a.id] \subseteq a.to
    BY <1>1, <1>2, <1>4, <1>5 DEF QueueInv, RecordsAreSound
  <2>2. \A a, b \in JobCopies' : Live(a) /\ Live(b) /\ a.id = b.id => a.to = b.to
    <3> SUFFICES ASSUME NEW a \in JobCopies', NEW b \in JobCopies', Live(a), Live(b), a.id = b.id
                 PROVE  a.to = b.to
      OBVIOUS
    <3>1. job'.id = started' /\ started' \notin 1..started
      BY <1>1, <1>2
    <3>2. a = job' <=> b = job'
      BY <1>5, <1>6, <3>1
    <3> QED BY <1>5, <3>2 DEF QueueInv, RecordsAreSound
  <2> QED BY <1>2, <1>4, <2>1, <2>2 DEF RecordsAreSound
<1>8. ASSUME deaths = 0 PROVE LockExcludes' /\ PendingIsUnhandled'
  <2>1. LockExcludes'
    BY <1>2, <1>8 DEF QueueInv, LockExcludes, Batching
  <2>2. PendingIsUnhandled'
    BY <1>2, <1>4, <1>8 DEF QueueInv, PendingIsUnhandled
  <2> QED BY <2>1, <2>2
<1> QED BY <1>2, <1>3, <1>7, <1>8 DEF QueueInv, CopiesAreLoaded

LEMMA RequestStep ==
    ASSUME QueueInv, Cancel \/ Poll \/ LockAges \/ \E u \in Confirming : Installs(u)
    PROVE  QueueInv'
<1>1. UNCHANGED <<started, runner, handled, again, deaths>>
  BY DEF Cancel, Poll, LockAges, Installs
<1>2. /\ job' \in JobRecords /\ (job' = job \/ job'.status = "cancelled")
      /\ events' \subseteq JobIds
      /\ person' \in [People -> [invited : BOOLEAN, reminders : Nat, installed : BOOLEAN]]
      /\ lock' \in {"free", "held", "abandoned"}
  <2>1. CASE Cancel
    BY <2>1 DEF Cancel, QueueInv, InvitationTypeOK, JobRecords
  <2>2. CASE Poll
    <3>1. job.id \in JobIds
      <4>1. job \in JobCopies /\ Live(job)
        BY <2>2 DEF Poll, Live, JobCopies
      <4> QED BY <4>1, QueueBounds DEF QueueInv, RecordsAreSound, InvitationTypeOK, JobIds
    <3> QED BY <2>2, <3>1 DEF Poll, QueueInv, InvitationTypeOK
  <2>3. CASE LockAges
    BY <2>3 DEF LockAges, QueueInv, InvitationTypeOK
  <2>4. CASE \E u \in Confirming : Installs(u)
    <3>1. PICK u \in People : person' = [person EXCEPT ![u].installed = TRUE]
      BY <2>4, InvitationAssumption DEF Installs
    <3>2. [person[u] EXCEPT !.installed = TRUE] \in [invited : BOOLEAN, reminders : Nat, installed : BOOLEAN]
      BY DEF QueueInv, InvitationTypeOK
    <3>3. person' = [person EXCEPT ![u] = [person[u] EXCEPT !.installed = TRUE]]
      BY <3>1
    <3>4. person' \in [People -> [invited : BOOLEAN, reminders : Nat, installed : BOOLEAN]]
      BY <3>2, <3>3 DEF QueueInv, InvitationTypeOK
    <3> QED BY <2>4, <3>4 DEF Installs, QueueInv, InvitationTypeOK
  <2> QED BY <2>1, <2>2, <2>3, <2>4
<1>3. InvitationTypeOK'
  BY <1>1, <1>2 DEF QueueInv, InvitationTypeOK
<1>4. RecordsAreSound'
  <2>1. \A a \in JobCopies' : a \in JobCopies \/ ~Live(a)
    BY <1>1, <1>2 DEF JobCopies, Live
  <2> QED BY <1>1, <2>1, RecordsStay DEF QueueInv
<1>5. ASSUME deaths = 0 PROVE LockExcludes' /\ PendingIsUnhandled'
  <2>1. lock' = lock
    BY <1>5 DEF Cancel, Poll, LockAges, Installs, QueueInv, LockExcludes, Batching
  <2>2. LockExcludes'
    BY <1>1, <1>5, <2>1 DEF QueueInv, LockExcludes, Batching
  <2>3. PendingIsUnhandled'
    BY <1>1, <1>2, <1>5 DEF QueueInv, PendingIsUnhandled
  <2> QED BY <2>2, <2>3
<1>6. job'.status = "done" => job'.pending = {}
  BY <1>2 DEF QueueInv
<1> QED BY <1>1, <1>3, <1>4, <1>5, <1>6 DEF QueueInv, CopiesAreLoaded

-----------------------------------------------------------------------------
(* run_batch() *)

\* Before the batch begins, and when the process dies: no record is loaded or stored.
LEMMA OutsideStep ==
    ASSUME QueueInv, NEW r \in Runners,
           Fires(r) \/ TakeLock(r) \/ TakeOver(r) \/ Dies(r)
    PROVE  QueueInv'
<1>1. UNCHANGED <<started, job, person, handled, again>>
  BY DEF Fires, TakeLock, TakeOver, Dies
<1>2. PICK p \in Processes :
        /\ runner' = [runner EXCEPT ![r] = p]
        /\ p.copy.status = "none"
        /\ p.at \in {"idle", "lock", "takeover", "load"}
        /\ ~Dies(r) =>
              \/ p.at = "takeover" /\ lock = "abandoned" /\ lock' = lock
              \/ p.at \in {"idle", "lock"} /\ lock' = lock
              \/ p.at = "load" /\ lock # "held" /\ lock' = "held"
              \/ runner[r].at = "takeover"
        /\ ~Dies(r) => ~Batching(r)
        /\ events' \subseteq events
        /\ lock' \in {"free", "held", "abandoned"}
        /\ deaths' \in 0..MaxDeaths
        /\ IF Dies(r) THEN deaths' # 0 ELSE deaths' = deaths
  <2>1. /\ runner[r] \in Processes /\ events \subseteq 0..MaxJobs /\ AtRest \in Processes
        /\ lock \in {"free", "held", "abandoned"} /\ deaths \in 0..MaxDeaths
        /\ AtRest.at = "idle" /\ AtRest.copy.status = "none" /\ MaxDeaths \in Nat
    BY QueueBounds, AtRestIsAProcess DEF QueueInv, InvitationTypeOK, JobIds
  <2>2. runner[r].at \notin {"mail", "save"} => runner[r].copy.status = "none"
    BY DEF QueueInv, InvitationTypeOK, CopiesAreLoaded, Live
  <2>3. \A at \in {"lock", "load", "takeover"}, id \in 0..MaxJobs :
          LET p == [runner[r] EXCEPT !.at = at, !.id = id]
          IN  p \in Processes /\ p.at = at /\ p.copy = runner[r].copy
    BY <2>1 DEF Processes
  <2>4. runner[r].id \in 0..MaxJobs
    BY <2>1 DEF Processes
  <2>5. \A at \in {"load", "takeover"} :
          [runner EXCEPT ![r].at = at] = [runner EXCEPT ![r] = [runner[r] EXCEPT !.at = at, !.id = runner[r].id]]
    BY <2>1 DEF Processes, QueueInv, InvitationTypeOK
  <2>6. CASE Fires(r) /\ ~Dies(r)
    <3>1. PICK j \in events : runner' = [runner EXCEPT ![r].at = "lock", ![r].id = j]
      BY <2>6 DEF Fires
    <3>2. runner' = [runner EXCEPT ![r] = [runner[r] EXCEPT !.at = "lock", !.id = j]]
      BY <3>1
    <3>3. /\ runner[r] = AtRest /\ ~Batching(r) /\ lock' = lock /\ deaths' = deaths
          /\ events' \subseteq events
      BY <2>1, <2>6 DEF Fires, Batching
    <3> [runner[r] EXCEPT !.at = "lock", !.id = j] \in Processes
      BY <2>3, <2>4, <2>1
    <3> WITNESS [runner[r] EXCEPT !.at = "lock", !.id = j] \in Processes
    <3> QED BY <2>1, <2>2, <2>3, <2>6, <3>2, <3>3
  <2>7. CASE (TakeLock(r) /\ lock = "held") \/ Dies(r)
    <3>1. /\ runner' = [runner EXCEPT ![r] = AtRest] /\ lock' = lock /\ events' = events
          /\ ~Dies(r) => deaths' = deaths /\ ~Batching(r)
          /\ Dies(r) => deaths' # 0 /\ deaths' \in 0..MaxDeaths
      BY <2>1, <2>7 DEF TakeLock, Dies, Batching
    <3> AtRest \in Processes
      BY <2>1
    <3> WITNESS AtRest \in Processes
    <3> QED BY <2>1, <3>1
  <2>8. CASE TakeLock(r) /\ lock = "free" /\ ~Dies(r)
    <3>1. /\ runner' = [runner EXCEPT ![r].at = "load"] /\ lock' = "held" /\ events' = events
          /\ deaths' = deaths /\ runner[r].at = "lock"
      BY <2>8 DEF TakeLock
    <3> [runner[r] EXCEPT !.at = "load", !.id = runner[r].id] \in Processes
      BY <2>3, <2>4
    <3> WITNESS [runner[r] EXCEPT !.at = "load", !.id = runner[r].id] \in Processes
    <3> QED BY <2>1, <2>2, <2>3, <2>4, <2>5, <2>8, <3>1 DEF Batching
  <2>9. CASE TakeLock(r) /\ lock = "abandoned" /\ ~Dies(r)
    <3>1. /\ runner' = [runner EXCEPT ![r].at = "takeover"] /\ lock' = lock /\ events' = events
          /\ deaths' = deaths /\ runner[r].at = "lock"
      BY <2>9 DEF TakeLock
    <3> [runner[r] EXCEPT !.at = "takeover", !.id = runner[r].id] \in Processes
      BY <2>3, <2>4
    <3> WITNESS [runner[r] EXCEPT !.at = "takeover", !.id = runner[r].id] \in Processes
    <3> QED BY <2>1, <2>2, <2>3, <2>4, <2>5, <2>9, <3>1 DEF Batching
  <2>10. CASE TakeOver(r) /\ ~Dies(r)
    <3>1. /\ runner' = [runner EXCEPT ![r].at = "load"] /\ lock' = "held" /\ events' = events
          /\ deaths' = deaths /\ runner[r].at = "takeover"
      BY <2>10 DEF TakeOver
    <3> [runner[r] EXCEPT !.at = "load", !.id = runner[r].id] \in Processes
      BY <2>3, <2>4
    <3> WITNESS [runner[r] EXCEPT !.at = "load", !.id = runner[r].id] \in Processes
    <3> QED BY <2>1, <2>2, <2>3, <2>4, <2>5, <2>10, <3>1 DEF Batching
  <2> QED BY <2>1, <2>6, <2>7, <2>8, <2>9, <2>10
<1>3. /\ \A q \in Runners : runner'[q] = IF q = r THEN p ELSE runner[q]
      /\ runner' \in [Runners -> Processes]
      /\ \A q \in Runners : runner'[q].copy.status \in {"none", "running"}
      /\ CopiesAreLoaded'
  BY <1>2, ProcessMoves DEF QueueInv
<1>4. InvitationTypeOK'
  BY <1>1, <1>2, <1>3 DEF QueueInv, InvitationTypeOK
<1>5. RecordsAreSound'
  <2>1. \A a \in JobCopies' : a \in JobCopies \/ ~Live(a)
    BY <1>1, <1>2, <1>3 DEF JobCopies, Live
  <2> QED BY <1>1, <2>1, RecordsStay DEF QueueInv
<1>6. ASSUME deaths' = 0 PROVE LockExcludes' /\ PendingIsUnhandled'
  <2>1. LockExcludes /\ PendingIsUnhandled /\ ~Dies(r)
    BY <1>2, <1>6 DEF QueueInv
  <2>2. LockExcludes'
    BY <1>2, <1>3, <2>1 DEF LockExcludes, Batching
  <2>3. PendingIsUnhandled'
    BY <1>1, <1>2, <1>3, <2>1 DEF PendingIsUnhandled, Live, Batching
  <2> QED BY <2>2, <2>3
<1> QED BY <1>1, <1>3, <1>4, <1>5, <1>6 DEF QueueInv

\* The record is loaded at the head of the loop, or the loop is over.
LEMMA LoadStep == \A r \in Runners : QueueInv /\ LoadJob(r) => QueueInv'
<1> SUFFICES ASSUME NEW r \in Runners, QueueInv, LoadJob(r) PROVE QueueInv'
  OBVIOUS
<1>1. UNCHANGED <<started, job, events, lock, person, handled, again, deaths>> /\ runner[r].at = "load"
  BY DEF LoadJob
<1>2. runner[r] \in Processes /\ runner[r].copy.status = "none" /\ job \in JobRecords
  BY <1>1 DEF QueueInv, InvitationTypeOK, CopiesAreLoaded, Live
<1>3. PICK p \in Processes :
        /\ runner' = [runner EXCEPT ![r] = p]
        /\ \/ p.at = "end" /\ p.copy = runner[r].copy
           \/ /\ p.at = "mail" /\ p.copy = job /\ p.done = runner[r].done
              /\ runner[r].done # BatchSize /\ Mine(r) /\ job.pending # {}
  <2> DEFINE ended == [runner[r] EXCEPT !.at = "end"]
             loaded == [runner[r] EXCEPT !.at = "mail", !.copy = job]
  <2>1. ended \in Processes /\ ended.at = "end" /\ ended.copy = runner[r].copy
    BY <1>2 DEF Processes
  <2>2. /\ loaded \in Processes /\ loaded.at = "mail" /\ loaded.copy = job
        /\ loaded.done = runner[r].done
    BY <1>2 DEF Processes
  <2>3. \/ runner' = [runner EXCEPT ![r] = ended]
        \/ /\ runner' = [runner EXCEPT ![r] = loaded]
           /\ runner[r].done # BatchSize /\ Mine(r) /\ job.pending # {}
    BY DEF LoadJob
  <2> QED BY <2>1, <2>2, <2>3
<1>4. /\ p.copy.status \in {"none", "running"}
      /\ p.copy.status = "running" <=> p.at \in {"mail", "save"}
      /\ p.at \in {"mail", "save"} => p.done < BatchSize
      /\ p.at = "mail" => p.copy.pending # {}
  <2>1. runner[r].done \in 0..BatchSize
    BY <1>2 DEF Processes
  <2> QED BY <1>2, <1>3, <2>1, QueueBounds DEF Mine
<1>5. /\ \A q \in Runners : runner'[q] = IF q = r THEN p ELSE runner[q]
      /\ runner' \in [Runners -> Processes]
      /\ \A q \in Runners : runner'[q].copy.status \in {"none", "running"}
      /\ CopiesAreLoaded'
  BY <1>3, <1>4, ProcessMoves DEF QueueInv
<1>6. InvitationTypeOK'
  BY <1>1, <1>5 DEF QueueInv, InvitationTypeOK
<1>7. RecordsAreSound'
  <2>1. \A a \in JobCopies' : a \in JobCopies \/ ~Live(a)
    BY <1>1, <1>2, <1>3, <1>5 DEF JobCopies, Live
  <2> QED BY <1>1, <2>1, RecordsStay DEF QueueInv
<1>8. ASSUME deaths = 0 PROVE LockExcludes' /\ PendingIsUnhandled'
  <2>1. LockExcludes /\ PendingIsUnhandled
    BY <1>8 DEF QueueInv
  <2>2. LockExcludes'
    BY <1>1, <1>3, <1>5, <2>1 DEF LockExcludes, Batching
  <2>3. \A q \in Runners : runner[q].at # "save"
    BY <1>1, <2>1 DEF LockExcludes, Batching
  <2>4. job.status = "running" => job.pending \cap handled[job.id] = {}
    BY <2>1, <2>3 DEF PendingIsUnhandled
  <2>5. p.at = "mail" => p.copy.pending \cap handled[p.copy.id] = {}
    BY <1>3, <2>4 DEF Mine
  <2>6. p.at = "end" => ~Live(p.copy)
    BY <1>2, <1>3 DEF Live
  <2> QED BY <1>1, <1>3, <1>5, <2>1, <2>2, <2>4, <2>5, <2>6 DEF PendingIsUnhandled
<1> QED BY <1>1, <1>5, <1>6, <1>7, <1>8 DEF QueueInv

\* The first of the pending is come to: it was not yet, if no process has died.
LEMMA MailStep == \A r \in Runners : QueueInv /\ Process(r) => QueueInv'
<1> SUFFICES ASSUME NEW r \in Runners, QueueInv, Process(r) PROVE QueueInv'
  OBVIOUS
<1> DEFINE c == runner[r].copy
           u == Min(c.pending)
           saving == [runner[r] EXCEPT !.at = "save", !.copy = [c EXCEPT !.pending = @ \ {u}]]
<1>1. /\ UNCHANGED <<started, job, events, lock, deaths>> /\ runner[r].at = "mail"
      /\ handled' = [handled EXCEPT ![c.id] = @ \cup {u}]
      /\ again' = (again \/ (deaths = 0 /\ u \in handled[c.id]))
      /\ runner' = [runner EXCEPT ![r].at = "save", ![r].copy.pending = @ \ {u}]
      /\ person' \in {person, [person EXCEPT ![u] = Contacted(@, c.kind)]}
  BY DEF Process
<1>2. /\ runner[r] \in Processes /\ c \in JobRecords /\ c \in JobCopies
      /\ Live(c) /\ c.status = "running" /\ c.pending # {} /\ runner[r].done < BatchSize
  BY <1>1 DEF QueueInv, InvitationTypeOK, CopiesAreLoaded, Live, Processes, JobCopies
<1>3. u \in c.pending /\ c.pending \subseteq c.to /\ c.to \subseteq People
  <2>1. c.pending \subseteq Nat
    BY <1>2, QueueBounds DEF JobRecords
  <2> QED BY <1>2, <2>1, SmallestOne DEF QueueInv, RecordsAreSound, JobRecords
<1>4. c.id \in JobIds /\ c.id \in 1..started
  BY <1>2, QueueBounds DEF QueueInv, RecordsAreSound, InvitationTypeOK, JobIds
<1> DEFINE left == [c EXCEPT !.pending = @ \ {u}]
<1>5. /\ left \in JobRecords /\ left.id = c.id /\ left.to = c.to /\ left.status = "running"
      /\ left.pending = c.pending \ {u} /\ left.kind = c.kind
  BY <1>2 DEF JobRecords
<1>6. /\ saving \in Processes /\ saving.at = "save" /\ saving.copy = left
      /\ saving.done = runner[r].done
  BY <1>2, <1>5 DEF Processes
<1>7. runner' = [runner EXCEPT ![r] = saving]
  <2> SUFFICES ASSUME NEW v
               PROVE  [runner EXCEPT ![r].at = "save", ![r].copy.pending = @ \ {v}] =
                      [runner EXCEPT ![r] = [runner[r] EXCEPT
                          !.at = "save", !.copy = [runner[r].copy EXCEPT !.pending = @ \ {v}]]]
    BY <1>1
  <2> QED BY DEF QueueInv, InvitationTypeOK, Processes
<1>8. /\ \A q \in Runners : runner'[q] = IF q = r THEN saving ELSE runner[q]
      /\ runner' \in [Runners -> Processes]
      /\ \A q \in Runners : runner'[q].copy.status \in {"none", "running"}
      /\ CopiesAreLoaded'
  <2> HIDE DEF saving, left, c, u
  <2> QED BY <1>2, <1>5, <1>6, <1>7, ProcessMoves DEF QueueInv
<1>9. /\ handled' \in [JobIds -> SUBSET People]
      /\ \A j \in JobIds : handled'[j] = IF j = c.id THEN handled[j] \cup {u} ELSE handled[j]
  <2>1. u \in People
    BY <1>3
  <2> HIDE DEF c, u
  <2>2. handled \in [JobIds -> SUBSET People]
    BY DEF QueueInv, InvitationTypeOK
  <2>3. handled[c.id] \cup {u} \in SUBSET People
    BY <1>4, <2>1, <2>2
  <2> QED BY <1>1, <1>4, <2>2, <2>3
<1>10. person' \in [People -> [invited : BOOLEAN, reminders : Nat, installed : BOOLEAN]]
  <2>1. u \in People
    BY <1>3
  <2>2. Contacted(person[u], c.kind) \in [invited : BOOLEAN, reminders : Nat, installed : BOOLEAN]
    <3>1. person[u] \in [invited : BOOLEAN, reminders : Nat, installed : BOOLEAN]
      BY <2>1 DEF QueueInv, InvitationTypeOK
    <3>2. ASSUME NEW x \in [invited : BOOLEAN, reminders : Nat, installed : BOOLEAN], NEW kind
          PROVE  Contacted(x, kind) \in [invited : BOOLEAN, reminders : Nat, installed : BOOLEAN]
      <4>1. [x EXCEPT !.reminders = @ + 1] \in [invited : BOOLEAN, reminders : Nat, installed : BOOLEAN]
        OBVIOUS
      <4>2. [x EXCEPT !.invited = TRUE, !.reminders = 0] \in [invited : BOOLEAN, reminders : Nat, installed : BOOLEAN]
        OBVIOUS
      <4> QED BY <4>1, <4>2 DEF Contacted
    <3> QED BY <3>1, <3>2
  <2> HIDE DEF u, c
  <2> QED BY <1>1, <2>1, <2>2 DEF QueueInv, InvitationTypeOK
<1> HIDE DEF saving, left, c, u
<1>11. again' = FALSE
  <2>1. ASSUME deaths = 0 PROVE u \notin handled[c.id]
    BY <1>2, <1>3, <2>1 DEF c, QueueInv, PendingIsUnhandled
  <2> QED BY <1>1, <2>1 DEF QueueInv
<1>12. InvitationTypeOK'
  BY <1>1, <1>8, <1>9, <1>10, <1>11 DEF QueueInv, InvitationTypeOK
<1>13. \A a \in JobCopies' : a = left \/ a \in JobCopies
  <2>1. job' = job /\ \A q \in Runners : runner'[q].copy \in {left, runner[q].copy}
    BY <1>1, <1>6, <1>8
  <2> QED BY <2>1 DEF JobCopies
<1>14. RecordsAreSound'
  <2>1. ASSUME NEW a \in JobCopies', Live(a)
        PROVE  /\ a.id \in 1..started' /\ a.pending \subseteq a.to
               /\ a.to \ a.pending \subseteq handled'[a.id] /\ handled'[a.id] \subseteq a.to
    <3>1. CASE a = left
      <4>1. /\ c.to \ c.pending \subseteq handled[c.id] /\ handled[c.id] \subseteq c.to
        BY <1>2 DEF QueueInv, RecordsAreSound
      <4>2. handled'[c.id] = handled[c.id] \cup {u}
        BY <1>4, <1>9
      <4> QED BY <1>1, <1>3, <1>4, <1>5, <3>1, <4>1, <4>2
    <3>2. CASE a \in JobCopies
      <4>1. /\ a.id \in 1..started /\ a.pending \subseteq a.to
            /\ a.to \ a.pending \subseteq handled[a.id] /\ handled[a.id] \subseteq a.to
            /\ a.id = c.id => a.to = c.to
        BY <1>2, <2>1, <3>2 DEF QueueInv, RecordsAreSound
      <4>2. a.id \in JobIds
        BY <4>1, QueueBounds DEF JobIds, QueueInv, InvitationTypeOK
      <4>3. handled'[a.id] = IF a.id = c.id THEN handled[a.id] \cup {u} ELSE handled[a.id]
        BY <1>9, <4>2
      <4> QED BY <1>1, <1>3, <4>1, <4>3
    <3> QED BY <1>13, <3>1, <3>2
  <2>2. ASSUME NEW a \in JobCopies', NEW b \in JobCopies', Live(a), Live(b), a.id = b.id
        PROVE  a.to = b.to
    <3>1. \A x \in JobCopies' : Live(x) => \E y \in JobCopies : Live(y) /\ x.id = y.id /\ x.to = y.to
      BY <1>2, <1>5, <1>13
    <3> QED BY <2>2, <3>1 DEF QueueInv, RecordsAreSound
  <2>3. \A j \in JobIds : j > started' => handled'[j] = {}
    BY <1>1, <1>4, <1>9 DEF QueueInv, RecordsAreSound, JobIds, InvitationTypeOK
  <2> QED BY <2>1, <2>2, <2>3 DEF RecordsAreSound
<1>15. ASSUME deaths = 0 PROVE LockExcludes' /\ PendingIsUnhandled'
  <2>1. LockExcludes /\ PendingIsUnhandled
    BY <1>15 DEF QueueInv
  <2>2. LockExcludes'
    BY <1>1, <1>6, <1>8, <2>1 DEF LockExcludes, Batching
  <2>3. \A q \in Runners : Live(runner'[q].copy) => q = r
    BY <1>1, <1>8, <2>1 DEF LockExcludes, Batching, QueueInv, CopiesAreLoaded
  <2>4. left.pending \cap handled'[left.id] = {}
    <3>1. c.pending \cap handled[c.id] = {}
      BY <1>2, <2>1 DEF c, PendingIsUnhandled
    <3> QED BY <1>4, <1>5, <1>9, <3>1
  <2>5. ASSUME job.status = "running",
               \A q \in Runners : runner'[q].at = "save" => runner'[q].copy.id # job.id
        PROVE  job.pending \cap handled'[job.id] = {}
    <3>1. job.id # c.id
      BY <1>5, <1>6, <1>8, <2>5
    <3>2. \A q \in Runners : runner[q].at # "save"
      BY <1>1, <2>1 DEF LockExcludes, Batching
    <3>3. job.pending \cap handled[job.id] = {}
      BY <2>1, <2>5, <3>2 DEF PendingIsUnhandled
    <3>4. job.id \in JobIds
      <4>1. job \in JobCopies /\ Live(job)
        BY <2>5 DEF Live, JobCopies
      <4> QED BY <4>1, QueueBounds DEF QueueInv, RecordsAreSound, InvitationTypeOK, JobIds
    <3> QED BY <1>9, <3>1, <3>3, <3>4
  <2> QED BY <1>1, <1>6, <1>8, <2>2, <2>3, <2>4, <2>5 DEF PendingIsUnhandled
<1> QED BY <1>1, <1>8, <1>11, <1>12, <1>14, <1>15 DEF QueueInv

\* The copy is saved over whatever the option is now.
LEMMA SaveJobStep == \A r \in Runners : QueueInv /\ SaveJob(r) => QueueInv'
<1> SUFFICES ASSUME NEW r \in Runners, QueueInv, SaveJob(r) PROVE QueueInv'
  OBVIOUS
<1> DEFINE c == runner[r].copy
           loading == [runner[r] EXCEPT !.at = "load", !.copy = NoJob, !.done = @ + 1]
<1>1. /\ UNCHANGED <<started, events, lock, person, handled, again, deaths>>
      /\ job' = c /\ runner[r].at = "save" /\ runner' = [runner EXCEPT ![r] = loading]
  BY DEF SaveJob
<1>2. /\ runner[r] \in Processes /\ c \in JobRecords /\ c \in JobCopies /\ Live(c)
      /\ c.status = "running" /\ runner[r].done \in Nat /\ runner[r].done < BatchSize
  BY <1>1, QueueBounds DEF QueueInv, InvitationTypeOK, CopiesAreLoaded, Live, Processes, JobCopies
<1>3. /\ loading \in Processes /\ loading.at = "load" /\ loading.copy = NoJob
      /\ NoJob.status = "none" /\ ~Live(NoJob)
  <2>1. runner[r].done + 1 \in 0..BatchSize
    BY <1>2, QueueBounds
  <2> QED BY <1>2, <2>1, AtRestIsAProcess DEF Processes
<1> HIDE DEF loading, c
<1>4. /\ \A q \in Runners : runner'[q] = IF q = r THEN loading ELSE runner[q]
      /\ runner' \in [Runners -> Processes]
      /\ \A q \in Runners : runner'[q].copy.status \in {"none", "running"}
      /\ CopiesAreLoaded'
  BY <1>1, <1>3, ProcessMoves DEF QueueInv
<1>5. InvitationTypeOK'
  BY <1>1, <1>2, <1>4 DEF QueueInv, InvitationTypeOK
<1>6. RecordsAreSound'
  <2>1. \A a \in JobCopies' : a \in JobCopies \/ ~Live(a)
    BY <1>1, <1>2, <1>3, <1>4 DEF JobCopies
  <2> QED BY <1>1, <2>1, RecordsStay DEF QueueInv
<1>7. ASSUME deaths = 0 PROVE LockExcludes' /\ PendingIsUnhandled'
  <2>1. LockExcludes /\ PendingIsUnhandled
    BY <1>7 DEF QueueInv
  <2>2. LockExcludes'
    BY <1>1, <1>3, <1>4, <2>1 DEF LockExcludes, Batching
  <2>3. c.pending \cap handled[c.id] = {}
    BY <1>2, <2>1 DEF c, PendingIsUnhandled
  <2> QED BY <1>1, <1>3, <1>4, <2>1, <2>2, <2>3 DEF PendingIsUnhandled
<1>8. job'.status # "done"
  BY <1>1, <1>2
<1> QED BY <1>1, <1>4, <1>5, <1>6, <1>7, <1>8 DEF QueueInv

\* The job is done when nobody is pending.
LEMMA EndsStep == \A r \in Runners : QueueInv /\ EndsBatch(r) => QueueInv'
<1> SUFFICES ASSUME NEW r \in Runners, QueueInv, EndsBatch(r) PROVE QueueInv'
  OBVIOUS
<1>1. /\ UNCHANGED <<started, person, handled, again, deaths>> /\ runner[r].at = "end"
      /\ lock' = "free" /\ runner' = [runner EXCEPT ![r] = AtRest]
  BY DEF EndsBatch
<1>2. /\ \/ job' = job
         \/ job.status = "running" /\ job.pending = {} /\ job' = [job EXCEPT !.status = "done"]
      /\ events' \subseteq events \cup (IF job.status = "running" THEN {job.id} ELSE {})
  BY DEF EndsBatch, Mine
<1>3. /\ \A q \in Runners : runner'[q] = IF q = r THEN AtRest ELSE runner[q]
      /\ runner' \in [Runners -> Processes]
      /\ \A q \in Runners : runner'[q].copy.status \in {"none", "running"}
      /\ CopiesAreLoaded'
  BY <1>1, AtRestIsAProcess, ProcessMoves DEF QueueInv
<1>4. /\ job' \in JobRecords /\ job'.id = job.id /\ job'.to = job.to /\ job'.pending = job.pending
      /\ job' = job \/ (Live(job) /\ job'.status = "done")
  <2>1. job \in JobRecords
    BY DEF QueueInv, InvitationTypeOK
  <2>2. CASE job' = job
    BY <2>1, <2>2
  <2>3. CASE job.status = "running" /\ job' = [job EXCEPT !.status = "done"]
    BY <2>1, <2>3 DEF JobRecords, Live
  <2> QED BY <1>2, <2>2, <2>3
<1>5. job.status = "running" => job.id \in JobIds
  <2>1. job \in JobCopies
    BY DEF JobCopies
  <2> QED BY <2>1, QueueBounds DEF QueueInv, RecordsAreSound, InvitationTypeOK, JobIds, Live
<1>6. InvitationTypeOK'
  BY <1>1, <1>2, <1>3, <1>4, <1>5 DEF QueueInv, InvitationTypeOK
<1>7. \A a \in JobCopies' : Live(a) =>
        \E b \in JobCopies : Live(b) /\ a.id = b.id /\ a.to = b.to /\ a.pending = b.pending
  BY <1>3, <1>4, AtRestIsAProcess DEF JobCopies
<1>8. RecordsAreSound'
  BY <1>1, <1>7 DEF QueueInv, RecordsAreSound
<1>9. ASSUME deaths = 0 PROVE LockExcludes' /\ PendingIsUnhandled'
  <2>1. LockExcludes /\ PendingIsUnhandled
    BY <1>9 DEF QueueInv
  <2>2. LockExcludes'
    BY <1>1, <1>3, <2>1, AtRestIsAProcess DEF LockExcludes, Batching
  <2>3. PendingIsUnhandled'
    BY <1>1, <1>3, <1>4, <2>1, AtRestIsAProcess DEF PendingIsUnhandled
  <2> QED BY <2>2, <2>3
<1>10. job'.status = "done" => job'.pending = {}
  BY <1>2, <1>4 DEF QueueInv
<1> QED BY <1>1, <1>3, <1>6, <1>8, <1>9, <1>10 DEF QueueInv

LEMMA QueueStep == QueueInv /\ [InvitationNext]_invitationVars => QueueInv'
<1> SUFFICES ASSUME QueueInv, [InvitationNext]_invitationVars PROVE QueueInv'
  OBVIOUS
<1>1. CASE UNCHANGED invitationVars
  BY <1>1 DEF invitationVars, QueueInv, InvitationTypeOK, RecordsAreSound, CopiesAreLoaded,
              LockExcludes, PendingIsUnhandled, JobCopies, Batching
<1>2. ASSUME NEW to \in Selections, Invite(to) PROVE QueueInv'
  BY <1>2, StartStep, QueueBounds DEF Invite
<1>3. CASE Remind
  BY <1>3, StartStep DEF Remind
<1> QED BY <1>1, <1>2, <1>3, RequestStep, OutsideStep, LoadStep, MailStep, SaveJobStep, EndsStep
        DEF InvitationNext, RunBatch

\* The inductive invariant of the queue.
THEOREM QueueInvariant == InvitationSpec => []QueueInv
BY InitQueue, QueueStep, PTL DEF InvitationSpec

\* Whatever number of processes runs batches, however many requests start and cancel jobs
\* and wherever processes die: a job that says it is done has come to everyone it is for
\* and nobody else, and while no process has died to nobody twice.
THEOREM MailedOnce == InvitationSpec => []EachMailedOnce
<1>1. QueueInv => EachMailedOnce
  <2> SUFFICES ASSUME QueueInv, job.status = "done" PROVE handled[job.id] = job.to
    BY DEF EachMailedOnce, QueueInv
  <2>1. job \in JobCopies /\ Live(job) /\ job.pending = {}
    BY DEF JobCopies, Live, QueueInv
  <2> QED BY <2>1 DEF QueueInv, RecordsAreSound
<1> QED BY <1>1, QueueInvariant, PTL

-----------------------------------------------------------------------------
(* A bucket of the rate limits. *)

\* What a window may let through after so many more beginnings of its count.
Cap(l) == MaxHits * (1 + l)

\* The hits a row, or a transient, counts for the present window.
CountedBy(b) == IF b.window = clock THEN b.hits ELSE 0

\* The calls whose new row has yet to be read back: the table may let each through.
Waiting(w) == {c \in Callers : caller[c].at = "count" /\ caller[c].window = w}
OwedTo(w) == Cardinality(Waiting(w))
TableHits(w) == byTable[w] + OwedTo(w)

Falls(w) == Fell("cache", w) + Fell("table", w)
Through(w) == byCache[w] + TableHits(w) + (IF crossed THEN 0 ELSE byTransient[w])
AllThrough == \A w \in Windows : Through(w) <= Cap(late + Falls(w))

\* Nothing is of a window to come.
NothingAhead ==
    /\ bucket.window <= clock /\ transientState.window <= clock
    /\ \A c \in Callers : caller[c].window <= clock
    /\ \A w \in Windows : w > clock => byCache[w] = 0 /\ byTable[w] = 0 /\ byTransient[w] = 0

CacheKeeps ==
    \A w \in Windows : w >= clock => byCache[w] <= counters[w] /\ byCache[w] <= MaxHits

\* After l late hits in the row: a hit let through is a hit counted.
TableKeeps(l) ==
    /\ TableHits(clock) <= Cap(l)
    /\ TableHits(clock) + MaxHits <= Cap(l) + CountedBy(bucket)

\* The same of the transient, while nobody else writes it.
TransientKeeps(l) ==
    crossed \/ (/\ \A c, d \in Callers :
                      caller[c].at = "write" /\ caller[d].at = "write" => c = d
                /\ \A c \in Callers : caller[c].at = "write" /\ caller[c].window = clock =>
                      caller[c].read = Increment(transientState, clock)
                /\ byTransient[clock] <= Cap(l)
                /\ byTransient[clock] + MaxHits <= Cap(l) + CountedBy(transientState))

\* Each late hit is one of the row's, one of the transient's, or one of the cache's.
LateAreShared ==
    \E lt, lx \in Nat : lt + lx <= late /\ TableKeeps(lt) /\ TransientKeeps(lx)

\* A hit comes to the table, and to the transient, because it fell there.
Routes ==
    \A w \in Windows :
       /\ ~extCache => byCache[w] = 0 /\ \A c \in Callers : caller[c].at # "cache"
       /\ extCache /\ <<"cache", w>> \notin fallen =>
             /\ byTable[w] = 0
             /\ \A c \in Callers : caller[c].window = w => caller[c].at \in {"idle", "cache"}
       /\ <<"table", w>> \notin fallen =>
             /\ byTransient[w] = 0
             /\ \A c \in Callers : caller[c].window = w =>
                                      caller[c].at \notin {"transient", "write"}

CountsAreKept == RateLimitTypeOK /\ NothingAhead /\ CacheKeeps /\ LateAreShared /\ Routes

LimitInv == CountsAreKept /\ AllThrough

LEMMA LimitBounds ==
    /\ MaxHits \in Nat /\ MaxHits >= 1 /\ MaxWindow \in Nat /\ MaxCalls \in Nat
    /\ IsFiniteSet(Callers) /\ 0 \in Windows /\ Windows \subseteq Nat
BY RateLimitAssumption DEF Windows

\* One more beginning raises what a window may let through by its limit.
LEMMA CapGrows ==
    ASSUME NEW l \in Nat
    PROVE  /\ Cap(l) \in Nat /\ MaxHits <= Cap(l)
           /\ Cap(l + 1) = Cap(l) + MaxHits
<1>1. MaxHits \in Nat
  BY RateLimitAssumption
<1>2. MaxHits * (1 + l) = MaxHits + MaxHits * l /\ MaxHits * l \in Nat
  BY <1>1
<1>3. MaxHits * (1 + (l + 1)) = MaxHits * (1 + l) + MaxHits
  BY <1>1
<1> QED BY <1>1, <1>2, <1>3 DEF Cap

LEMMA CapAdds ==
    ASSUME NEW a \in Nat, NEW b \in Nat
    PROVE  /\ Cap(a) + Cap(b) = Cap(a + b + 1)
           /\ a <= b => Cap(a) <= Cap(b)
<1>1. MaxHits \in Nat
  BY LimitBounds
<1>2. MaxHits * (1 + a) + MaxHits * (1 + b) = MaxHits * (1 + (a + b + 1))
  BY <1>1
<1>3. ASSUME a <= b PROVE MaxHits * (1 + a) <= MaxHits * (1 + b)
  <2>1. PICK d \in Nat : b = a + d
    <3>1. b - a \in Nat /\ b = a + (b - a)
      BY <1>3
    <3> QED BY <3>1
  <2>2. MaxHits * (1 + (a + d)) = MaxHits * (1 + a) + MaxHits * d /\ MaxHits * d \in Nat
    BY <1>1
  <2>3. MaxHits * (1 + a) \in Nat
    BY <1>1
  <2> QED BY <2>1, <2>2, <2>3
<1> QED BY <1>2, <1>3 DEF Cap

\* How many calls wait for a read-back is a number, and changes with one that begins
\* or ends to.
LEMMA OwedMoves ==
    ASSUME NEW c \in Callers, NEW k, NEW w, caller' = [caller EXCEPT ![c] = k],
           RateLimitTypeOK
    PROVE  /\ OwedTo(w) \in Nat /\ OwedTo(w)' \in Nat
           /\ (c \in Waiting(w) <=> (k.at = "count" /\ k.window = w)) => OwedTo(w)' = OwedTo(w)
           /\ c \notin Waiting(w) /\ k.at = "count" /\ k.window = w =>
                 OwedTo(w)' = OwedTo(w) + 1
           /\ c \in Waiting(w) /\ ~(k.at = "count" /\ k.window = w) =>
                 OwedTo(w)' = OwedTo(w) - 1
<1>1. DOMAIN caller = Callers
  BY DEF RateLimitTypeOK
<1>2. Waiting(w)' = IF k.at = "count" /\ k.window = w THEN Waiting(w) \cup {c}
                    ELSE Waiting(w) \ {c}
  <2>1. caller'[c] = k /\ \A d \in Callers : d # c => caller'[d] = caller[d]
    BY <1>1
  <2> QED BY <2>1 DEF Waiting
<1>3. IsFiniteSet(Waiting(w))
  <2>1. Waiting(w) \subseteq Callers
    BY DEF Waiting
  <2> QED BY <2>1, LimitBounds, FS_Subset
<1>4. OwedTo(w) \in Nat
  BY <1>3, FS_CardinalityType DEF OwedTo
<1>5. CASE k.at = "count" /\ k.window = w
  <2>1. Cardinality(Waiting(w) \cup {c}) = IF c \in Waiting(w) THEN Cardinality(Waiting(w))
                                           ELSE Cardinality(Waiting(w)) + 1
    BY <1>3, FS_AddElement
  <2>2. OwedTo(w)' = IF c \in Waiting(w) THEN OwedTo(w) ELSE OwedTo(w) + 1
    BY <1>2, <1>5, <2>1 DEF OwedTo
  <2> QED BY <1>4, <1>5, <2>2
<1>6. CASE ~(k.at = "count" /\ k.window = w)
  <2>1. /\ Cardinality(Waiting(w) \ {c}) = IF c \in Waiting(w) THEN Cardinality(Waiting(w)) - 1
                                           ELSE Cardinality(Waiting(w))
        /\ IsFiniteSet(Waiting(w) \ {c})
    BY <1>3, FS_RemoveElement
  <2>2. OwedTo(w)' = IF c \in Waiting(w) THEN OwedTo(w) - 1 ELSE OwedTo(w)
    BY <1>2, <1>6, <2>1 DEF OwedTo
  <2>3. Cardinality(Waiting(w) \ {c}) \in Nat
    BY <2>1, FS_CardinalityType
  <2>4. OwedTo(w)' \in Nat
    BY <1>2, <1>6, <2>3 DEF OwedTo
  <2> QED BY <1>4, <1>6, <2>2, <2>4
<1> QED BY <1>5, <1>6

\* The types of what the steps add up.
LimitNumbers ==
    /\ clock \in Nat /\ clock \in Windows /\ late \in Nat /\ Cap(late) \in Nat
    /\ bucket.window \in Nat /\ bucket.hits \in Nat
    /\ transientState.window \in Nat /\ transientState.hits \in Nat
    /\ CountedBy(bucket) \in Nat /\ CountedBy(transientState) \in Nat
    /\ \A w \in Windows :
          /\ w \in Nat /\ byCache[w] \in Nat /\ byTable[w] \in Nat /\ OwedTo(w) \in Nat
          /\ byTransient[w] \in Nat /\ counters[w] \in Nat /\ TableHits(w) \in Nat
          /\ Through(w) \in Nat /\ Falls(w) \in Nat
    /\ \A c \in Callers :
          /\ caller[c].window \in Windows /\ caller[c].window \in Nat
          /\ caller[c].read \in Nat

LEMMA LimitTypes == RateLimitTypeOK => LimitNumbers
<1> SUFFICES ASSUME RateLimitTypeOK PROVE LimitNumbers
  OBVIOUS
<1>1. /\ clock \in Windows /\ clock \in Nat /\ late \in Nat
      /\ bucket.window \in Nat /\ bucket.hits \in Nat
      /\ transientState.window \in Nat /\ transientState.hits \in Nat
      /\ crossed \in BOOLEAN
      /\ \A w \in Windows : /\ byCache[w] \in Nat /\ byTable[w] \in Nat
                            /\ byTransient[w] \in Nat /\ counters[w] \in Nat
      /\ \A c \in Callers : /\ caller[c].window \in Windows /\ caller[c].window \in Nat
                            /\ caller[c].read \in Nat
  BY LimitBounds DEF RateLimitTypeOK
<1>2. ASSUME NEW w \in Windows PROVE OwedTo(w) \in Nat
  <2>1. Waiting(w) \subseteq Callers
    BY DEF Waiting
  <2>2. IsFiniteSet(Waiting(w))
    BY <2>1, LimitBounds, FS_Subset
  <2> QED BY <2>2, FS_CardinalityType DEF OwedTo
<1>3. ASSUME NEW w \in Windows PROVE TableHits(w) \in Nat /\ Through(w) \in Nat /\ Falls(w) \in Nat
  BY <1>1, <1>2 DEF TableHits, Through, Falls, Fell
<1>4. Cap(late) \in Nat
  BY <1>1, CapGrows
<1>5. CountedBy(bucket) \in Nat /\ CountedBy(transientState) \in Nat
  BY <1>1 DEF CountedBy
<1> QED BY <1>1, <1>2, <1>3, <1>4, <1>5, LimitBounds DEF LimitNumbers

\* In the present window each place that counts has let through no more than its limit,
\* and the late hits are shared by them.
PresentFits == Through(clock) <= Cap(late + Falls(clock))

LEMMA PresentWindow == CountsAreKept => PresentFits
<1> SUFFICES ASSUME CountsAreKept PROVE Through(clock) <= Cap(late + Falls(clock))
  BY DEF PresentFits
<1>1. /\ RateLimitTypeOK /\ CacheKeeps /\ Routes /\ NothingAhead
      /\ clock \in Windows /\ clock \in Nat /\ late \in Nat
      /\ byCache[clock] \in Nat /\ byTransient[clock] \in Nat /\ TableHits(clock) \in Nat
  BY LimitTypes DEF CountsAreKept, LimitNumbers
<1>2. PICK lt \in Nat, lx \in Nat : lt + lx <= late /\ TableKeeps(lt) /\ TransientKeeps(lx)
  BY DEF CountsAreKept, LateAreShared
<1> DEFINE x == IF crossed THEN 0 ELSE byTransient[clock]
           fc == Fell("cache", clock)
           ft == Fell("table", clock)
<1>3. fc \in {0, 1} /\ ft \in {0, 1} /\ Falls(clock) = fc + ft /\ x \in Nat
      /\ Through(clock) = byCache[clock] + TableHits(clock) + x
  BY <1>1 DEF Fell, Falls, Through, RateLimitTypeOK
<1>4. byCache[clock] <= MaxHits /\ TableHits(clock) <= Cap(lt) /\ x <= Cap(lx)
  <2>1. Cap(lx) \in Nat
    BY CapGrows
  <2> QED BY <1>1, <1>2, <2>1 DEF CacheKeeps, TableKeeps, TransientKeeps
<1>5. ft = 0 => x = 0
  <2> SUFFICES ASSUME ft = 0 PROVE x = 0
    OBVIOUS
  <2>1. <<"table", clock>> \notin fallen
    BY DEF Fell
  <2>2. byTransient[clock] = 0
    BY <1>1, <2>1 DEF Routes
  <2> QED BY <2>2
<1>6. ~extCache => byCache[clock] = 0
  BY <1>1 DEF Routes
<1>7. extCache /\ fc = 0 => TableHits(clock) = 0
  <2> SUFFICES ASSUME extCache, fc = 0 PROVE TableHits(clock) = 0
    OBVIOUS
  <2>1. /\ byTable[clock] = 0
        /\ \A c \in Callers : caller[c].window = clock => caller[c].at \in {"idle", "cache"}
    <3>1. <<"cache", clock>> \notin fallen
      BY DEF Fell
    <3> HIDE DEF x, fc, ft
    <3> QED BY <1>1, <3>1 DEF Routes
  <2>2. Waiting(clock) = {}
    BY <2>1 DEF Waiting
  <2> QED BY <2>1, <2>2, FS_EmptySet DEF TableHits, OwedTo
<1>8. /\ Cap(lt) + Cap(lx) = Cap(lt + lx + 1) /\ Cap(0) = MaxHits
      /\ Cap(0) + Cap(lt) = Cap(0 + lt + 1) /\ Cap(0) + Cap(lx) = Cap(0 + lx + 1)
      /\ Cap(0) + Cap(lt + lx + 1) = Cap(0 + (lt + lx + 1) + 1)
      /\ Cap(lt) \in Nat /\ Cap(lx) \in Nat
  <2>1. Cap(0) = MaxHits
    BY LimitBounds DEF Cap
  <2>2. lt + lx + 1 \in Nat /\ 0 \in Nat
    OBVIOUS
  <2> QED BY <2>1, <2>2, CapAdds, CapGrows
<1>9. \A n \in Nat : n <= late + Falls(clock) => Cap(n) <= Cap(late + Falls(clock))
  <2>1. late + Falls(clock) \in Nat
    BY <1>1, <1>3
  <2> QED BY <2>1, CapAdds
<1>10. Cap(late + Falls(clock)) \in Nat
  <2>1. late + Falls(clock) \in Nat
    BY <1>1, <1>3
  <2> QED BY <2>1, CapGrows
<1> HIDE DEF x, fc, ft
<1>11. CASE ~extCache \/ fc = 0
  <2>1. byCache[clock] = 0 \/ TableHits(clock) = 0
    BY <1>6, <1>7, <1>11
  <2>2. CASE ft = 0
    <3>1. Cap(lt) <= Cap(late + Falls(clock)) /\ Cap(0) <= Cap(late + Falls(clock))
      BY <1>1, <1>2, <1>3, <1>9
    <3> QED BY <1>1, <1>3, <1>4, <1>5, <1>8, <1>10, <2>1, <2>2, <3>1, LimitBounds
  <2>3. CASE ft = 1
    <3>1. /\ Cap(lt + lx + 1) <= Cap(late + Falls(clock))
          /\ Cap(0 + lx + 1) <= Cap(late + Falls(clock))
      <4>1. lt + lx + 1 \in Nat /\ lt + lx + 1 <= late + Falls(clock)
            /\ 0 + lx + 1 \in Nat /\ 0 + lx + 1 <= late + Falls(clock)
        BY <1>1, <1>2, <1>3, <2>3
      <4> QED BY <4>1, <1>9
    <3> QED BY <1>1, <1>3, <1>4, <1>8, <1>10, <2>1, <3>1, LimitBounds
  <2> QED BY <1>3, <2>2, <2>3
<1>12. CASE fc = 1
  <2>1. CASE ft = 0
    <3>1. Cap(0 + lt + 1) <= Cap(late + Falls(clock))
      <4>1. 0 + lt + 1 \in Nat /\ 0 + lt + 1 <= late + Falls(clock)
        BY <1>1, <1>2, <1>3, <1>12
      <4> QED BY <4>1, <1>9
    <3> QED BY <1>1, <1>3, <1>4, <1>5, <1>8, <1>10, <2>1, <3>1, LimitBounds
  <2>2. CASE ft = 1
    <3>1. Cap(0 + (lt + lx + 1) + 1) <= Cap(late + Falls(clock))
      <4>1. 0 + (lt + lx + 1) + 1 \in Nat /\ 0 + (lt + lx + 1) + 1 <= late + Falls(clock)
        BY <1>1, <1>2, <1>3, <1>12, <2>2
      <4> QED BY <4>1, <1>9
    <3> QED BY <1>1, <1>3, <1>4, <1>8, <1>10, <3>1, LimitBounds
  <2> QED BY <1>3, <2>1, <2>2
<1> QED BY <1>3, <1>11, <1>12

\* A window that is over gets at most one hit more with each late hit.
LEMMA AllThroughNext ==
    ASSUME LimitInv, CountsAreKept', clock' = clock, fallen \subseteq fallen',
           late' = late \/ late' = late + 1,
           \A w \in Windows : w # clock => Through(w)' <= Through(w) + (late' - late)
    PROVE  LimitInv'
<1>1. /\ RateLimitTypeOK /\ RateLimitTypeOK' /\ AllThrough /\ late \in Nat /\ late' \in Nat
      /\ MaxHits \in Nat /\ MaxHits >= 1
  BY LimitTypes, LimitBounds DEF LimitInv, CountsAreKept, RateLimitTypeOK
<1>2. Through(clock)' <= Cap(late + Falls(clock))'
  <2>1. PresentFits'
    BY PresentWindow, PTL
  <2> QED BY <2>1 DEF PresentFits
<1>3. ASSUME NEW w \in Windows, w # clock PROVE Through(w)' <= Cap(late + Falls(w))'
  <2>1. Falls(w) \in Nat /\ Falls(w)' \in Nat /\ Falls(w) <= Falls(w)'
    BY DEF Falls, Fell
  <2>2. Through(w) \in Nat /\ Through(w) <= Cap(late + Falls(w))
    BY <1>1, <1>3, LimitTypes DEF AllThrough, LimitNumbers
  <2>3. LimitNumbers'
    BY <1>1, LimitTypes, PTL
  <2>4. Through(w)' \in Nat /\ Through(w)' <= Through(w) + (late' - late)
    BY <1>3, <2>3 DEF LimitNumbers
  <2>5. PICK n : n = late + Falls(w)
    OBVIOUS
  <2>6. PICK m : m = late' + Falls(w)'
    OBVIOUS
  <2>7. n \in Nat /\ m \in Nat /\ n + (late' - late) <= m
    BY <1>1, <2>1, <2>5, <2>6
  <2>8. Through(w)' <= Cap(m)
    <3>1. CASE late' = late
      <4>1. Cap(n) <= Cap(m) /\ Cap(n) \in Nat /\ Cap(m) \in Nat
        BY <1>1, <2>7, <3>1, CapAdds, CapGrows
      <4> QED BY <1>1, <2>2, <2>4, <2>5, <3>1, <4>1
    <3>2. CASE late' = late + 1
      <4>1. Cap(n + 1) <= Cap(m) /\ Cap(n + 1) = Cap(n) + MaxHits
            /\ Cap(n) \in Nat /\ Cap(m) \in Nat
        <5>1. n + 1 \in Nat /\ n + 1 <= m
          BY <1>1, <2>7, <3>2
        <5> QED BY <5>1, <2>7, CapAdds, CapGrows
      <4> QED BY <1>1, <2>2, <2>4, <2>5, <3>2, <4>1
    <3> QED BY <1>1, <3>1, <3>2
  <2> QED BY <2>6, <2>8 DEF Cap
<1>4. \A w \in Windows : Through(w)' <= Cap(late + Falls(w))'
  <2> SUFFICES ASSUME NEW w \in Windows PROVE Through(w)' <= Cap(late + Falls(w))'
    OBVIOUS
  <2>1. CASE w = clock
    BY <1>2, <2>1
  <2>2. CASE w # clock
    BY <1>3, <2>2
  <2> QED BY <2>1, <2>2
<1> QED BY <1>4 DEF LimitInv, AllThrough

\* enforce() adds at most one call, to the calls of its own window.
AdmittedOne(before, after, w, hits) ==
    /\ after \in [Windows -> Nat]
    /\ after[w] = IF hits <= MaxHits THEN before[w] + 1 ELSE before[w]
    /\ \A v \in Windows : v # w => after[v] = before[v]

LEMMA AdmitsOne ==
    ASSUME NEW by, by \in [Windows -> Nat], NEW w \in Windows, NEW hits
    PROVE  AdmittedOne(by, Admits(by, w, hits), w, hits)
<1>1. CASE hits <= MaxHits
  <2>1. Admits(by, w, hits) = [by EXCEPT ![w] = @ + 1]
    BY <1>1 DEF Admits
  <2>2. by[w] + 1 \in Nat
    OBVIOUS
  <2>3. [by EXCEPT ![w] = by[w] + 1] \in [Windows -> Nat]
    BY <2>2
  <2> QED BY <1>1, <2>1, <2>3 DEF AdmittedOne
<1>2. CASE ~(hits <= MaxHits)
  <2>1. Admits(by, w, hits) = by
    BY <1>2, Zenon DEF Admits
  <2> QED BY <1>2, <2>1 DEF AdmittedOne
<1> QED BY <1>1, <1>2

\* Where a request can be.
Places == {"idle", "cache", "table", "count", "transient", "write"}

\* A request that moves alone keeps the types of them all.
LEMMA CallerMoves ==
    ASSUME RateLimitTypeOK, NEW c \in Callers, NEW a \in Places, NEW w \in Windows,
           NEW n \in Nat, NEW k, k = [at |-> a, window |-> w, read |-> n],
           caller' = [caller EXCEPT ![c] = k]
    PROVE  /\ caller' \in [Callers -> [at : {"idle", "cache", "table", "count", "transient",
                                            "write"}, window : Windows, read : Nat]]
           /\ caller'[c] = k
           /\ \A d \in Callers : d # c => caller'[d] = caller[d]
BY DEF RateLimitTypeOK, Places

\* The step a request takes: where it goes, of which window, with what it has read.
Goes(c, a, w, n) == caller' = [caller EXCEPT ![c] = [at |-> a, window |-> w, read |-> n]]

\* Each step of a request moves it alone.
LEMMA StepsGo ==
    ASSUME RateLimitTypeOK, NEW c \in Callers
    PROVE  /\ Calls(c) => Goes(c, IF extCache THEN "cache" ELSE "table", clock, 0)
           /\ HitObjectCache(c) => Goes(c, "idle", 0, 0)
           /\ CacheRefuses(c) => Goes(c, "table", caller[c].window, caller[c].read)
           /\ HitDatabase(c) => IF bucket.hits = 0
                                THEN Goes(c, "count", caller[c].window, caller[c].read)
                                ELSE Goes(c, "idle", 0, 0)
           /\ ReadBack(c) => Goes(c, "idle", 0, 0)
           /\ TableFails(c) => Goes(c, "transient", caller[c].window, caller[c].read)
           /\ ReadTransient(c) =>
                 Goes(c, "write", caller[c].window, Increment(transientState, caller[c].window))
           /\ WriteTransient(c) => Goes(c, "idle", 0, 0)
<1>1. caller[c] \in [at : Places, window : Windows, read : Nat]
  BY DEF RateLimitTypeOK, Places
<1>2. \A a : [caller[c] EXCEPT !.at = a]
                = [at |-> a, window |-> caller[c].window, read |-> caller[c].read]
  BY <1>1
<1>3. CacheRefuses(c) => Goes(c, "table", caller[c].window, caller[c].read)
  BY <1>2 DEF CacheRefuses, Goes
<1>4. TableFails(c) => Goes(c, "transient", caller[c].window, caller[c].read)
  BY <1>2 DEF TableFails, Goes
<1>5. ASSUME HitDatabase(c)
      PROVE  IF bucket.hits = 0 THEN Goes(c, "count", caller[c].window, caller[c].read)
             ELSE Goes(c, "idle", 0, 0)
  <2>1. CASE bucket.hits = 0
    BY <1>2, <1>5, <2>1 DEF HitDatabase, Goes
  <2>2. CASE bucket.hits # 0
    BY <1>5, <2>2 DEF HitDatabase, Goes, Rests, NotCalling
  <2> QED BY <2>1, <2>2
<1>6. ReadTransient(c) =>
         Goes(c, "write", caller[c].window, Increment(transientState, caller[c].window))
  BY DEF ReadTransient, Goes
<1>7. Calls(c) => Goes(c, IF extCache THEN "cache" ELSE "table", clock, 0)
  BY DEF Calls, Goes
<1>8. /\ HitObjectCache(c) => Goes(c, "idle", 0, 0)
      /\ ReadBack(c) => Goes(c, "idle", 0, 0)
      /\ WriteTransient(c) => Goes(c, "idle", 0, 0)
  BY DEF HitObjectCache, ReadBack, WriteTransient, Rests, NotCalling, Goes
<1> QED BY <1>3, <1>4, <1>5, <1>6, <1>7, <1>8

LEMMA LimitTypesKept == RateLimitTypeOK /\ [RateLimitNext]_limitVars => RateLimitTypeOK'
<1> SUFFICES ASSUME RateLimitTypeOK, [RateLimitNext]_limitVars PROVE RateLimitTypeOK'
  OBVIOUS
<1>1. CASE UNCHANGED limitVars
  BY <1>1 DEF limitVars, RateLimitTypeOK
<1>2. CASE WindowPasses
  <2>1. clock' \in Windows
    BY <1>2, LimitBounds DEF WindowPasses, RateLimitTypeOK, Windows
  <2> QED BY <1>2, <2>1 DEF WindowPasses, RateLimitTypeOK
<1>3. CASE Purge
  <2>1. NoHits \in [window : Windows, hits : Nat]
    BY LimitBounds DEF NoHits
  <2>2. \A w \in Windows : [counters EXCEPT ![w] = 0] \in [Windows -> Nat]
    BY DEF RateLimitTypeOK
  <2> QED BY <1>3, <2>1, <2>2 DEF Purge, RateLimitTypeOK
<1>4. ASSUME NEW c \in Callers,
             Calls(c) \/ HitObjectCache(c) \/ CacheRefuses(c) \/ HitDatabase(c) \/ ReadBack(c)
                \/ TableFails(c) \/ ReadTransient(c) \/ WriteTransient(c)
      PROVE  RateLimitTypeOK'
  <2> DEFINE w == caller[c].window
  <2>1. w \in Windows /\ caller[c].read \in Nat /\ clock \in Windows /\ 0 \in Windows /\ 0 \in Nat
    BY LimitBounds DEF RateLimitTypeOK
  <2>2. Increment(bucket, w) \in Nat /\ Increment(transientState, w) \in Nat
    BY DEF RateLimitTypeOK, Increment
  <2> DEFINE Row == [window : Windows, hits : Nat]
             Requests == [Callers -> [at : {"idle", "cache", "table", "count", "transient",
                                            "write"}, window : Windows, read : Nat]]
  <2>3. \A a \in Places, v \in Windows, n \in Nat : Goes(c, a, v, n) => caller' \in Requests
    BY CallerMoves DEF Goes
  <2>4. \A by, n : by \in [Windows -> Nat] => Admits(by, w, n) \in [Windows -> Nat]
    BY <2>1, AdmitsOne DEF AdmittedOne
  <2>5. Recorded(c) => late' \in Nat
    BY DEF Recorded, RateLimitTypeOK
  <2>6. fallen \cup {<<"cache", w>>} \subseteq {"cache", "table"} \X Windows
        /\ fallen \cup {<<"table", w>>} \subseteq {"cache", "table"} \X Windows
    BY <2>1 DEF RateLimitTypeOK
  <2>7. {"idle", "cache", "table", "count", "transient", "write"} = Places
    BY DEF Places
  <2>8. [counters EXCEPT ![w] = @ + 1] \in [Windows -> Nat]
    BY <2>1 DEF RateLimitTypeOK
  <2> HIDE DEF w
  <2>9. CASE Calls(c)
    <3>1. caller' \in Requests
      <4>1. (IF extCache THEN "cache" ELSE "table") \in Places
        BY DEF Places
      <4>2. Goes(c, IF extCache THEN "cache" ELSE "table", clock, 0)
        BY <2>9, StepsGo
      <4> QED BY <2>1, <2>3, <4>1, <4>2
    <3>2. calls' \in 0..MaxCalls
      BY <2>9, LimitBounds DEF Calls, RateLimitTypeOK
    <3> QED BY <2>9, <3>1, <3>2 DEF Calls, RateLimitTypeOK
  <2>10. CASE HitObjectCache(c)
    <3>1. caller' \in Requests
      BY <2>1, <2>3, <2>7, <2>10, StepsGo
    <3>2. byCache' \in [Windows -> Nat] /\ counters' \in [Windows -> Nat] /\ late' \in Nat
      BY <2>4, <2>5, <2>8, <2>10 DEF HitObjectCache, RateLimitTypeOK, w
    <3> QED BY <2>10, <3>1, <3>2 DEF HitObjectCache, RateLimitTypeOK
  <2>11. CASE CacheRefuses(c)
    <3>1. caller' \in Requests
      BY <2>1, <2>3, <2>7, <2>11, StepsGo DEF w
    <3> QED BY <2>6, <2>11, <3>1 DEF CacheRefuses, RateLimitTypeOK, w
  <2>12. CASE HitDatabase(c)
    <3>1. caller' \in Requests
      BY <2>1, <2>3, <2>7, <2>12, StepsGo DEF w
    <3>2. bucket' \in Row /\ late' \in Nat
      BY <2>1, <2>2, <2>5, <2>12 DEF HitDatabase, w
    <3>3. byTable' \in [Windows -> Nat]
      <4>1. CASE bucket.hits = 0
        BY <2>12, <4>1 DEF HitDatabase, RateLimitTypeOK
      <4>2. CASE bucket.hits # 0
        BY <2>4, <2>12, <4>2 DEF HitDatabase, RateLimitTypeOK, w
      <4> QED BY <4>1, <4>2
    <3> QED BY <2>12, <3>1, <3>2, <3>3 DEF HitDatabase, RateLimitTypeOK
  <2>13. CASE ReadBack(c)
    <3>1. caller' \in Requests
      BY <2>1, <2>3, <2>7, <2>13, StepsGo
    <3>2. byTable' \in [Windows -> Nat]
      BY <2>4, <2>13 DEF ReadBack, RateLimitTypeOK, w
    <3> QED BY <2>13, <3>1, <3>2 DEF ReadBack, RateLimitTypeOK
  <2>14. CASE TableFails(c)
    <3>1. caller' \in Requests
      BY <2>1, <2>3, <2>7, <2>14, StepsGo DEF w
    <3> QED BY <2>6, <2>14, <3>1 DEF TableFails, RateLimitTypeOK, w
  <2>15. CASE ReadTransient(c)
    <3>1. caller' \in Requests
      BY <2>1, <2>2, <2>3, <2>7, <2>15, StepsGo DEF w
    <3> QED BY <2>15, <3>1 DEF ReadTransient, RateLimitTypeOK
  <2>16. CASE WriteTransient(c)
    <3>1. caller' \in Requests
      BY <2>1, <2>3, <2>7, <2>16, StepsGo
    <3>2. transientState' \in Row /\ late' \in Nat /\ byTransient' \in [Windows -> Nat]
      BY <2>1, <2>4, <2>5, <2>16 DEF WriteTransient, RateLimitTypeOK, w
    <3> QED BY <2>16, <3>1, <3>2 DEF WriteTransient, RateLimitTypeOK
  <2> QED BY <1>4, <2>9, <2>10, <2>11, <2>12, <2>13, <2>14, <2>15, <2>16
<1> QED BY <1>1, <1>2, <1>3, <1>4 DEF RateLimitNext

\* A request's step, as the lemmas below name it.
RequestSteps(c) ==
    \/ Calls(c) \/ HitObjectCache(c) \/ CacheRefuses(c) \/ HitDatabase(c)
    \/ ReadBack(c) \/ TableFails(c) \/ ReadTransient(c) \/ WriteTransient(c)

\* Counts of calls let through grow only at the request's window.
CountsGrowAt(w) ==
    /\ \A v \in Windows : v # w => /\ byCache'[v] = byCache[v] /\ byTable'[v] = byTable[v]
                                   /\ byTransient'[v] = byTransient[v]

LEMMA CountsGrow ==
    ASSUME RateLimitTypeOK, NEW c \in Callers, RequestSteps(c)
    PROVE  CountsGrowAt(caller[c].window)
<1> DEFINE w == caller[c].window
<1>1. w \in Windows
  BY DEF RateLimitTypeOK
<1>2. \A by, n, v : by \in [Windows -> Nat] /\ v \in Windows /\ v # w
                       => Admits(by, w, n)[v] = by[v]
  BY <1>1, AdmitsOne DEF AdmittedOne
<1>3. CASE HitObjectCache(c)
  BY <1>2, <1>3 DEF HitObjectCache, CountsGrowAt, RateLimitTypeOK
<1>4. CASE HitDatabase(c)
  <2>1. CASE bucket.hits = 0
    BY <1>4, <2>1 DEF HitDatabase, CountsGrowAt
  <2>2. CASE bucket.hits # 0
    BY <1>2, <1>4, <2>2 DEF HitDatabase, CountsGrowAt, RateLimitTypeOK
  <2> QED BY <2>1, <2>2
<1>5. CASE ReadBack(c)
  BY <1>2, <1>5 DEF ReadBack, CountsGrowAt, RateLimitTypeOK
<1>6. CASE WriteTransient(c)
  BY <1>2, <1>6 DEF WriteTransient, CountsGrowAt, RateLimitTypeOK
<1>7. CASE Calls(c) \/ CacheRefuses(c) \/ TableFails(c) \/ ReadTransient(c)
  BY <1>7 DEF Calls, CacheRefuses, TableFails, ReadTransient, CountsGrowAt
<1> QED BY <1>3, <1>4, <1>5, <1>6, <1>7 DEF RequestSteps

LEMMA NothingAheadKept ==
    ASSUME RateLimitTypeOK, NothingAhead, NEW c \in Callers, RequestSteps(c)
    PROVE  NothingAhead' /\ clock' = clock /\ extCache' = extCache
<1>1. /\ caller[c].window \in Windows /\ clock \in Windows /\ clock \in Nat /\ 0 <= clock
      /\ caller[c].window <= clock
  BY LimitBounds DEF RateLimitTypeOK, NothingAhead
<1>2. clock' = clock /\ extCache' = extCache
  BY DEF RequestSteps, Calls, HitObjectCache, CacheRefuses, HitDatabase, ReadBack, TableFails,
         ReadTransient, WriteTransient
<1>3. bucket'.window <= clock
  BY <1>1 DEF RequestSteps, NothingAhead, Calls, HitObjectCache, CacheRefuses, HitDatabase,
              ReadBack, TableFails, ReadTransient, WriteTransient
<1>4. transientState'.window <= clock
  BY <1>1 DEF RequestSteps, NothingAhead, Calls, HitObjectCache, CacheRefuses, HitDatabase,
              ReadBack, TableFails, ReadTransient, WriteTransient
<1>5. ASSUME NEW d \in Callers PROVE caller'[d].window <= clock
  <2>1. \A a, v, n : Goes(c, a, v, n) /\ v <= clock => caller'[d].window <= clock
    BY DEF Goes, NothingAhead, RateLimitTypeOK
  <2> QED BY <1>1, <2>1, StepsGo DEF RequestSteps
<1>6. ASSUME NEW v \in Windows, v > clock
      PROVE  byCache'[v] = 0 /\ byTable'[v] = 0 /\ byTransient'[v] = 0
  <2>1. v # caller[c].window
    BY <1>1, <1>6, LimitBounds
  <2> QED BY <1>6, <2>1, CountsGrow DEF CountsGrowAt, NothingAhead
<1> QED BY <1>2, <1>3, <1>4, <1>5, <1>6 DEF NothingAhead

LEMMA CacheKeepsKept ==
    ASSUME RateLimitTypeOK, NothingAhead, CacheKeeps, NEW c \in Callers, RequestSteps(c)
    PROVE  CacheKeeps'
<1>1. CASE HitObjectCache(c)
  <2> DEFINE w == caller[c].window
  <2>1. w \in Windows /\ w \in Nat /\ counters[w] \in Nat /\ byCache[w] \in Nat /\ MaxHits \in Nat
    BY LimitBounds DEF RateLimitTypeOK
  <2>2. AdmittedOne(byCache, byCache', w, counters[w] + 1)
    <3>1. byCache' = Admits(byCache, w, counters[w] + 1)
      BY <1>1 DEF HitObjectCache
    <3>2. byCache \in [Windows -> Nat]
      BY DEF RateLimitTypeOK
    <3> QED BY <2>1, <3>1, <3>2, AdmitsOne
  <2>3. counters' = [counters EXCEPT ![w] = @ + 1] /\ clock' = clock
    BY <1>1 DEF HitObjectCache
  <2>4. counters'[w] = counters[w] + 1 /\ \A v \in Windows : v # w => counters'[v] = counters[v]
    BY <2>1, <2>3 DEF RateLimitTypeOK
  <2> HIDE DEF w
  <2>5. ASSUME NEW v \in Windows, v >= clock
        PROVE  byCache'[v] <= counters'[v] /\ byCache'[v] <= MaxHits
    <3>1. byCache[v] <= counters[v] /\ byCache[v] <= MaxHits
      BY <2>5 DEF CacheKeeps
    <3>2. CASE v = w
      BY <2>1, <2>2, <2>4, <3>1, <3>2 DEF AdmittedOne
    <3>3. CASE v # w
      BY <2>2, <2>4, <3>1, <3>3 DEF AdmittedOne
    <3> QED BY <3>2, <3>3
  <2> QED BY <2>3, <2>5 DEF CacheKeeps
<1>2. CASE ~HitObjectCache(c)
  <2>1. UNCHANGED <<clock, counters, byCache>>
    BY <1>2 DEF RequestSteps, Calls, CacheRefuses, HitDatabase, ReadBack, TableFails,
                ReadTransient, WriteTransient
  <2> QED BY <2>1 DEF CacheKeeps
<1> QED BY <1>1, <1>2

LEMMA RoutesKept ==
    ASSUME RateLimitTypeOK, Routes, NEW c \in Callers, RequestSteps(c)
    PROVE  Routes'
<1>1. extCache' = extCache /\ fallen \subseteq fallen'
  BY DEF RequestSteps, Calls, HitObjectCache, CacheRefuses, HitDatabase, ReadBack, TableFails,
         ReadTransient, WriteTransient
<1>2. ASSUME NEW v \in Windows, ~extCache
      PROVE  byCache'[v] = 0 /\ \A d \in Callers : caller'[d].at # "cache"
  <2>1. byCache[v] = 0 /\ \A d \in Callers : caller[d].at # "cache"
    BY <1>2 DEF Routes
  <2>2. byCache' = byCache
    BY <2>1 DEF RequestSteps, Calls, HitObjectCache, CacheRefuses, HitDatabase, ReadBack,
                TableFails, ReadTransient, WriteTransient
  <2>3. \A a, w, n : Goes(c, a, w, n) /\ a # "cache"
                        => \A d \in Callers : caller'[d].at # "cache"
    BY <2>1 DEF Goes, RateLimitTypeOK
  <2>4. \A d \in Callers : caller'[d].at # "cache"
    BY <1>2, <2>3, StepsGo DEF RequestSteps
  <2> QED BY <2>1, <2>2, <2>4
<1>3. ASSUME NEW v \in Windows, extCache, <<"cache", v>> \notin fallen'
      PROVE  /\ byTable'[v] = 0
             /\ \A d \in Callers : caller'[d].window = v => caller'[d].at \in {"idle", "cache"}
  <2>1. <<"cache", v>> \notin fallen
    BY <1>1, <1>3
  <2>2. /\ byTable[v] = 0
        /\ \A d \in Callers : caller[d].window = v => caller[d].at \in {"idle", "cache"}
    BY <1>3, <2>1 DEF Routes
  <2>3. \A a, w, n : Goes(c, a, w, n) /\ (w = v => a \in {"idle", "cache"})
           => \A d \in Callers : caller'[d].window = v => caller'[d].at \in {"idle", "cache"}
    BY <2>2 DEF Goes, RateLimitTypeOK
  <2>4. CASE caller[c].window = v
    <3>1. caller[c].at \in {"idle", "cache"}
      BY <2>2, <2>4
    <3>2. ~CacheRefuses(c)
      BY <1>3, <2>4 DEF CacheRefuses
    <3>3. Calls(c) \/ HitObjectCache(c)
      BY <3>1, <3>2 DEF RequestSteps, CacheRefuses, HitDatabase, ReadBack, TableFails,
                        ReadTransient, WriteTransient
    <3>4. byTable' = byTable
      BY <3>3 DEF Calls, HitObjectCache
    <3>5. Goes(c, "cache", clock, 0) \/ Goes(c, "idle", 0, 0)
      BY <1>3, <3>3, StepsGo
    <3> QED BY <2>2, <2>3, <3>4, <3>5
  <2>5. CASE caller[c].window # v
    <3>1. byTable'[v] = byTable[v]
      BY <2>5, CountsGrow DEF CountsGrowAt
    <3>2. \A d \in Callers : caller'[d].window = v => caller'[d].at \in {"idle", "cache"}
      BY <1>3, <2>3, <2>5, StepsGo DEF RequestSteps
    <3> QED BY <2>2, <3>1, <3>2
  <2> QED BY <2>4, <2>5
<1>4. ASSUME NEW v \in Windows, <<"table", v>> \notin fallen'
      PROVE  /\ byTransient'[v] = 0
             /\ \A d \in Callers : caller'[d].window = v =>
                                      caller'[d].at \notin {"transient", "write"}
  <2>1. <<"table", v>> \notin fallen
    BY <1>1, <1>4
  <2>2. /\ byTransient[v] = 0
        /\ \A d \in Callers : caller[d].window = v => caller[d].at \notin {"transient", "write"}
    BY <2>1 DEF Routes
  <2>3. \A a, w, n : Goes(c, a, w, n) /\ (w = v => a \notin {"transient", "write"})
           => \A d \in Callers : caller'[d].window = v =>
                                    caller'[d].at \notin {"transient", "write"}
    BY <2>2 DEF Goes, RateLimitTypeOK
  <2>4. CASE caller[c].window = v
    <3>1. caller[c].at \notin {"transient", "write"}
      BY <2>2, <2>4
    <3>2. ~TableFails(c)
      BY <1>4, <2>4 DEF TableFails
    <3>3. ~ReadTransient(c) /\ ~WriteTransient(c)
      BY <3>1 DEF ReadTransient, WriteTransient
    <3>4. byTransient' = byTransient
      BY <3>2, <3>3 DEF RequestSteps, Calls, HitObjectCache, CacheRefuses, HitDatabase, ReadBack
    <3>5. \A d \in Callers : caller'[d].window = v =>
                                caller'[d].at \notin {"transient", "write"}
      BY <2>3, <3>2, <3>3, StepsGo DEF RequestSteps
    <3> QED BY <2>2, <3>4, <3>5
  <2>5. CASE caller[c].window # v
    <3>1. byTransient'[v] = byTransient[v]
      BY <2>5, CountsGrow DEF CountsGrowAt
    <3>2. \A d \in Callers : caller'[d].window = v =>
                                caller'[d].at \notin {"transient", "write"}
      BY <2>3, <2>5, StepsGo DEF RequestSteps
    <3> QED BY <2>2, <3>1, <3>2
  <2> QED BY <2>4, <2>5
<1>5. ASSUME NEW v \in Windows
      PROVE  /\ ~extCache' => byCache'[v] = 0 /\ \A d \in Callers : caller'[d].at # "cache"
             /\ extCache' /\ <<"cache", v>> \notin fallen' =>
                   /\ byTable'[v] = 0
                   /\ \A d \in Callers : caller'[d].window = v => caller'[d].at \in {"idle", "cache"}
             /\ <<"table", v>> \notin fallen' =>
                   /\ byTransient'[v] = 0
                   /\ \A d \in Callers : caller'[d].window = v =>
                                            caller'[d].at \notin {"transient", "write"}
  BY <1>1, <1>2, <1>3, <1>4
<1> QED BY <1>5 DEF Routes

\* What a step of a request does to the calls the table lets through or owes.
TableHitsMove(c, v) ==
    /\ v # caller[c].window \/ ~(HitDatabase(c) \/ ReadBack(c)) => TableHits(v)' = TableHits(v)
    /\ ReadBack(c) => TableHits(v)' <= TableHits(v)
    /\ HitDatabase(c) /\ v = caller[c].window =>
          TableHits(v)' = IF bucket.hits = 0 \/ Increment(bucket, v) <= MaxHits
                          THEN TableHits(v) + 1 ELSE TableHits(v)

LEMMA TableHitsMoves ==
    ASSUME RateLimitTypeOK, NEW c \in Callers, RequestSteps(c), NEW v \in Windows
    PROVE  TableHitsMove(c, v)
<1> DEFINE w == caller[c].window
<1>1. w \in Windows /\ byTable \in [Windows -> Nat] /\ byTable[v] \in Nat
  BY DEF RateLimitTypeOK
<1>2. c \in Waiting(v) <=> (caller[c].at = "count" /\ w = v)
  BY DEF Waiting
<1>3. \A a, u, n : Goes(c, a, u, n) =>
         /\ OwedTo(v) \in Nat /\ OwedTo(v)' \in Nat
         /\ (c \in Waiting(v) <=> (a = "count" /\ u = v)) => OwedTo(v)' = OwedTo(v)
         /\ c \notin Waiting(v) /\ a = "count" /\ u = v => OwedTo(v)' = OwedTo(v) + 1
         /\ c \in Waiting(v) /\ ~(a = "count" /\ u = v) => OwedTo(v)' = OwedTo(v) - 1
  <2> SUFFICES ASSUME NEW a, NEW u, NEW n, Goes(c, a, u, n)
               PROVE  /\ OwedTo(v) \in Nat /\ OwedTo(v)' \in Nat
                      /\ (c \in Waiting(v) <=> (a = "count" /\ u = v)) => OwedTo(v)' = OwedTo(v)
                      /\ c \notin Waiting(v) /\ a = "count" /\ u = v =>
                            OwedTo(v)' = OwedTo(v) + 1
                      /\ c \in Waiting(v) /\ ~(a = "count" /\ u = v) =>
                            OwedTo(v)' = OwedTo(v) - 1
    OBVIOUS
  <2>1. PICK k : k = [at |-> a, window |-> u, read |-> n]
    OBVIOUS
  <2>2. k.at = a /\ k.window = u /\ caller' = [caller EXCEPT ![c] = k]
    BY <2>1 DEF Goes
  <2> QED BY <2>2, OwedMoves
<1>0. TableHits(v) = byTable[v] + OwedTo(v) /\ TableHits(v)' = byTable'[v] + OwedTo(v)'
  BY DEF TableHits
<1>4. CASE HitDatabase(c)
  <2>1. c \notin Waiting(v)
    BY <1>2, <1>4 DEF HitDatabase
  <2>2. CASE bucket.hits = 0
    <3>1. Goes(c, "count", w, caller[c].read) /\ byTable' = byTable
      BY <1>4, <2>2, StepsGo DEF HitDatabase
    <3>2. ~ReadBack(c)
      BY <1>4 DEF HitDatabase, ReadBack
    <3> HIDE DEF w
    <3>3. OwedTo(v) \in Nat /\ OwedTo(v)' = IF v = w THEN OwedTo(v) + 1 ELSE OwedTo(v)
      BY <1>3, <2>1, <3>1
    <3>4. TableHits(v)' = IF v = w THEN TableHits(v) + 1 ELSE TableHits(v)
      BY <1>0, <1>1, <3>1, <3>3
    <3> QED BY <1>4, <2>2, <3>2, <3>4 DEF TableHitsMove, w
  <2>3. CASE bucket.hits # 0
    <3>1. Goes(c, "idle", 0, 0) /\ byTable' = Admits(byTable, w, Increment(bucket, w))
      BY <1>4, <2>3, StepsGo DEF HitDatabase
    <3>2. ~ReadBack(c)
      BY <1>4 DEF HitDatabase, ReadBack
    <3>3. OwedTo(v) \in Nat /\ OwedTo(v)' = OwedTo(v)
      BY <1>3, <2>1, <3>1
    <3>4. AdmittedOne(byTable, byTable', w, Increment(bucket, w))
      BY <1>1, <3>1, AdmitsOne
    <3>5. byTable'[v] = IF v = w /\ Increment(bucket, v) <= MaxHits THEN byTable[v] + 1
                        ELSE byTable[v]
      BY <3>4 DEF AdmittedOne
    <3> HIDE DEF w
    <3>6. TableHits(v)' = IF v = w /\ Increment(bucket, v) <= MaxHits THEN TableHits(v) + 1
                          ELSE TableHits(v)
      BY <1>0, <1>1, <3>3, <3>5
    <3> QED BY <1>4, <2>3, <3>2, <3>6 DEF TableHitsMove, w
  <2> QED BY <2>2, <2>3
<1>5. CASE ReadBack(c)
  <2>1. ~HitDatabase(c) /\ caller[c].at = "count"
    BY <1>5 DEF HitDatabase, ReadBack
  <2>2. PICK hits : Goes(c, "idle", 0, 0) /\ byTable' = Admits(byTable, w, hits)
    BY <1>5, StepsGo DEF ReadBack
  <2>3. AdmittedOne(byTable, byTable', w, hits)
    BY <1>1, <2>2, AdmitsOne
  <2>4. OwedTo(v) \in Nat /\ OwedTo(v)' = IF v = w THEN OwedTo(v) - 1 ELSE OwedTo(v)
    BY <1>2, <1>3, <2>1, <2>2
  <2> HIDE DEF w
  <2>5. byTable'[v] = byTable[v] \/ (v = w /\ byTable'[v] = byTable[v] + 1)
    BY <1>1, <2>3 DEF AdmittedOne
  <2>6. (v = w => TableHits(v)' <= TableHits(v)) /\ (v # w => TableHits(v)' = TableHits(v))
    BY <1>0, <1>1, <2>4, <2>5
  <2>7. TableHits(v)' <= TableHits(v)
    <3>1. TableHits(v) \in Nat
      BY <1>0, <1>1, <2>4
    <3> QED BY <2>6, <3>1
  <2> QED BY <1>5, <2>1, <2>6, <2>7 DEF TableHitsMove, w
<1>6. CASE ~(HitDatabase(c) \/ ReadBack(c))
  <2>1. byTable' = byTable
    BY <1>6 DEF RequestSteps, Calls, HitObjectCache, CacheRefuses, TableFails, ReadTransient,
                WriteTransient
  <2>2. c \notin Waiting(v)
    BY <1>2, <1>6 DEF RequestSteps, Calls, HitObjectCache, CacheRefuses, TableFails,
                      ReadTransient, WriteTransient, NotCalling
  <2>3. OwedTo(v)' = OwedTo(v)
    BY <1>3, <1>6, <2>2, StepsGo DEF RequestSteps
  <2> QED BY <1>6, <2>1, <2>3 DEF TableHitsMove, TableHits
<1> QED BY <1>4, <1>5, <1>6

\* A late hit begins the count of the row again, and nothing else does.
LEMMA TableKept ==
    ASSUME RateLimitTypeOK, NothingAhead, NEW c \in Callers, RequestSteps(c),
           NEW l \in Nat, TableKeeps(l)
    PROVE  \/ TableKeeps(l)'
           \/ HitDatabase(c) /\ late' = late + 1 /\ TableKeeps(l + 1)'
<1> DEFINE w == caller[c].window
<1>1. /\ LimitNumbers /\ clock' = clock /\ MaxHits \in Nat /\ MaxHits >= 1
      /\ Cap(l) \in Nat /\ Cap(l + 1) = Cap(l) + MaxHits /\ w <= clock
  BY NothingAheadKept, LimitTypes, LimitBounds, CapGrows DEF NothingAhead
<1>2. /\ clock \in Windows /\ clock \in Nat /\ TableHits(clock) \in Nat
      /\ CountedBy(bucket) \in Nat /\ bucket.window \in Nat /\ bucket.hits \in Nat /\ w \in Nat
  BY <1>1 DEF LimitNumbers
<1>3. /\ TableHitsMove(c, clock)
      /\ TableHits(clock) <= Cap(l) /\ TableHits(clock) + MaxHits <= Cap(l) + CountedBy(bucket)
  BY <1>2, TableHitsMoves DEF TableKeeps
<1>4. TableKeeps(l)' <=> /\ TableHits(clock)' <= Cap(l)
                         /\ TableHits(clock)' + MaxHits <= Cap(l) + CountedBy(bucket)'
  BY <1>1 DEF TableKeeps, Cap
<1>5. TableKeeps(l + 1)' <=> /\ TableHits(clock)' <= Cap(l + 1)
                             /\ TableHits(clock)' + MaxHits <= Cap(l + 1) + CountedBy(bucket)'
  BY <1>1 DEF TableKeeps, Cap
<1>6. TableHits(clock)' \in Nat
  <2>1. LimitNumbers'
    <3>1. RateLimitTypeOK'
      BY LimitTypesKept DEF RateLimitNext, RequestSteps
    <3> QED BY <3>1, LimitTypes, PTL
  <2> QED BY <1>1, <1>2, <2>1 DEF LimitNumbers
<1>7. CASE HitDatabase(c) /\ w = clock
  <2>1. bucket' = [window |-> w, hits |-> Increment(bucket, w)]
    BY <1>7 DEF HitDatabase
  <2>2. CountedBy(bucket) = IF bucket.window = clock THEN bucket.hits ELSE 0
    BY DEF CountedBy
  <2>3. CountedBy(bucket)' = Increment(bucket, clock)
    BY <1>1, <1>7, <2>1 DEF CountedBy
  <2>4. Increment(bucket, clock) = CountedBy(bucket) + 1
    BY <1>2, <2>2 DEF Increment
  <2>5. TableHits(clock)' = IF bucket.hits = 0 \/ Increment(bucket, clock) <= MaxHits
                            THEN TableHits(clock) + 1 ELSE TableHits(clock)
    BY <1>3, <1>7 DEF TableHitsMove
  <2>6. bucket.hits = 0 => CountedBy(bucket) = 0
    BY <2>2
  <2> HIDE DEF w
  <2> QED BY <1>1, <1>2, <1>3, <1>4, <2>3, <2>4, <2>5, <2>6
<1>8. CASE HitDatabase(c) /\ w # clock
  <2>1. TableHits(clock)' = TableHits(clock)
    BY <1>3, <1>8 DEF TableHitsMove
  <2>2. late' = late + 1
    BY <1>1, <1>2, <1>8 DEF HitDatabase, Recorded
  <2>3. CountedBy(bucket)' = 0
    BY <1>1, <1>8 DEF HitDatabase, CountedBy
  <2> HIDE DEF w
  <2> QED BY <1>1, <1>2, <1>3, <1>5, <1>8, <2>1, <2>2, <2>3
<1>9. CASE ~HitDatabase(c)
  <2>1. bucket' = bucket
    BY <1>9 DEF RequestSteps, Calls, HitObjectCache, CacheRefuses, ReadBack, TableFails,
                ReadTransient, WriteTransient
  <2>2. CountedBy(bucket)' = CountedBy(bucket)
    BY <1>1, <2>1 DEF CountedBy
  <2>3. TableHits(clock)' <= TableHits(clock)
    BY <1>2, <1>3, <1>9 DEF TableHitsMove
  <2> HIDE DEF w
  <2> QED BY <1>1, <1>2, <1>3, <1>4, <1>6, <2>2, <2>3
<1> QED BY <1>7, <1>8, <1>9

\* The same of the transient, until two requests cross in it.
LEMMA TransientKept ==
    ASSUME RateLimitTypeOK, NothingAhead, NEW c \in Callers, RequestSteps(c),
           NEW l \in Nat, TransientKeeps(l)
    PROVE  \/ TransientKeeps(l)'
           \/ WriteTransient(c) /\ late' = late + 1 /\ TransientKeeps(l + 1)'
<1> DEFINE w == caller[c].window
<1>1. /\ LimitNumbers /\ clock' = clock /\ MaxHits \in Nat /\ MaxHits >= 1
      /\ Cap(l) \in Nat /\ Cap(l + 1) = Cap(l) + MaxHits /\ w <= clock
  BY NothingAheadKept, LimitTypes, LimitBounds, CapGrows DEF NothingAhead
<1>2. /\ clock \in Windows /\ clock \in Nat /\ byTransient[clock] \in Nat
      /\ CountedBy(transientState) \in Nat /\ w \in Nat /\ w \in Windows
      /\ transientState.window \in Nat /\ transientState.hits \in Nat
  BY <1>1 DEF LimitNumbers
<1>3. TransientKeeps(l)' <=>
         crossed' \/ (/\ \A d, e \in Callers :
                            caller'[d].at = "write" /\ caller'[e].at = "write" => d = e
                      /\ \A d \in Callers : caller'[d].at = "write" /\ caller'[d].window = clock =>
                            caller'[d].read = Increment(transientState', clock)
                      /\ byTransient'[clock] <= Cap(l)
                      /\ byTransient'[clock] + MaxHits <= Cap(l) + CountedBy(transientState)')
  BY <1>1 DEF TransientKeeps, Cap, Increment
<1>4. TransientKeeps(l + 1)' <=>
         crossed' \/ (/\ \A d, e \in Callers :
                            caller'[d].at = "write" /\ caller'[e].at = "write" => d = e
                      /\ \A d \in Callers : caller'[d].at = "write" /\ caller'[d].window = clock =>
                            caller'[d].read = Increment(transientState', clock)
                      /\ byTransient'[clock] <= Cap(l + 1)
                      /\ byTransient'[clock] + MaxHits <= Cap(l + 1) + CountedBy(transientState)')
  BY <1>1 DEF TransientKeeps, Cap, Increment
<1>5. CASE crossed'
  BY <1>3, <1>5
<1>6. CASE ~crossed'
  <2>1. ~crossed
    BY <1>6 DEF RequestSteps, Calls, HitObjectCache, CacheRefuses, HitDatabase, ReadBack,
                TableFails, ReadTransient, WriteTransient, RateLimitTypeOK
  <2>2. /\ \A d, e \in Callers : caller[d].at = "write" /\ caller[e].at = "write" => d = e
        /\ \A d \in Callers : caller[d].at = "write" /\ caller[d].window = clock =>
              caller[d].read = Increment(transientState, clock)
        /\ byTransient[clock] <= Cap(l)
        /\ byTransient[clock] + MaxHits <= Cap(l) + CountedBy(transientState)
    BY <2>1 DEF TransientKeeps
  <2>3. Increment(transientState, clock) = CountedBy(transientState) + 1
    BY <1>2 DEF Increment, CountedBy
  <2>4. CASE WriteTransient(c)
    <3>1. Goes(c, "idle", 0, 0) /\ caller[c].at = "write"
      BY <2>4, StepsGo DEF WriteTransient
    <3>2. \A d \in Callers : caller'[d].at # "write"
      BY <2>2, <3>1 DEF Goes, RateLimitTypeOK
    <3>3. /\ transientState' = [window |-> w, hits |-> caller[c].read]
          /\ byTransient' = Admits(byTransient, w, caller[c].read)
      BY <2>4 DEF WriteTransient
    <3>4. AdmittedOne(byTransient, byTransient', w, caller[c].read)
      <4>1. byTransient \in [Windows -> Nat]
        BY DEF RateLimitTypeOK
      <4> QED BY <1>2, <3>3, <4>1, AdmitsOne
    <3>5. CASE w = clock
      <4>1. caller[c].read = CountedBy(transientState) + 1
        BY <2>2, <2>3, <3>1, <3>5
      <4>2. CountedBy(transientState)' = CountedBy(transientState) + 1
        BY <1>1, <3>3, <3>5, <4>1 DEF CountedBy
      <4>3. byTransient'[clock] = IF CountedBy(transientState) + 1 <= MaxHits
                                  THEN byTransient[clock] + 1 ELSE byTransient[clock]
        BY <3>4, <3>5, <4>1 DEF AdmittedOne
      <4> HIDE DEF w
      <4>4. /\ byTransient'[clock] <= Cap(l)
            /\ byTransient'[clock] + MaxHits <= Cap(l) + CountedBy(transientState)'
        BY <1>1, <1>2, <2>2, <4>2, <4>3
      <4> QED BY <1>3, <3>2, <4>4
    <3>6. CASE w # clock
      <4>1. late' = late + 1
        BY <1>1, <1>2, <2>4, <3>6 DEF WriteTransient, Recorded
      <4>2. byTransient'[clock] = byTransient[clock]
        BY <1>2, <3>4, <3>6 DEF AdmittedOne
      <4>3. CountedBy(transientState)' = 0
        BY <1>1, <3>3, <3>6 DEF CountedBy
      <4> HIDE DEF w
      <4>4. /\ byTransient'[clock] <= Cap(l + 1)
            /\ byTransient'[clock] + MaxHits <= Cap(l + 1) + CountedBy(transientState)'
        BY <1>1, <1>2, <2>2, <4>2, <4>3
      <4> QED BY <1>4, <2>4, <3>2, <4>1, <4>4
    <3> QED BY <3>5, <3>6
  <2>5. CASE ~WriteTransient(c)
    <3>1. UNCHANGED <<transientState, byTransient>>
      BY <2>5 DEF RequestSteps, Calls, HitObjectCache, CacheRefuses, HitDatabase, ReadBack,
                  TableFails, ReadTransient
    <3>2. CountedBy(transientState)' = CountedBy(transientState)
      BY <1>1, <3>1 DEF CountedBy
    <3>3. CASE ReadTransient(c)
      <4>1. \A d \in Callers : caller[d].at # "write"
        BY <1>6, <3>3 DEF ReadTransient
      <4>2. Goes(c, "write", w, Increment(transientState, w))
        BY <3>3, StepsGo
      <4>3. /\ caller'[c] = [at |-> "write", window |-> w, read |-> Increment(transientState, w)]
            /\ \A d \in Callers : d # c => caller'[d] = caller[d]
        BY <4>2 DEF Goes, RateLimitTypeOK
      <4>4. \A d, e \in Callers : caller'[d].at = "write" /\ caller'[e].at = "write" => d = e
        BY <4>1, <4>3
      <4>5. \A d \in Callers : caller'[d].at = "write" /\ caller'[d].window = clock =>
              caller'[d].read = Increment(transientState', clock)
        BY <3>1, <4>1, <4>3
      <4> QED BY <1>3, <2>2, <3>1, <3>2, <4>4, <4>5
    <3>4. CASE ~ReadTransient(c)
      <4>1. \A a, u, n : Goes(c, a, u, n) /\ a # "write" =>
               \A d \in Callers : caller'[d].at = "write" => caller'[d] = caller[d]
        BY DEF Goes, RateLimitTypeOK
      <4>2. \A d \in Callers : caller'[d].at = "write" => caller'[d] = caller[d]
        BY <2>5, <3>4, <4>1, StepsGo DEF RequestSteps
      <4> QED BY <1>3, <2>2, <3>1, <3>2, <4>2
    <3> QED BY <3>3, <3>4
  <2> QED BY <2>4, <2>5
<1> QED BY <1>5, <1>6

\* A window that is over: what a step lets through of it more is a hit recorded late.
LEMMA OverKept ==
    ASSUME RateLimitTypeOK, NothingAhead, NEW c \in Callers, RequestSteps(c),
           NEW v \in Windows, v # clock
    PROVE  Through(v)' <= Through(v) + (late' - late)
<1> DEFINE w == caller[c].window
           x == IF crossed THEN 0 ELSE byTransient[v]
           y == IF crossed' THEN 0 ELSE byTransient'[v]
<1>1. /\ LimitNumbers /\ LimitNumbers' /\ RateLimitTypeOK'
      /\ Through(v) = byCache[v] + TableHits(v) + x
      /\ Through(v)' = byCache'[v] + TableHits(v)' + y
  <2>1. RateLimitTypeOK'
    BY LimitTypesKept DEF RateLimitNext, RequestSteps
  <2>2. LimitNumbers /\ LimitNumbers'
    BY <2>1, LimitTypes, PTL
  <2> QED BY <2>1, <2>2 DEF Through
<1>2. /\ w \in Windows /\ w \in Nat /\ v \in Nat /\ clock \in Nat /\ w <= clock
      /\ late \in Nat /\ late' \in Nat
      /\ byCache[v] \in Nat /\ TableHits(v) \in Nat /\ byTransient[v] \in Nat
      /\ byCache'[v] \in Nat /\ TableHits(v)' \in Nat /\ byTransient'[v] \in Nat
  BY <1>1 DEF LimitNumbers, NothingAhead
<1>3. TableHitsMove(c, v) /\ CountsGrowAt(w)
  BY TableHitsMoves, CountsGrow
<1>4. (crossed => crossed') /\ crossed \in BOOLEAN /\ crossed' \in BOOLEAN
  <2>1. crossed \in BOOLEAN /\ crossed' \in BOOLEAN
    BY <1>1 DEF RateLimitTypeOK
  <2> QED BY <2>1 DEF RequestSteps, Calls, HitObjectCache, CacheRefuses, HitDatabase, ReadBack,
              TableFails, ReadTransient, WriteTransient
<1>5. late' = late \/ late' = late + 1
  BY DEF RequestSteps, Calls, HitObjectCache, CacheRefuses, HitDatabase, ReadBack, TableFails,
         ReadTransient, WriteTransient, Recorded
<1>6. x \in Nat /\ y \in Nat
  BY <1>2
<1>7. CASE v # w
  <2>1. byCache'[v] = byCache[v] /\ byTransient'[v] = byTransient[v]
    BY <1>3, <1>7 DEF CountsGrowAt
  <2>2. TableHits(v)' = TableHits(v)
    BY <1>3, <1>7 DEF TableHitsMove
  <2>3. y <= x
    BY <1>2, <1>4, <2>1
  <2> HIDE DEF w, x, y
  <2> QED BY <1>1, <1>2, <1>5, <1>6, <2>1, <2>2, <2>3
<1>8. CASE v = w
  <2>1. CASE HitObjectCache(c)
    <3>1. /\ byCache' = Admits(byCache, w, counters[w] + 1) /\ late' = late + 1
          /\ byTransient' = byTransient
      BY <1>2, <1>8, <2>1 DEF HitObjectCache, Recorded
    <3>2. byCache'[v] <= byCache[v] + 1
      <4>1. AdmittedOne(byCache, byCache', w, counters[w] + 1)
        BY <1>2, <3>1, AdmitsOne DEF RateLimitTypeOK
      <4> QED BY <1>2, <1>8, <4>1 DEF AdmittedOne
    <3>3. TableHits(v)' = TableHits(v)
      BY <1>3, <2>1 DEF TableHitsMove, HitObjectCache, HitDatabase, ReadBack
    <3>4. y <= x
      BY <1>2, <1>4, <3>1
    <3> HIDE DEF w, x, y
    <3> QED BY <1>1, <1>2, <1>6, <3>1, <3>2, <3>3, <3>4
  <2>2. CASE HitDatabase(c)
    <3>1. /\ byCache' = byCache /\ late' = late + 1 /\ byTransient' = byTransient
      BY <1>2, <1>8, <2>2 DEF HitDatabase, Recorded
    <3>2. TableHits(v)' <= TableHits(v) + 1
      BY <1>2, <1>3, <1>8, <2>2 DEF TableHitsMove
    <3>3. y <= x
      BY <1>2, <1>4, <3>1
    <3> HIDE DEF w, x, y
    <3> QED BY <1>1, <1>2, <1>6, <3>1, <3>2, <3>3
  <2>3. CASE ReadBack(c)
    <3>1. /\ byCache' = byCache /\ byTransient' = byTransient
      BY <2>3 DEF ReadBack
    <3>2. TableHits(v)' <= TableHits(v)
      BY <1>3, <2>3 DEF TableHitsMove
    <3>3. y <= x
      BY <1>2, <1>4, <3>1
    <3> HIDE DEF w, x, y
    <3> QED BY <1>1, <1>2, <1>5, <1>6, <3>1, <3>2, <3>3
  <2>4. CASE WriteTransient(c)
    <3>1. /\ byTransient' = Admits(byTransient, w, caller[c].read) /\ late' = late + 1
          /\ byCache' = byCache
      BY <1>2, <1>8, <2>4 DEF WriteTransient, Recorded
    <3>2. byTransient'[v] <= byTransient[v] + 1
      <4>1. AdmittedOne(byTransient, byTransient', w, caller[c].read)
        BY <1>2, <3>1, AdmitsOne DEF RateLimitTypeOK
      <4> QED BY <1>2, <1>8, <4>1 DEF AdmittedOne
    <3>3. TableHits(v)' = TableHits(v)
      BY <1>3, <2>4 DEF TableHitsMove, WriteTransient, HitDatabase, ReadBack
    <3>4. y <= x + 1
      BY <1>2, <1>4, <3>2
    <3> HIDE DEF w, x, y
    <3> QED BY <1>1, <1>2, <1>6, <3>1, <3>3, <3>4
  <2>5. CASE Calls(c) \/ CacheRefuses(c) \/ TableFails(c) \/ ReadTransient(c)
    <3>1. byCache' = byCache /\ byTransient' = byTransient
      BY <2>5 DEF Calls, CacheRefuses, TableFails, ReadTransient
    <3>2. TableHits(v)' = TableHits(v)
      <4>1. ~(HitDatabase(c) \/ ReadBack(c))
        <5>1. caller[c].at \in {"idle", "cache", "table", "transient"}
          BY <2>5 DEF Calls, CacheRefuses, TableFails, ReadTransient, NotCalling
        <5>2. ~TableFails(c) => ~HitDatabase(c)
          BY <2>5 DEF Calls, CacheRefuses, ReadTransient, HitDatabase, NotCalling
        <5>3. TableFails(c) => ~HitDatabase(c)
          <6> SUFFICES ASSUME TableFails(c) PROVE ~HitDatabase(c)
            OBVIOUS
          <6>1. Goes(c, "transient", caller[c].window, caller[c].read)
            BY StepsGo
          <6>2. caller'[c].at = "transient"
            BY <6>1 DEF Goes, RateLimitTypeOK
          <6>3. HitDatabase(c) => caller'[c].at \in {"count", "idle"}
            BY StepsGo DEF Goes, RateLimitTypeOK
          <6> QED BY <6>2, <6>3
        <5>4. ~ReadBack(c)
          BY <5>1 DEF ReadBack
        <5> QED BY <5>2, <5>3, <5>4
      <4> QED BY <1>3, <4>1 DEF TableHitsMove
    <3>3. y <= x
      BY <1>2, <1>4, <3>1
    <3> HIDE DEF w, x, y
    <3> QED BY <1>1, <1>2, <1>5, <1>6, <3>1, <3>2, <3>3
  <2> QED BY <2>1, <2>2, <2>3, <2>4, <2>5 DEF RequestSteps
<1> QED BY <1>7, <1>8

LEMMA RequestKeepsLimit ==
    ASSUME LimitInv, NEW c \in Callers, RequestSteps(c)
    PROVE  LimitInv'
<1>1. RateLimitTypeOK /\ NothingAhead /\ CacheKeeps /\ LateAreShared /\ Routes
  BY DEF LimitInv, CountsAreKept
<1>2. RateLimitTypeOK' /\ NothingAhead' /\ clock' = clock /\ CacheKeeps' /\ Routes'
  <2>1. RateLimitTypeOK'
    BY <1>1, LimitTypesKept DEF RateLimitNext, RequestSteps
  <2> QED BY <1>1, <2>1, NothingAheadKept, CacheKeepsKept, RoutesKept
<1>3. late \in Nat /\ late' \in Nat /\ (late' = late \/ late' = late + 1)
  BY <1>1, <1>2 DEF RequestSteps, Calls, HitObjectCache, CacheRefuses, HitDatabase, ReadBack,
         TableFails, ReadTransient, WriteTransient, Recorded, RateLimitTypeOK
<1>4. LateAreShared'
  <2>1. PICK lt \in Nat, lx \in Nat : lt + lx <= late /\ TableKeeps(lt) /\ TransientKeeps(lx)
    BY <1>1 DEF LateAreShared
  <2>2. \/ TableKeeps(lt)'
        \/ HitDatabase(c) /\ late' = late + 1 /\ TableKeeps(lt + 1)'
    BY <1>1, <2>1, TableKept
  <2>3. \/ TransientKeeps(lx)'
        \/ WriteTransient(c) /\ late' = late + 1 /\ TransientKeeps(lx + 1)'
    BY <1>1, <2>1, TransientKept
  <2>4. ~(HitDatabase(c) /\ WriteTransient(c))
    BY DEF HitDatabase, WriteTransient
  <2>5. \E mt, mx \in Nat : mt + mx <= late' /\ TableKeeps(mt)' /\ TransientKeeps(mx)'
    <3>1. CASE TableKeeps(lt)' /\ TransientKeeps(lx)'
      <4>1. lt + lx <= late'
        BY <1>3, <2>1
      <4> QED BY <3>1, <4>1
    <3>2. CASE late' = late + 1 /\ TableKeeps(lt + 1)' /\ TransientKeeps(lx)'
      <4>1. lt + 1 \in Nat /\ (lt + 1) + lx <= late'
        BY <1>3, <2>1, <3>2
      <4> QED BY <3>2, <4>1
    <3>3. CASE late' = late + 1 /\ TableKeeps(lt)' /\ TransientKeeps(lx + 1)'
      <4>1. lx + 1 \in Nat /\ lt + (lx + 1) <= late'
        BY <1>3, <2>1, <3>3
      <4> QED BY <3>3, <4>1
    <3> QED BY <2>2, <2>3, <2>4, <3>1, <3>2, <3>3
  <2> QED BY <2>5 DEF LateAreShared
<1>5. CountsAreKept'
  BY <1>2, <1>4 DEF CountsAreKept
<1>6. fallen \subseteq fallen'
  BY DEF RequestSteps, Calls, HitObjectCache, CacheRefuses, HitDatabase, ReadBack, TableFails,
         ReadTransient, WriteTransient
<1>7. \A v \in Windows : v # clock => Through(v)' <= Through(v) + (late' - late)
  BY <1>1, OverKept
<1> QED BY <1>2, <1>3, <1>5, <1>6, <1>7, AllThroughNext

LEMMA PurgeKeepsLimit == LimitInv /\ Purge => LimitInv'
<1> SUFFICES ASSUME LimitInv, Purge PROVE LimitInv'
  OBVIOUS
<1>1. /\ RateLimitTypeOK /\ NothingAhead /\ CacheKeeps /\ LateAreShared /\ Routes /\ LimitNumbers
      /\ RateLimitTypeOK'
  BY LimitTypes, LimitTypesKept DEF LimitInv, CountsAreKept, RateLimitNext
<1>2. UNCHANGED <<extCache, clock, caller, calls, byCache, byTable, byTransient, fallen, crossed,
                  late>>
  BY DEF Purge
<1>3. clock \in Nat /\ bucket.window \in Nat /\ transientState.window \in Nat
  BY <1>1 DEF LimitNumbers
<1>4. NothingAhead'
  BY <1>1, <1>2, <1>3 DEF NothingAhead, Purge, NoHits
<1>5. CacheKeeps'
  <2>1. \A w \in Windows : w >= clock => counters'[w] = counters[w]
    BY <1>1, LimitBounds DEF Purge, RateLimitTypeOK
  <2> QED BY <1>1, <1>2, <2>1 DEF CacheKeeps
<1>6. Routes'
  BY <1>1, <1>2 DEF Routes
<1>7. CountedBy(bucket)' = CountedBy(bucket)
  BY <1>2, <1>3 DEF CountedBy, Purge, NoHits
<1>8. /\ CountedBy(transientState)' = CountedBy(transientState)
      /\ Increment(transientState', clock) = Increment(transientState, clock)
  BY <1>2, <1>3 DEF CountedBy, Increment, Purge, NoHits
<1>9. LateAreShared'
  <2>1. PICK lt \in Nat, lx \in Nat : lt + lx <= late /\ TableKeeps(lt) /\ TransientKeeps(lx)
    BY <1>1 DEF LateAreShared
  <2>2. TableKeeps(lt)'
    <3>1. TableHits(clock)' = TableHits(clock)
      BY <1>2 DEF TableHits, OwedTo, Waiting
    <3> QED BY <1>2, <1>7, <2>1, <3>1 DEF TableKeeps, Cap
  <2>3. TransientKeeps(lx)'
    <3>1. Increment(transientState, clock)' = Increment(transientState', clock)
      BY <1>2 DEF Increment
    <3> QED BY <1>2, <1>8, <2>1, <3>1 DEF TransientKeeps, Cap
  <2> QED BY <1>2, <2>1, <2>2, <2>3 DEF LateAreShared
<1>10. AllThrough'
  <2>1. \A w \in Windows : Through(w)' = Through(w) /\ Cap(late + Falls(w))' = Cap(late + Falls(w))
    BY <1>2 DEF Through, TableHits, OwedTo, Waiting, Falls, Fell, Cap
  <2> QED BY <2>1 DEF AllThrough, LimitInv
<1> QED BY <1>1, <1>4, <1>5, <1>6, <1>9, <1>10 DEF LimitInv, CountsAreKept

\* A new window begins with nothing let through, counted or on its way.
LEMMA WindowKeepsLimit == LimitInv /\ WindowPasses => LimitInv'
<1> SUFFICES ASSUME LimitInv, WindowPasses PROVE LimitInv'
  OBVIOUS
<1>1. /\ RateLimitTypeOK /\ NothingAhead /\ CacheKeeps /\ LateAreShared /\ Routes /\ LimitNumbers
      /\ RateLimitTypeOK'
  BY LimitTypes, LimitTypesKept DEF LimitInv, CountsAreKept, RateLimitNext
<1>2. UNCHANGED <<extCache, counters, bucket, transientState, caller, calls, byCache, byTable,
                  byTransient, fallen, crossed, late>>
  BY DEF WindowPasses
<1>3. clock \in Nat /\ clock' = clock + 1 /\ clock' \in Windows /\ late \in Nat
  BY <1>1 DEF LimitNumbers, WindowPasses, RateLimitTypeOK
<1>4. /\ bucket.window \in Nat /\ transientState.window \in Nat
      /\ \A c \in Callers : caller[c].window \in Nat /\ caller[c].window <= clock
      /\ bucket.window <= clock /\ transientState.window <= clock
  BY <1>1 DEF LimitNumbers, NothingAhead
<1>5. NothingAhead'
  <2>1. \A w \in Windows : w > clock' => w > clock
    BY <1>3, LimitBounds
  <2>2. /\ bucket.window <= clock' /\ transientState.window <= clock'
        /\ \A c \in Callers : caller[c].window <= clock'
    BY <1>3, <1>4
  <2>3. \A w \in Windows : w > clock' => byCache[w] = 0 /\ byTable[w] = 0 /\ byTransient[w] = 0
    BY <1>1, <2>1 DEF NothingAhead
  <2> QED BY <1>2, <2>2, <2>3 DEF NothingAhead
<1>6. CacheKeeps'
  <2>1. \A w \in Windows : w >= clock' => w >= clock
    BY <1>3, LimitBounds
  <2> QED BY <1>1, <1>2, <2>1 DEF CacheKeeps
<1>7. Routes'
  BY <1>1, <1>2 DEF Routes
<1>8. byTable[clock'] = 0 /\ byTransient[clock'] = 0
  <2>1. clock' > clock
    BY <1>3
  <2> QED BY <1>1, <1>3, <2>1 DEF NothingAhead
<1>9. Cap(0) = MaxHits /\ MaxHits \in Nat
  BY LimitBounds DEF Cap
<1>10. TableKeeps(0)'
  <2>1. TableHits(clock)' = 0
    <3>1. Waiting(clock)' = {}
      BY <1>2, <1>3, <1>4 DEF Waiting
    <3> QED BY <1>2, <1>8, <3>1, FS_EmptySet DEF TableHits, OwedTo
  <2>2. CountedBy(bucket)' = 0
    BY <1>2, <1>3, <1>4 DEF CountedBy
  <2>3. Cap(0)' = MaxHits
    BY <1>9 DEF Cap
  <2> QED BY <1>9, <2>1, <2>2, <2>3 DEF TableKeeps
<1>11. ASSUME NEW lx \in Nat, TransientKeeps(lx) PROVE TransientKeeps(0)'
  <2>1. CASE crossed
    BY <1>2, <2>1 DEF TransientKeeps
  <2>2. CASE ~crossed
    <3>1. \A c, d \in Callers : caller[c].at = "write" /\ caller[d].at = "write" => c = d
      BY <1>11, <2>2 DEF TransientKeeps
    <3>2. CountedBy(transientState)' = 0
      BY <1>2, <1>3, <1>4 DEF CountedBy
    <3>3. Cap(0)' = MaxHits
      BY <1>9 DEF Cap
    <3>4. \A c \in Callers : caller[c].window # clock'
      BY <1>3, <1>4
    <3> QED BY <1>2, <1>8, <1>9, <3>1, <3>2, <3>3, <3>4 DEF TransientKeeps
  <2> QED BY <2>1, <2>2
<1>12. LateAreShared'
  <2>1. \E lx \in Nat : TransientKeeps(lx)
    BY <1>1 DEF LateAreShared
  <2>2. TransientKeeps(0)'
    BY <1>11, <2>1
  <2>3. 0 + 0 <= late' /\ 0 \in Nat
    BY <1>2, <1>3
  <2> QED BY <1>10, <2>2, <2>3 DEF LateAreShared
<1>13. AllThrough'
  <2>1. \A w \in Windows : Through(w)' = Through(w) /\ Cap(late + Falls(w))' = Cap(late + Falls(w))
    BY <1>2 DEF Through, TableHits, OwedTo, Waiting, Falls, Fell, Cap
  <2> QED BY <2>1 DEF AllThrough, LimitInv
<1> QED BY <1>1, <1>5, <1>6, <1>7, <1>12, <1>13 DEF LimitInv, CountsAreKept

LEMMA InitLimit == RateLimitInit => LimitInv
<1> SUFFICES ASSUME RateLimitInit PROVE LimitInv
  OBVIOUS
<1>1. RateLimitTypeOK
  <2>1. NoHits \in [window : Windows, hits : Nat] /\ 0 \in 0..MaxCalls
        /\ NotCalling \in [at : {"idle", "cache", "table", "count", "transient", "write"},
                           window : Windows, read : Nat]
    BY LimitBounds DEF NoHits, NotCalling
  <2> QED BY <2>1, LimitBounds DEF RateLimitInit, RateLimitTypeOK
<1>2. clock = 0 /\ late = 0 /\ 0 \in Windows
  BY LimitBounds DEF RateLimitInit
<1>3. NothingAhead
  BY <1>2 DEF RateLimitInit, NothingAhead, NoHits, NotCalling
<1>4. CacheKeeps
  BY LimitBounds DEF RateLimitInit, CacheKeeps
<1>5. Routes
  BY DEF RateLimitInit, Routes, NotCalling
<1>6. \A w \in Windows : OwedTo(w) = 0
  <2>1. \A w \in Windows : Waiting(w) = {}
    BY DEF RateLimitInit, Waiting, NotCalling
  <2> QED BY <2>1, FS_EmptySet DEF OwedTo
<1>7. Cap(0) = MaxHits /\ MaxHits \in Nat
  BY LimitBounds DEF Cap
<1>8. TableKeeps(0)
  <2>1. TableHits(clock) = 0 /\ CountedBy(bucket) = 0
    BY <1>2, <1>6 DEF RateLimitInit, TableHits, CountedBy, NoHits
  <2> QED BY <1>7, <2>1 DEF TableKeeps
<1>9. TransientKeeps(0)
  <2>1. byTransient[clock] = 0 /\ CountedBy(transientState) = 0
    BY <1>2 DEF RateLimitInit, CountedBy, NoHits
  <2>2. \A c \in Callers : caller[c].at # "write"
    BY DEF RateLimitInit, NotCalling
  <2> QED BY <1>7, <2>1, <2>2 DEF TransientKeeps
<1>10. LateAreShared
  BY <1>2, <1>8, <1>9 DEF LateAreShared
<1>11. ASSUME NEW w \in Windows PROVE Through(w) <= Cap(late + Falls(w))
  <2>1. Through(w) = 0
    BY <1>6, <1>11 DEF RateLimitInit, Through, TableHits
  <2>2. Falls(w) \in Nat
    BY DEF Falls, Fell
  <2>3. Cap(late + Falls(w)) \in Nat
    BY <1>2, <2>2, CapGrows
  <2> QED BY <2>1, <2>3
<1> QED BY <1>1, <1>3, <1>4, <1>5, <1>10, <1>11 DEF LimitInv, CountsAreKept, AllThrough

LEMMA LimitStep == LimitInv /\ [RateLimitNext]_limitVars => LimitInv'
<1> SUFFICES ASSUME LimitInv, [RateLimitNext]_limitVars PROVE LimitInv'
  OBVIOUS
<1>1. CASE UNCHANGED limitVars
  BY <1>1 DEF limitVars, LimitInv, CountsAreKept, RateLimitTypeOK, NothingAhead, CacheKeeps,
              LateAreShared, TableKeeps, TransientKeeps, Routes, AllThrough, Through, TableHits,
              OwedTo, Waiting, CountedBy, Increment, Cap, Falls, Fell
<1>2. ASSUME NEW c \in Callers, RequestSteps(c) PROVE LimitInv'
  BY <1>2, RequestKeepsLimit
<1> QED BY <1>1, <1>2, PurgeKeepsLimit, WindowKeepsLimit DEF RateLimitNext, RequestSteps

\* The counts in the cache, the row and the transient bound what each lets through, over
\* any steps of any requests (RateLimitStore::hit()).
THEOREM LimitInvariant == RateLimitSpec => []LimitInv
BY InitLimit, LimitStep, PTL DEF RateLimitSpec

\* RateLimiter::enforce(): however the calls overlap, whichever way each of them falls
\* from the cache to the table to the transient, and however late it is recorded, a window
\* lets through its limit once for each count its hits were split into.
THEOREM LimitIsKept == RateLimitSpec => []LimitHolds
<1>1. LimitInv => LimitHolds
  <2> SUFFICES ASSUME LimitInv, NEW w \in Windows
               PROVE  byCache[w] + byTable[w] + (IF crossed THEN 0 ELSE byTransient[w])
                         <= MaxHits * (1 + late + Fell("cache", w) + Fell("table", w))
    BY DEF LimitHolds
  <2>1. RateLimitTypeOK /\ LimitNumbers /\ Through(w) <= Cap(late + Falls(w))
    BY LimitTypes DEF LimitInv, CountsAreKept, AllThrough
  <2>2. Cap(late + Falls(w)) = MaxHits * (1 + late + Fell("cache", w) + Fell("table", w))
    <3>1. late \in Nat /\ Fell("cache", w) \in Nat /\ Fell("table", w) \in Nat
      BY <2>1 DEF LimitNumbers, Fell
    <3>2. 1 + (late + (Fell("cache", w) + Fell("table", w)))
             = 1 + late + Fell("cache", w) + Fell("table", w)
      BY <3>1
    <3> QED BY <3>2 DEF Cap, Falls
  <2>3. byCache[w] + byTable[w] + (IF crossed THEN 0 ELSE byTransient[w]) <= Through(w)
    BY <2>1 DEF LimitNumbers, Through, TableHits
  <2>4. /\ byCache[w] + byTable[w] + (IF crossed THEN 0 ELSE byTransient[w]) \in Nat
        /\ Through(w) \in Nat
    BY <2>1 DEF LimitNumbers
  <2>5. Cap(late + Falls(w)) \in Nat
    <3>1. late + Falls(w) \in Nat
      BY <2>1 DEF LimitNumbers
    <3> QED BY <3>1, CapGrows
  <2> QED BY <2>1, <2>2, <2>3, <2>4, <2>5
<1> QED BY <1>1, LimitInvariant, PTL

-----------------------------------------------------------------------------
(* The chunks of an assignment. *)

\* How many members come before a user, and those that the first chunks have.
Place(u) == Cardinality({v \in members : v < u})
Before(n) == {u \in members : Place(u) < n}

\* What the chunks so far have come to, while the group stays the same.
ChunksFollow ==
    /\ dialog.at = "asks" => slice = {} /\ reached = Before(dialog.offset)
    /\ dialog.at = "waits" => /\ reached \cup slice = Before(dialog.offset + Chunk)
                              /\ next = NextOffset(dialog.offset)
    /\ dialog.at = "done" => slice = {} /\ reached = members

\* How many signatures of the template a user has.
HasFrom(u) == from[u].linked + from[u].detached

\* While a user is looked up that had none, what the user has by now is the user's own.
LookupIsSound ==
    /\ dialog.at = "asks" => slice = {}
    /\ lookup = NoLookup \/ lookup.user \in slice
    /\ \A u \in Users : lookup.user = u =>
          /\ lookup.was = "none" => HasFrom(u) <= onTop[u]
          /\ lookup.now = "detached" => from[u].detached > 0

AssignInv ==
    /\ TemplateAssignmentTypeOK
    /\ \A u \in Users : HasFrom(u) <= 1 + onTop[u]
    /\ LookupIsSound
    /\ ~moved => ChunksFollow

LEMMA AssignBounds ==
    /\ Users \subseteq Nat /\ 0 \notin Users /\ IsFiniteSet(Users) /\ Chunk \in Nat /\ Chunk > 0
    /\ MaxSubmits \in Nat /\ MaxMoves \in Nat /\ MaxOwnActs \in Nat
BY TemplateAssignmentAssumption

\* Every member has a place below their number: what follows the last chunk is nobody.
LEMMA PlacesBelow ==
    ASSUME members \subseteq Users
    PROVE  /\ Cardinality(members) \in Nat
           /\ \A u \in members : Place(u) \in Nat /\ Place(u) < Cardinality(members)
<1>1. IsFiniteSet(members)
  BY AssignBounds, FS_Subset
<1>2. ASSUME NEW u \in members
      PROVE  Place(u) \in Nat /\ Place(u) < Cardinality(members)
  <2> DEFINE S == {v \in members : v < u}
  <2>1. S \subseteq members /\ u \in members /\ u \notin S
    BY AssignBounds
  <2> HIDE DEF S
  <2>2. /\ IsFiniteSet(S) /\ Cardinality(S) <= Cardinality(members)
        /\ Cardinality(S) = Cardinality(members) => S = members
    BY <1>1, <2>1, FS_Subset
  <2>3. Cardinality(S) \in Nat /\ Cardinality(members) \in Nat
    BY <1>1, <2>2, FS_CardinalityType
  <2>4. Cardinality(S) # Cardinality(members)
    BY <2>1, <2>2
  <2>5. Cardinality(S) < Cardinality(members)
    BY <2>2, <2>3, <2>4
  <2> QED BY <2>3, <2>5 DEF Place, S
<1> QED BY <1>1, <1>2, FS_CardinalityType

LEMMA InitAssign == TemplateAssignmentInit => AssignInv
<1> SUFFICES ASSUME TemplateAssignmentInit PROVE AssignInv
  OBVIOUS
<1>1. /\ from \in [Users -> [linked : Nat, detached : Nat]] /\ onTop \in [Users -> Nat]
      /\ \A u \in Users : HasFrom(u) = 0 /\ onTop[u] = 0
      /\ lookup = NoLookup /\ lookup.user = 0 /\ lookup.was = "none" /\ lookup.now = "none"
  BY DEF TemplateAssignmentInit, NoLookup, HasFrom
<1>4. LookupIsSound /\ \A u \in Users : HasFrom(u) <= 1 + onTop[u]
  BY <1>1, AssignBounds DEF LookupIsSound, TemplateAssignmentInit
<1>2. /\ members \subseteq Users /\ moves \in 0..MaxMoves /\ submits \in 0..MaxSubmits
      /\ slice \subseteq Users /\ next \in Nat /\ ownActs \in 0..MaxOwnActs
      /\ reached \subseteq Users /\ moved \in BOOLEAN
  <2>1. members \subseteq Users /\ slice \subseteq Users /\ reached \subseteq Users /\ moved \in BOOLEAN
    BY DEF TemplateAssignmentInit
  <2>2. moves \in 0..MaxMoves /\ submits \in 0..MaxSubmits /\ next \in Nat /\ ownActs \in 0..MaxOwnActs
    BY AssignBounds DEF TemplateAssignmentInit
  <2> QED BY <2>1, <2>2
<1>3. /\ dialog \in [at : {"form", "asks", "waits", "done", "error"},
                     mode : {"linked", "copy"}, offset : Nat]
      /\ dialog.at = "form"
  BY DEF TemplateAssignmentInit
<1> QED BY <1>1, <1>2, <1>3, <1>4 DEF AssignInv, TemplateAssignmentTypeOK, ChunksFollow, NoLookup

LEMMA SubmitStep == \A mode \in {"linked", "copy"} : AssignInv /\ Submit(mode) => AssignInv'
<1> SUFFICES ASSUME NEW mode \in {"linked", "copy"}, AssignInv, Submit(mode) PROVE AssignInv'
  OBVIOUS
<1>1. TemplateAssignmentTypeOK'
  <2>1. submits' \in 0..MaxSubmits
    BY AssignBounds DEF Submit, AssignInv, TemplateAssignmentTypeOK
  <2>2. dialog' \in [at : {"form", "asks", "waits", "done", "error"},
                     mode : {"linked", "copy"}, offset : Nat]
    BY DEF Submit
  <2>3. /\ UNCHANGED <<members, moves, slice, next, lookup, from, ownActs, onTop>>
        /\ reached' = {} /\ moved' = FALSE
    BY DEF Submit
  <2> QED BY <2>1, <2>2, <2>3 DEF AssignInv, TemplateAssignmentTypeOK
<1>2. Before(0)' = {}
  <2>1. members' \subseteq Users
    BY DEF Submit, AssignInv, TemplateAssignmentTypeOK
  <2>2. members' = members
    BY DEF Submit
  <2>3. \A u \in members : Place(u) \in Nat
    BY <2>1, <2>2, PlacesBelow
  <2> QED BY <2>2, <2>3 DEF Before, Place
<1>3. ChunksFollow'
  BY <1>2 DEF Submit, ChunksFollow
<1> QED BY <1>1, <1>3 DEF Submit, AssignInv, LookupIsSound, HasFrom

\* The next chunk is the users whose places follow those of the last one.
LEMMA BeginAssignmentStep == AssignInv /\ Begin => AssignInv'
<1> SUFFICES ASSUME AssignInv, Begin PROVE AssignInv'
  OBVIOUS
<1>1. /\ UNCHANGED <<members, moves, submits, lookup, from, ownActs, onTop, reached, moved>>
      /\ dialog.at = "asks"
  BY DEF Begin
<1>2. members \subseteq Users /\ dialog.offset \in Nat
  BY DEF AssignInv, TemplateAssignmentTypeOK
<1>3. CASE members = {}
  BY <1>1, <1>3 DEF Begin, AssignInv, TemplateAssignmentTypeOK, ChunksFollow, LookupIsSound, HasFrom
<1>4. CASE members # {}
  <2>1. /\ dialog' = [dialog EXCEPT !.at = "waits"]
        /\ slice' = SliceAt(dialog.offset) /\ next' = NextOffset(dialog.offset)
    BY <1>4 DEF Begin
  <2>2. NextOffset(dialog.offset) \in Nat /\ SliceAt(dialog.offset) \subseteq members
    BY <1>2, AssignBounds DEF NextOffset, SliceAt
  <2>3. TemplateAssignmentTypeOK'
    BY <1>1, <1>2, <2>1, <2>2 DEF AssignInv, TemplateAssignmentTypeOK
  <2>4. ASSUME ~moved PROVE ChunksFollow'
    <3>1. dialog'.at = "waits" /\ dialog'.offset = dialog.offset
      BY <2>1 DEF AssignInv, TemplateAssignmentTypeOK
    <3>2. reached = Before(dialog.offset)
      BY <1>1, <2>4 DEF AssignInv, ChunksFollow
    <3>3. Before(dialog.offset) \cup SliceAt(dialog.offset) = Before(dialog.offset + Chunk)
      <4>1. \A u \in members : Place(u) \in Nat
        BY <1>2, PlacesBelow
      <4>2. SliceAt(dialog.offset) = {u \in members : dialog.offset <= Place(u) /\ Place(u) < dialog.offset + Chunk}
        BY DEF SliceAt, Place
      <4> HIDE DEF Place
      <4>3. \A u \in members : Place(u) < dialog.offset + Chunk <=>
               \/ Place(u) < dialog.offset
               \/ dialog.offset <= Place(u) /\ Place(u) < dialog.offset + Chunk
        BY <1>2, <4>1, AssignBounds
      <4> QED BY <4>2, <4>3 DEF Before
    <3>4. \A n : Before(n)' = Before(n)
      BY <1>1 DEF Before, Place
    <3>5. NextOffset(dialog.offset)' = NextOffset(dialog.offset)'
      OBVIOUS
    <3>6. \A n : NextOffset(n)' = NextOffset(n)
      BY <1>1 DEF NextOffset
    <3> QED BY <1>1, <2>1, <3>1, <3>2, <3>3, <3>4, <3>6 DEF ChunksFollow
  <2>5. LookupIsSound' /\ \A u \in Users : HasFrom(u)' <= 1 + onTop'[u]
    <3>1. lookup = NoLookup /\ lookup' = lookup /\ dialog'.at = "waits"
      BY <1>1, <2>1 DEF AssignInv, LookupIsSound, TemplateAssignmentTypeOK
    <3>2. \A u \in Users : HasFrom(u)' = HasFrom(u) /\ onTop'[u] = onTop[u]
      BY <1>1 DEF HasFrom
    <3> QED BY <3>1, <3>2, <1>1, AssignBounds DEF AssignInv, LookupIsSound, NoLookup
  <2> QED BY <1>1, <2>3, <2>4, <2>5 DEF AssignInv
<1> QED BY <1>3, <1>4

\* The lookup says what the user has.
LEMMA LookUpStep == AssignInv /\ LookUp => AssignInv'
<1> SUFFICES ASSUME AssignInv, LookUp PROVE AssignInv'
  OBVIOUS
<1> DEFINE u == Min(slice)
<1>1. u \in slice /\ u \in Users
  BY SmallestOne, AssignBounds DEF LookUp, AssignInv, TemplateAssignmentTypeOK
<1>2. /\ lookup' = [user |-> u, was |-> Latest(from[u]), now |-> Latest(from[u])]
      /\ UNCHANGED <<members, moves, dialog, submits, slice, next, from, ownActs, onTop,
                     reached, moved>>
  BY DEF LookUp
<1> HIDE DEF u
<1>3. /\ Latest(from[u]) \in {"none", "linked", "detached"}
      /\ Latest(from[u]) = "none" => HasFrom(u) = 0
      /\ Latest(from[u]) = "detached" => from[u].detached > 0
  <2>1. from[u].linked \in Nat /\ from[u].detached \in Nat
    BY <1>1 DEF AssignInv, TemplateAssignmentTypeOK
  <2>2. CASE from[u].linked > 0
    BY <2>2 DEF Latest
  <2>3. CASE ~(from[u].linked > 0) /\ from[u].detached > 0
    BY <2>3 DEF Latest
  <2>4. CASE ~(from[u].linked > 0) /\ ~(from[u].detached > 0)
    <3>1. Latest(from[u]) = "none"
      BY <2>4, Zenon DEF Latest
    <3> QED BY <2>1, <2>4, <3>1 DEF HasFrom
  <2> QED BY <2>2, <2>3, <2>4
<1>4. TemplateAssignmentTypeOK'
  BY <1>1, <1>2, <1>3 DEF AssignInv, TemplateAssignmentTypeOK
<1>5. LookupIsSound'
  <2>1. onTop[u] \in Nat
    BY <1>1 DEF AssignInv, TemplateAssignmentTypeOK
  <2> QED BY <1>1, <1>2, <1>3, <2>1 DEF LookupIsSound, AssignInv, HasFrom
<1>6. ChunksFollow => ChunksFollow'
  BY <1>2 DEF ChunksFollow, Before, Place, NextOffset
<1> QED BY <1>2, <1>4, <1>5, <1>6 DEF AssignInv, HasFrom

\* One signature more for a user who had none, or the same number.
LEMMA AssignOneCounts ==
    ASSUME AssignInv, NEW u \in Users, lookup.user = u
    PROVE  LET g == AssignOne(from[u], dialog.mode)
           IN  /\ g \in [linked : Nat, detached : Nat]
               /\ g.linked + g.detached <= 1 + onTop[u]
<1> DEFINE f == from[u]
<1>1. /\ f \in [linked : Nat, detached : Nat] /\ f.linked \in Nat /\ f.detached \in Nat
      /\ f.linked + f.detached <= 1 + onTop[u] /\ onTop[u] \in Nat
      /\ lookup.was = "none" => f.linked + f.detached <= onTop[u]
      /\ lookup.now = "detached" => f.detached > 0
  BY DEF AssignInv, TemplateAssignmentTypeOK, LookupIsSound, HasFrom
<1> HIDE DEF f
<1> DEFINE mode == dialog.mode
<1> HIDE DEF mode
<1> SUFFICES LET g == AssignOne(f, mode)
             IN  /\ g \in [linked : Nat, detached : Nat]
                 /\ g.linked + g.detached <= 1 + onTop[u]
  BY DEF f, mode
<1>2. CASE lookup.was = "none" /\ mode = "linked"
  BY <1>1, <1>2 DEF AssignOne
<1>3. CASE lookup.was = "none" /\ mode = "copy"
  BY <1>1, <1>3 DEF AssignOne
<1>4. CASE /\ ~(lookup.was = "none" /\ mode = "linked")
           /\ ~(lookup.was = "none" /\ mode = "copy")
           /\ lookup.now = "detached" /\ mode = "linked"
  <2>1. AssignOne(f, mode) = [linked |-> f.linked + 1, detached |-> f.detached - 1]
    BY <1>4, Zenon DEF AssignOne
  <2> QED BY <1>1, <1>4, <2>1
<1>5. CASE /\ ~(lookup.was = "none" /\ mode = "linked")
           /\ ~(lookup.was = "none" /\ mode = "copy")
           /\ ~(lookup.now = "detached" /\ mode = "linked")
  <2>1. AssignOne(f, mode) = f
    BY <1>5, Zenon DEF AssignOne
  <2> QED BY <1>1, <2>1
<1> QED BY <1>2, <1>3, <1>4, <1>5

\* A user of the slice gets the signature unless there was one.
LEMMA AssignStep == AssignInv /\ Assign => AssignInv'
<1> SUFFICES ASSUME AssignInv, Assign PROVE AssignInv'
  OBVIOUS
<1>1. PICK u : u = lookup.user
  OBVIOUS
<1>2. /\ slice' = slice \ {u} /\ reached' = reached \cup {u} /\ lookup' = NoLookup
      /\ from' = [from EXCEPT ![u] = AssignOne(@, dialog.mode)] \/ from' = from
      /\ UNCHANGED <<members, moves, dialog, submits, next, ownActs, onTop, moved>>
  BY <1>1 DEF Assign
<1>3. u \in slice /\ u \in Users
  BY <1>1 DEF Assign, AssignInv, LookupIsSound, TemplateAssignmentTypeOK
<1>4. /\ from' \in [Users -> [linked : Nat, detached : Nat]]
      /\ \A v \in Users : from'[v].linked + from'[v].detached <= 1 + onTop[v]
  <2>1. PICK g \in [linked : Nat, detached : Nat] :
          /\ g.linked + g.detached <= 1 + onTop[u]
          /\ from' = [from EXCEPT ![u] = g] \/ from' = from
    BY <1>1, <1>2, <1>3, AssignOneCounts DEF AssignInv, TemplateAssignmentTypeOK, HasFrom
  <2> QED BY <1>3, <2>1 DEF AssignInv, TemplateAssignmentTypeOK, HasFrom
<1>5. TemplateAssignmentTypeOK' /\ LookupIsSound'
  BY <1>2, <1>3, <1>4, AssignBounds DEF AssignInv, TemplateAssignmentTypeOK, LookupIsSound, NoLookup
<1>6. ASSUME ~moved PROVE ChunksFollow'
  <2>1. ChunksFollow /\ slice # {}
    BY <1>3, <1>6 DEF AssignInv
  <2>2. reached' \cup slice' = reached \cup slice
    BY <1>2, <1>3
  <2>3. \A n : Before(n)' = Before(n) /\ NextOffset(n)' = NextOffset(n)
    BY <1>2 DEF Before, Place, NextOffset
  <2>4. dialog.at = "waits" => ChunksFollow'
    BY <1>2, <2>1, <2>2, <2>3 DEF ChunksFollow
  <2>5. dialog.at = "done" => reached' = members
    BY <1>2, <1>3, <2>1 DEF ChunksFollow
  <2> QED BY <1>2, <2>1, <2>4, <2>5 DEF ChunksFollow
<1> QED BY <1>2, <1>4, <1>5, <1>6 DEF AssignInv, HasFrom

\* After the last chunk there is nobody.
LEMMA AnswerStep == AssignInv /\ Answer => AssignInv'
<1> SUFFICES ASSUME AssignInv, Answer PROVE AssignInv'
  OBVIOUS
<1>1. /\ UNCHANGED <<members, moves, submits, slice, next, lookup, from, ownActs, onTop,
                     reached, moved>>
      /\ dialog.at = "waits" /\ slice = {}
      /\ dialog' = IF next = 0 THEN [dialog EXCEPT !.at = "done"]
                   ELSE [dialog EXCEPT !.at = "asks", !.offset = next]
  BY DEF Answer
<1>2. members \subseteq Users /\ dialog.offset \in Nat /\ next \in Nat
  BY DEF AssignInv, TemplateAssignmentTypeOK
<1>3. TemplateAssignmentTypeOK'
  BY <1>1, <1>2 DEF AssignInv, TemplateAssignmentTypeOK
<1>4. ASSUME ~moved PROVE ChunksFollow'
  <2>1. reached = Before(dialog.offset + Chunk) /\ next = NextOffset(dialog.offset)
    BY <1>1, <1>4 DEF AssignInv, ChunksFollow
  <2>2. \A n : Before(n)' = Before(n)
    BY <1>1 DEF Before, Place
  <2>3. CASE next = 0
    <3>1. Cardinality(members) <= dialog.offset + Chunk /\ Cardinality(members) \in Nat
      BY <1>2, <2>1, <2>3, PlacesBelow, AssignBounds DEF NextOffset
    <3>2. \A u \in members : Place(u) \in Nat /\ Place(u) < Cardinality(members)
      BY <1>2, PlacesBelow
    <3>3. Before(dialog.offset + Chunk) = members
      <4> HIDE DEF Place
      <4>1. \A u \in members : Place(u) < dialog.offset + Chunk
        BY <1>2, <3>1, <3>2, AssignBounds
      <4> QED BY <4>1 DEF Before
    <3>4. dialog'.at = "done"
      BY <1>1, <2>3 DEF AssignInv, TemplateAssignmentTypeOK
    <3> QED BY <1>1, <2>1, <3>3, <3>4 DEF ChunksFollow
  <2>4. CASE next # 0
    <3>1. next = dialog.offset + Chunk
      BY <2>1, <2>4 DEF NextOffset
    <3>2. dialog'.at = "asks" /\ dialog'.offset = next
      BY <1>1, <2>4 DEF AssignInv, TemplateAssignmentTypeOK
    <3> QED BY <1>1, <2>1, <2>2, <3>1, <3>2 DEF ChunksFollow
  <2> QED BY <2>3, <2>4
<1> QED BY <1>1, <1>3, <1>4 DEF AssignInv, LookupIsSound, HasFrom

\* The request fails, or somebody moves.
LEMMA FailStep == AssignInv /\ (Fail \/ \E u \in Users : MoveMember(u)) => AssignInv'
<1> SUFFICES ASSUME AssignInv, Fail \/ \E u \in Users : MoveMember(u) PROVE AssignInv'
  OBVIOUS
<1>1. CASE Fail
  <2>1. /\ dialog' = [dialog EXCEPT !.at = "error"]
        /\ UNCHANGED <<members, moves, submits, next, from, ownActs, onTop, reached, moved>>
        /\ (slice' = {} /\ lookup' = NoLookup) \/ UNCHANGED <<slice, lookup>>
    BY <1>1 DEF Fail
  <2>2. TemplateAssignmentTypeOK' /\ dialog'.at = "error"
    BY <2>1, AssignBounds DEF AssignInv, TemplateAssignmentTypeOK, NoLookup
  <2>3. LookupIsSound'
    BY <2>1, <2>2, AssignBounds DEF AssignInv, LookupIsSound, NoLookup, HasFrom
  <2> QED BY <2>1, <2>2, <2>3 DEF AssignInv, ChunksFollow, HasFrom
<1>2. ASSUME NEW u \in Users, MoveMember(u) PROVE AssignInv'
  <2>1. members' \subseteq Users /\ moves' \in 0..MaxMoves /\ moved' = TRUE
    BY <1>2, AssignBounds DEF MoveMember, AssignInv, TemplateAssignmentTypeOK
  <2>2. UNCHANGED <<dialog, submits, slice, next, lookup, from, ownActs, onTop, reached>>
    BY <1>2 DEF MoveMember
  <2> QED BY <2>1, <2>2 DEF AssignInv, TemplateAssignmentTypeOK, LookupIsSound, HasFrom
<1> QED BY <1>1, <1>2

\* What a member does to one row: it stays with the rows of the user, whether the
\* lookup saw it or not.
LEMMA RowChanges ==
    ASSUME AssignInv, NEW u \in Users, NEW g \in [linked : Nat, detached : Nat],
           from' = [from EXCEPT ![u] = g],
           NEW c \in {"linked", "detached"}, NEW n \in {"detached", "gone"}, Becomes(u, c, n),
           g.linked + g.detached <= HasFrom(u),
           c = "detached" => n = "gone" /\ g.detached = from[u].detached - 1,
           c = "linked" => g.detached >= from[u].detached,
           c = "linked" /\ n = "detached" => g.detached > 0,
           UNCHANGED <<members, moves, dialog, submits, slice, next, reached, moved, onTop>>,
           ownActs' \in 0..MaxOwnActs
    PROVE  AssignInv'
<1>1. /\ from \in [Users -> [linked : Nat, detached : Nat]] /\ onTop \in [Users -> Nat]
      /\ lookup \in [user : {0} \cup Users, was : {"none", "linked", "detached"},
                     now : {"none", "linked", "detached", "gone"}]
      /\ \A v \in Users : v # 0 /\ HasFrom(v) \in Nat /\ HasFrom(v) <= 1 + onTop[v]
  BY TemplateAssignmentAssumption DEF AssignInv, TemplateAssignmentTypeOK, HasFrom
<1>2. /\ from' \in [Users -> [linked : Nat, detached : Nat]]
      /\ from'[u] = g /\ HasFrom(u)' = g.linked + g.detached
      /\ \A v \in Users : v # u => from'[v] = from[v] /\ HasFrom(v)' = HasFrom(v)
      /\ \A v \in Users : HasFrom(v)' <= HasFrom(v) /\ HasFrom(v)' \in Nat
  <2>1. from'[u] = g /\ \A v \in Users : v # u => from'[v] = from[v]
    BY <1>1
  <2> QED BY <1>1, <2>1 DEF HasFrom
<1>3. \/ lookup' = lookup
      \/ lookup.user = u /\ lookup.now = c /\ lookup' = [lookup EXCEPT !.now = n]
  BY DEF Becomes, LookedAt
<1>4. TemplateAssignmentTypeOK'
  BY <1>1, <1>2, <1>3 DEF AssignInv, TemplateAssignmentTypeOK
<1>5. lookup' = NoLookup \/ lookup'.user \in slice'
  BY <1>1, <1>3 DEF AssignInv, LookupIsSound, NoLookup
<1>6. ASSUME NEW v \in Users, lookup'.user = v, lookup'.was = "none" PROVE HasFrom(v)' <= onTop'[v]
  <2>1. lookup.user = v /\ lookup.was = "none"
    BY <1>1, <1>3, <1>6
  <2>2. HasFrom(v) <= onTop[v] /\ onTop[v] \in Nat
    BY <1>1, <2>1 DEF AssignInv, LookupIsSound
  <2> QED BY <1>1, <1>2, <2>2
<1>7. ASSUME NEW v \in Users, lookup'.user = v, lookup'.now = "detached"
      PROVE  from'[v].detached > 0
  <2>1. CASE v # u
    BY <1>1, <1>2, <1>3, <1>7, <2>1 DEF AssignInv, LookupIsSound
  <2>2. CASE v = u /\ c = "linked"
    <3>1. CASE lookup' = lookup
      <4>1. from[u].detached > 0 /\ from[u].detached \in Nat /\ g.detached \in Nat
        BY <1>1, <1>7, <2>2, <3>1 DEF AssignInv, LookupIsSound
      <4> QED BY <1>2, <2>2, <4>1
    <3>2. CASE lookup' = [lookup EXCEPT !.now = n]
      BY <1>1, <1>2, <1>7, <2>2, <3>2
    <3> QED BY <1>3, <3>1, <3>2
  <2>3. CASE v = u /\ c = "detached"
    <3>1. lookup' = lookup /\ lookup.user = u /\ lookup.now = "detached"
      BY <1>1, <1>3, <1>7, <2>3
    <3>2. from[u]["detached"] > 1
      BY <2>3, <3>1, <1>1 DEF Becomes, LookedAt
    <3> QED BY <1>1, <1>2, <2>3, <3>2
  <2> QED BY <2>1, <2>2, <2>3
<1>8. LookupIsSound'
  BY <1>5, <1>6, <1>7 DEF AssignInv, LookupIsSound
<1>9. \A v \in Users : HasFrom(v)' <= 1 + onTop'[v]
  BY <1>1, <1>2
<1>10. ChunksFollow => ChunksFollow'
  BY DEF ChunksFollow, Before, Place, NextOffset
<1> QED BY <1>4, <1>8, <1>9, <1>10 DEF AssignInv

\* Members delete and detach what they have, and make more.
LEMMA OwnStep == \A u \in Users : AssignInv /\ OwnAct(u) => AssignInv'
<1> SUFFICES ASSUME NEW u \in Users, AssignInv, OwnAct(u) PROVE AssignInv'
  OBVIOUS
<1>1. /\ from \in [Users -> [linked : Nat, detached : Nat]] /\ ownActs' \in 0..MaxOwnActs
      /\ UNCHANGED <<members, moves, dialog, submits, slice, next, reached, moved>>
      /\ onTop \in [Users -> Nat]
  BY AssignBounds DEF OwnAct, AssignInv, TemplateAssignmentTypeOK
<1>2. from[u].linked \in Nat /\ from[u].detached \in Nat /\ HasFrom(u) = from[u].linked + from[u].detached
  BY <1>1 DEF HasFrom
<1>3. CASE TakesAway(u)
  <2>1. UNCHANGED onTop
    BY <1>3 DEF TakesAway
  <2>2. CASE from[u].linked > 0 /\ Becomes(u, "linked", "gone") /\ from' = [from EXCEPT ![u].linked = @ - 1]
    <3>1. PICK g : g = [from[u] EXCEPT !.linked = from[u].linked - 1]
      OBVIOUS
    <3>2. g \in [linked : Nat, detached : Nat] /\ from' = [from EXCEPT ![u] = g]
          /\ g.linked = from[u].linked - 1 /\ g.detached = from[u].detached
      BY <1>1, <1>2, <2>2, <3>1
    <3>3. g.linked + g.detached <= HasFrom(u) /\ g.detached >= from[u].detached
      BY <1>2, <3>2
    <3> QED BY <1>1, <2>1, <2>2, <3>2, <3>3, RowChanges
  <2>3. CASE from[u].detached > 0 /\ Becomes(u, "detached", "gone") /\ from' = [from EXCEPT ![u].detached = @ - 1]
    <3>1. PICK g : g = [from[u] EXCEPT !.detached = from[u].detached - 1]
      OBVIOUS
    <3>2. g \in [linked : Nat, detached : Nat] /\ from' = [from EXCEPT ![u] = g]
          /\ g.linked = from[u].linked /\ g.detached = from[u].detached - 1
      BY <1>1, <1>2, <2>3, <3>1
    <3>3. g.linked + g.detached <= HasFrom(u)
      BY <1>2, <3>2
    <3> QED BY <1>1, <2>1, <2>3, <3>2, <3>3, RowChanges
  <2> QED BY <1>3, <2>2, <2>3 DEF TakesAway
<1>4. CASE Unlinks(u)
  <2>1. /\ from[u].linked > 0 /\ Becomes(u, "linked", "detached") /\ UNCHANGED onTop
        /\ from' = [from EXCEPT ![u] = [linked |-> from[u].linked - 1,
                                        detached |-> from[u].detached + 1]]
    BY <1>4 DEF Unlinks
  <2>2. PICK g : g = [linked |-> from[u].linked - 1, detached |-> from[u].detached + 1]
    OBVIOUS
  <2>3. g \in [linked : Nat, detached : Nat] /\ from' = [from EXCEPT ![u] = g]
        /\ g.linked = from[u].linked - 1 /\ g.detached = from[u].detached + 1
    BY <1>2, <2>1, <2>2
  <2>4. /\ g.linked + g.detached <= HasFrom(u)
        /\ g.detached >= from[u].detached /\ g.detached > 0
    BY <1>2, <2>3
  <2> QED BY <1>1, <2>1, <2>3, <2>4, RowChanges
<1>5. CASE MakesOwn(u)
  <2>1. PICK kind \in {"linked", "detached"} :
           from' = [from EXCEPT ![u] = [from[u] EXCEPT ![kind] = from[u][kind] + 1]]
    BY <1>5 DEF MakesOwn
  <2>2. PICK g \in [linked : Nat, detached : Nat] :
           /\ from' = [from EXCEPT ![u] = g]
           /\ g.linked + g.detached = HasFrom(u) + 1 /\ g.detached >= from[u].detached
    <3>1. PICK g : g = [from[u] EXCEPT ![kind] = from[u][kind] + 1]
      OBVIOUS
    <3>2. from[u] \in [linked : Nat, detached : Nat]
      BY <1>1
    <3>3. /\ g \in [linked : Nat, detached : Nat]
          /\ g.linked + g.detached = from[u].linked + from[u].detached + 1
          /\ g.detached >= from[u].detached
      BY <2>1, <3>1, <3>2
    <3> QED BY <1>2, <2>1, <3>1, <3>3
  <2>3. /\ lookup' = lookup
        /\ onTop' = IF HasFrom(u) > 0 \/ (lookup.user = u /\ lookup.was = "none")
                    THEN [onTop EXCEPT ![u] = onTop[u] + 1] ELSE onTop
    BY <1>2, <1>5 DEF MakesOwn
  <2>4. /\ from' \in [Users -> [linked : Nat, detached : Nat]]
        /\ HasFrom(u)' = HasFrom(u) + 1 /\ from'[u].detached >= from[u].detached
        /\ \A v \in Users : v # u => HasFrom(v)' = HasFrom(v) /\ from'[v] = from[v]
    BY <1>1, <1>2, <2>2 DEF HasFrom
  <2>5. /\ onTop' \in [Users -> Nat]
        /\ \A v \in Users : v # u => onTop'[v] = onTop[v]
        /\ IF HasFrom(u) > 0 \/ (lookup.user = u /\ lookup.was = "none")
           THEN onTop'[u] = onTop[u] + 1 ELSE onTop'[u] = onTop[u]
    BY <1>1, <2>3
  <2>6. TemplateAssignmentTypeOK'
    BY <1>1, <2>3, <2>4, <2>5 DEF AssignInv, TemplateAssignmentTypeOK
  <2>7. \A v \in Users : HasFrom(v)' <= 1 + onTop'[v]
    <3>1. \A v \in Users : HasFrom(v) <= 1 + onTop[v] /\ onTop[v] \in Nat
      BY <1>1 DEF AssignInv
    <3> QED BY <1>2, <2>4, <2>5, <3>1
  <2>8. LookupIsSound'
    <3>1. /\ dialog.at = "asks" => slice = {}
          /\ lookup = NoLookup \/ lookup.user \in slice
      BY DEF AssignInv, LookupIsSound
    <3>2. ASSUME NEW v \in Users, lookup.user = v, lookup.was = "none"
          PROVE  HasFrom(v)' <= onTop'[v]
      <4>1. HasFrom(v) <= onTop[v] /\ onTop[v] \in Nat
        BY <1>1, <3>2 DEF AssignInv, LookupIsSound
      <4> QED BY <1>2, <2>4, <2>5, <3>2, <4>1
    <3>3. ASSUME NEW v \in Users, lookup.user = v, lookup.now = "detached"
          PROVE  from'[v].detached > 0
      <4>1. from[v].detached > 0
        BY <3>3 DEF AssignInv, LookupIsSound
      <4>2. from'[v].detached >= from[v].detached
        BY <1>2, <2>4
      <4>3. from[v].detached \in Nat /\ from'[v].detached \in Nat
        BY <1>1, <2>4
      <4> QED BY <4>1, <4>2, <4>3
    <3> QED BY <1>1, <2>3, <3>1, <3>2, <3>3 DEF LookupIsSound
  <2>9. ChunksFollow => ChunksFollow'
    BY <1>1 DEF ChunksFollow, Before, Place, NextOffset
  <2> QED BY <1>1, <2>6, <2>7, <2>8, <2>9 DEF AssignInv
<1> QED BY <1>3, <1>4, <1>5 DEF OwnAct

LEMMA AssignmentStep == AssignInv /\ [TemplateAssignmentNext]_assignVars => AssignInv'
<1> SUFFICES ASSUME AssignInv, [TemplateAssignmentNext]_assignVars PROVE AssignInv'
  OBVIOUS
<1>1. CASE UNCHANGED assignVars
  BY <1>1 DEF assignVars, AssignInv, TemplateAssignmentTypeOK, ChunksFollow, Before, Place,
              NextOffset, LookupIsSound, HasFrom
<1> QED BY <1>1, SubmitStep, BeginAssignmentStep, LookUpStep, AssignStep, AnswerStep, FailStep,
           OwnStep DEF TemplateAssignmentNext

\* The inductive invariant of an assignment.
THEOREM AssignInvariant == TemplateAssignmentSpec => []AssignInv
BY InitAssign, AssignmentStep, PTL DEF TemplateAssignmentSpec

\* For every group and size of a chunk: when the dialog is done, every member of a group
\* that stayed the same has been come to, and nobody has the template more than once, but
\* for what they made while they had one or while they were being assigned one.
THEOREM EveryMemberAssigned == TemplateAssignmentSpec => []MembersAssigned
<1>1. AssignInv => MembersAssigned
  BY DEF AssignInv, ChunksFollow, MembersAssigned, HasFrom
<1> QED BY <1>1, AssignInvariant, PTL

-----------------------------------------------------------------------------
(* The directory. *)

\* What a request has to tell, and what it knows of groups, at each place.
WorkIsSound(w) ==
    /\ w.at \in {"idle", "updated", "deletes", "row", "group", "creates", "joins"} => w.tell = {}
    /\ w.at = "writes" => w.add \cup w.remove \subseteq w.tell
    /\ w.at \in {"saved", "group", "creates", "joins", "joined"} => w.user \in Staff /\ w.group \in Groups
    /\ w.at = "deletes" => w.group \in Groups
    /\ w.at \in {"idle", "writes", "tells", "updated", "deletes"} =>
          \A g \in Groups : w.ids[g] = "unknown"
    /\ \A g \in Groups : w.ids[g] = "found" => groupFooter[g] # 0

DirectoryTypes == DirectoryTypeOK /\ \A c \in Clerks : WorkIsSound(task[c])

LEMMA DirectoryBounds ==
    /\ Groups \subseteq Nat /\ Staff \subseteq Nat /\ Staff # {} /\ Profiles \subseteq Nat /\ Profiles # {}
    /\ 0 \notin Groups /\ 0 \notin Staff /\ FirstGroups \subseteq Groups
    /\ Footers \subseteq Nat /\ 0 \notin Footers /\ 1 \notin Footers /\ NoOverride = 1
    /\ MaxTasks \in Nat /\ MaxImported \in Nat /\ MaxTaskDeaths \in Nat
BY DirectoryAssumption DEF NoOverride

LEMMA NoTaskIsAWork ==
    /\ NoTask \in Works
    /\ NoTask.at = "idle" /\ NoTask.tell = {} /\ NoTask.group = 0
    /\ \A g \in Groups : NoTask.ids[g] = "unknown"
BY DirectoryBounds DEF NoTask, Works

\* The inputs of a user are of their type.
LEMMA InputsTypes ==
    ASSUME groupFooter \in [Groups -> {0, NoOverride} \cup Footers],
           profileOf \in [Staff -> Profiles], NEW u \in Staff
    PROVE  InputsOf(u) \in RenderInputs
<1> DEFINE own == {g \in GroupsOf(u) : groupFooter[g] > NoOverride}
<1>1. FooterOf(u) \in {0} \cup Footers
  <2>1. own \subseteq Groups
    BY DEF GroupsOf
  <2>2. CASE own = {}
    BY <2>2 DEF FooterOf
  <2>3. CASE own # {}
    <3>1. Min(own) \in own
      BY <2>1, <2>3, DirectoryBounds, SmallestOne
    <3>2. groupFooter[Min(own)] \in Footers
      <4> HIDE DEF own
      <4>1. \A g \in Groups : groupFooter[g] > NoOverride => groupFooter[g] \in Footers
        BY DirectoryBounds
      <4> QED BY <2>1, <3>1, <4>1 DEF own
    <3> QED BY <2>3, <3>2 DEF FooterOf
  <2> QED BY <2>2, <2>3
<1> QED BY <1>1 DEF InputsOf, RenderInputs

\* A user whose groups and profile stay the same has the same inputs, when no footer of
\* those groups changes: that of a group that gets into being is the site's.
LEMMA InputsStay ==
    ASSUME NEW u \in Staff, DirectoryTypeOK,
           \A g \in Groups : <<u, g>> \in belongs' <=> <<u, g>> \in belongs,
           profileOf'[u] = profileOf[u],
           \A g \in GroupsOf(u) : groupFooter'[g] = groupFooter[g]
    PROVE  InputsOf(u)' = InputsOf(u)
<1>1. GroupsOf(u)' = GroupsOf(u)
  BY DEF GroupsOf
<1>2. FooterOf(u)' = FooterOf(u)
  <2> DEFINE own == {g \in GroupsOf(u) : groupFooter[g] > NoOverride}
  <2>1. own' = own
    BY <1>1
  <2>2. own \subseteq GroupsOf(u) /\ own \subseteq Groups
    BY DEF GroupsOf
  <2>3. own # {} => Min(own) \in own
    BY <2>2, DirectoryBounds, SmallestOne
  <2>4. FooterOf(u) = IF own = {} THEN 0 ELSE groupFooter[Min(own)]
    BY DEF FooterOf
  <2>5. FooterOf(u)' = IF own' = {} THEN 0 ELSE groupFooter'[Min(own')]
    BY DEF FooterOf
  <2> HIDE DEF own
  <2> QED BY <2>1, <2>2, <2>3, <2>4, <2>5
<1> QED BY <1>1, <1>2 DEF InputsOf

LEMMA InitDirectory == DirectoryInit => DirectoryTypes /\ ChangesReachHtml
<1> SUFFICES ASSUME DirectoryInit PROVE DirectoryTypes /\ ChangesReachHtml
  OBVIOUS
<1>1. /\ groupFooter \in [Groups -> {0, NoOverride} \cup Footers]
      /\ \A g \in FirstGroups : groupFooter[g] # 0
  BY DirectoryBounds DEF DirectoryInit
<1>2. Min(Staff) \in Staff /\ Min(Profiles) \in Profiles
  BY DirectoryBounds, SmallestOne
<1>3. belongs \subseteq Staff \X Groups /\ \A m \in belongs : Exists(m[2])
  BY <1>1, <1>2, DirectoryBounds DEF DirectoryInit, Exists
<1>4. profileOf \in [Staff -> Profiles]
  BY <1>2 DEF DirectoryInit
<1>5. compiledOf \in [Staff -> RenderInputs] /\ \A u \in Staff : compiledOf[u] = InputsOf(u)
  BY <1>1, <1>4, InputsTypes DEF DirectoryInit
<1>6. task \in [Clerks -> Works] /\ \A c \in Clerks : task[c] = NoTask
  BY NoTaskIsAWork DEF DirectoryInit
<1>7. tasks \in 0..(MaxTasks + MaxTaskDeaths) /\ untold = {} /\ freshOf \in [Staff -> BOOLEAN]
  BY DirectoryBounds DEF DirectoryInit
<1>8. \A c \in Clerks : WorkIsSound(task[c])
  BY <1>6, NoTaskIsAWork DEF WorkIsSound
<1> QED BY <1>1, <1>3, <1>4, <1>5, <1>6, <1>7, <1>8
        DEF DirectoryTypes, DirectoryTypeOK, ChangesReachHtml

-----------------------------------------------------------------------------
(* Most steps are of one process, which tells whomever it changes something for, and *)
(* still has to tell whom it had to before.                                          *)

Moves(c, w) ==
    /\ task' = [task EXCEPT ![c] = w]
    /\ w \in Works /\ WorkIsSound(w)'
    /\ w.at \notin {"deletes", "updated"} /\ task[c].at # "updated"
    /\ task[c].tell \subseteq w.tell
    /\ UNCHANGED directoryHtml
    /\ tasks' \in 0..(MaxTasks + MaxTaskDeaths)
    /\ profileOf' \in [Staff -> Profiles]
    /\ belongs' \subseteq Staff \X Groups
    /\ \A m \in belongs' : groupFooter'[m[2]] # 0
    /\ groupFooter' \in [Groups -> {0, NoOverride} \cup Footers]
    /\ \A g \in Groups : groupFooter[g] # 0 => groupFooter'[g] = groupFooter[g]
    /\ \A u \in Staff \ w.tell :
          /\ profileOf'[u] = profileOf[u]
          /\ \A g : <<u, g>> \in belongs' <=> <<u, g>> \in belongs

LEMMA OneTaskTypes ==
    ASSUME DirectoryTypes, NEW c \in Clerks, NEW w,
           task' = [task EXCEPT ![c] = w], w \in Works, WorkIsSound(w)',
           \A g \in Groups : groupFooter[g] # 0 => groupFooter'[g] # 0
    PROVE  /\ \A d \in Clerks : task'[d] = IF d = c THEN w ELSE task[d]
           /\ task' \in [Clerks -> Works]
           /\ \A d \in Clerks : WorkIsSound(task[d])'
<1>1. /\ \A d \in Clerks : task'[d] = IF d = c THEN w ELSE task[d]
      /\ task' \in [Clerks -> Works]
  BY DEF DirectoryTypes, DirectoryTypeOK
<1>2. ASSUME NEW d \in Clerks, d # c PROVE WorkIsSound(task[d])'
  <2>1. task'[d] = task[d] /\ WorkIsSound(task[d])
    BY <1>1, <1>2 DEF DirectoryTypes
  <2> QED BY <2>1 DEF WorkIsSound
<1>3. WorkIsSound(task[c])'
  BY <1>1 DEF WorkIsSound
<1> QED BY <1>1, <1>2, <1>3

LEMMA MovesTypes ==
    ASSUME DirectoryTypes, NEW c \in Clerks, NEW w, Moves(c, w)
    PROVE  DirectoryTypes'
<1>1. task' \in [Clerks -> Works] /\ \A d \in Clerks : WorkIsSound(task[d])'
  BY OneTaskTypes DEF Moves
<1>2. \A m \in belongs' : Exists(m[2])'
  BY DEF Moves, Exists
<1> QED BY <1>1, <1>2 DEF Moves, DirectoryTypes, DirectoryTypeOK, directoryHtml

DeletedAreMarked ==
    \A c \in Clerks : task[c].at = "deletes" =>
        \A u \in MembersOf(task[c].group) :
            freshOf[u] => u \in untold \/ \E d \in Clerks : u \in task[d].tell

LEMMA MovesChanges ==
    ASSUME DirectoryTypes, ChangesReachHtml, DeletedAreMarked,
           NEW c \in Clerks, NEW w, Moves(c, w)
    PROVE  ChangesReachHtml' /\ DeletedAreMarked'
<1>1. \A d \in Clerks : task'[d] = IF d = c THEN w ELSE task[d]
  BY DEF Moves, DirectoryTypes, DirectoryTypeOK
<1>2. UNCHANGED <<compiledOf, freshOf, untold>>
  BY DEF Moves, directoryHtml
<1>3. ASSUME NEW u \in Staff, freshOf[u], compiledOf[u] # InputsOf(u)'
      PROVE  u \in untold \/ \E d \in Clerks : u \in Concerned(task[d])'
  <2>1. CASE u \in w.tell
    BY <1>1, <2>1 DEF Moves, Concerned
  <2>2. CASE u \notin w.tell
    <3>1. \A g : <<u, g>> \in belongs' <=> <<u, g>> \in belongs
      BY <2>2 DEF Moves
    <3>2. InputsOf(u)' = InputsOf(u)
      <4>1. \A g \in GroupsOf(u) : groupFooter'[g] = groupFooter[g]
        BY DEF Moves, DirectoryTypes, DirectoryTypeOK, GroupsOf, Exists
      <4> QED BY <2>2, <3>1, <4>1, InputsStay DEF Moves, DirectoryTypes
    <3>3. u \in untold \/ \E d \in Clerks : u \in Concerned(task[d])
      BY <1>3, <3>2 DEF ChangesReachHtml
    <3>4. ASSUME NEW d \in Clerks, u \in Concerned(task[d]) PROVE u \in Concerned(task[d])'
      <4>1. d # c
        BY <2>2, <3>4 DEF Moves, Concerned
      <4> QED BY <1>1, <3>1, <3>4, <4>1 DEF Concerned, MembersOf
    <3> QED BY <3>3, <3>4
  <2> QED BY <2>1, <2>2
<1>4. ASSUME NEW d \in Clerks, task'[d].at = "deletes", NEW u \in MembersOf(task[d].group)', freshOf[u]
      PROVE  u \in untold \/ \E e \in Clerks : u \in task'[e].tell
  <2>1. CASE u \in w.tell
    BY <1>1, <2>1
  <2>2. CASE u \notin w.tell
    <3>1. d # c /\ task'[d] = task[d]
      BY <1>1, <1>4 DEF Moves
    <3>2. u \in MembersOf(task[d].group)
      BY <1>4, <2>2, <3>1 DEF MembersOf, Moves
    <3>3. u \in untold \/ \E e \in Clerks : u \in task[e].tell
      BY <1>4, <3>1, <3>2 DEF DeletedAreMarked
    <3> QED BY <1>1, <2>2, <3>3 DEF Moves
  <2> QED BY <2>1, <2>2
<1> QED BY <1>2, <1>3, <1>4 DEF ChangesReachHtml, DeletedAreMarked

\* A step that only changes what its process is at.
LEMMA MovesAlone ==
    ASSUME DirectoryTypes, NEW c \in Clerks, NEW w,
           task' = [task EXCEPT ![c] = w], w \in Works, WorkIsSound(w),
           w.at \notin {"deletes", "updated"}, task[c].at # "updated",
           task[c].tell \subseteq w.tell,
           UNCHANGED <<directoryTables, directoryHtml>>,
           tasks' \in 0..(MaxTasks + MaxTaskDeaths)
    PROVE  Moves(c, w)
<1>1. UNCHANGED <<groupFooter, belongs, profileOf, directoryHtml>>
  BY DEF directoryTables
<1>2. WorkIsSound(w)'
  BY <1>1 DEF WorkIsSound
<1> QED BY <1>1, <1>2 DEF Moves, DirectoryTypes, DirectoryTypeOK, Exists

\* A request that begins.
LEMMA RequestBegins ==
    ASSUME DirectoryTypes, NEW c \in Clerks, Requested(c)
    PROVE  /\ task[c].at = "idle" /\ task[c].tell = {}
           /\ tasks' \in 0..(MaxTasks + MaxTaskDeaths)
<1>1. task[c].at = "idle" /\ WorkIsSound(task[c])
  BY DEF Requested, DirectoryTypes
<1>2. tasks \in Nat /\ tasks < MaxTasks /\ tasks' = tasks + 1
  BY DirectoryBounds DEF Requested, DirectoryTypes, DirectoryTypeOK
<1> QED BY <1>1, <1>2, DirectoryBounds DEF WorkIsSound

LEMMA SetsMembersMoves ==
    ASSUME DirectoryTypes, NEW c \in Clerks, NEW g \in Groups, NEW wanted \in SUBSET Staff,
           SetsMembers(c, g, wanted)
    PROVE  \E w : Moves(c, w)
<1>1. PICK w : w = [NoTask EXCEPT
            !.at = "writes", !.group = g,
            !.add = wanted \ MembersOf(g), !.remove = MembersOf(g) \ wanted,
            !.tell = (wanted \cup MembersOf(g)) \ (wanted \cap MembersOf(g))]
  OBVIOUS
<1>2. MembersOf(g) \subseteq Staff
  BY DEF MembersOf
<1>3. w \in Works
  BY <1>1, <1>2, NoTaskIsAWork DEF Works
<1>4. /\ w.at = "writes" /\ w.ids = NoTask.ids
      /\ w.add = wanted \ MembersOf(g) /\ w.remove = MembersOf(g) \ wanted
      /\ w.tell = (wanted \cup MembersOf(g)) \ (wanted \cap MembersOf(g))
  BY <1>1, NoTaskIsAWork DEF Works
<1>5. WorkIsSound(w)
  BY <1>4, NoTaskIsAWork DEF WorkIsSound
<1>6. /\ task' = [task EXCEPT ![c] = w] /\ Requested(c)
      /\ UNCHANGED <<directoryTables, directoryHtml>>
  BY <1>1 DEF SetsMembers
<1> QED BY <1>3, <1>4, <1>5, <1>6, RequestBegins, MovesAlone

LEMMA WritesMemberMoves ==
    ASSUME DirectoryTypes, NEW c \in Clerks, WritesMember(c)
    PROVE  \E w : Moves(c, w)
<1>1. task[c] \in Works /\ WorkIsSound(task[c]) /\ task[c].at = "writes"
  BY DEF DirectoryTypes, DirectoryTypeOK, WritesMember
<1>2. task[c].add \cup task[c].remove \subseteq task[c].tell
  BY <1>1 DEF WorkIsSound
<1>3. PICK u, w :
          /\ u \in task[c].tell /\ u \in Staff
          /\ w = [task[c] EXCEPT !.add = @ \ {u}] \/ w = [task[c] EXCEPT !.remove = @ \ {u}]
          /\ task' = [task EXCEPT ![c] = w]
          /\ belongs' = belongs \cup (IF Exists(task[c].group) THEN {<<u, task[c].group>>} ELSE {})
             \/ belongs' = belongs \ {<<u, task[c].group>>}
  <2>1. task[c].add \subseteq Staff /\ task[c].remove \subseteq Staff
    BY <1>1 DEF Works
  <2>2. CASE task[c].add # {}
    <3>1. Min(task[c].add) \in task[c].add
      BY <2>1, <2>2, DirectoryBounds, SmallestOne
    <3>2. /\ belongs' = belongs \cup (IF Exists(task[c].group) THEN {<<Min(task[c].add), task[c].group>>} ELSE {})
          /\ task' = [task EXCEPT ![c] = [task[c] EXCEPT !.add = @ \ {Min(task[c].add)}]]
      BY <2>2 DEF WritesMember
    <3> QED BY <1>2, <2>1, <3>1, <3>2
  <2>3. CASE task[c].add = {}
    <3>1. task[c].remove # {}
      BY <2>3 DEF WritesMember
    <3>2. Min(task[c].remove) \in task[c].remove
      BY <2>1, <3>1, DirectoryBounds, SmallestOne
    <3>3. /\ belongs' = belongs \ {<<Min(task[c].remove), task[c].group>>}
          /\ task' = [task EXCEPT ![c] = [task[c] EXCEPT !.remove = @ \ {Min(task[c].remove)}]]
      BY <2>3 DEF WritesMember
    <3> QED BY <1>2, <2>1, <3>2, <3>3
  <2> QED BY <2>2, <2>3
<1>4. /\ w \in Works /\ w.at = "writes" /\ w.ids = task[c].ids /\ w.tell = task[c].tell
      /\ w.add \subseteq task[c].add /\ w.remove \subseteq task[c].remove
  BY <1>1, <1>3 DEF Works
<1>5. UNCHANGED <<groupFooter, profileOf, directoryHtml, tasks>>
  BY DEF WritesMember
<1>6. WorkIsSound(w)'
  BY <1>1, <1>2, <1>4, <1>5 DEF WorkIsSound
<1>7. belongs' \subseteq Staff \X Groups /\ \A m \in belongs' : groupFooter'[m[2]] # 0
  BY <1>3, <1>5 DEF DirectoryTypes, DirectoryTypeOK, Exists
<1>8. \A v \in Staff \ w.tell : \A g : <<v, g>> \in belongs' <=> <<v, g>> \in belongs
  BY <1>3, <1>4
<1> QED BY <1>1, <1>3, <1>4, <1>5, <1>6, <1>7, <1>8 DEF Moves, DirectoryTypes, DirectoryTypeOK

LEMMA MembersWrittenMoves ==
    ASSUME DirectoryTypes, NEW c \in Clerks, MembersWritten(c)
    PROVE  \E w : Moves(c, w)
<1>1. task[c] \in Works /\ WorkIsSound(task[c]) /\ task[c].at = "writes"
  BY DEF DirectoryTypes, DirectoryTypeOK, MembersWritten
<1>2. PICK w : w = [task[c] EXCEPT !.at = "tells"]
  OBVIOUS
<1>3. w \in Works /\ w.at = "tells" /\ w.tell = task[c].tell /\ w.ids = task[c].ids
  BY <1>1, <1>2 DEF Works
<1>4. /\ task' = [task EXCEPT ![c] = w]
      /\ UNCHANGED <<directoryTables, directoryHtml, tasks>>
  BY <1>2 DEF MembersWritten
<1>5. WorkIsSound(w)
  BY <1>1, <1>3 DEF WorkIsSound
<1> QED BY <1>1, <1>3, <1>4, <1>5, MovesAlone DEF DirectoryTypes, DirectoryTypeOK

LEMMA SetsGroupsMoves ==
    ASSUME DirectoryTypes, NEW c \in Clerks, NEW u \in Staff, NEW wanted \in SUBSET Groups,
           SetsGroups(c, u, wanted)
    PROVE  \E w : Moves(c, w)
<1>1. PICK w : w = [NoTask EXCEPT !.at = "tells", !.tell = {u}]
  OBVIOUS
<1>2. w \in Works /\ w.at = "tells" /\ w.tell = {u} /\ w.ids = NoTask.ids
  BY <1>1, NoTaskIsAWork DEF Works
<1>3. /\ task' = [task EXCEPT ![c] = w] /\ Requested(c)
      /\ belongs' = {m \in belongs : m[1] # u} \cup ({u} \X wanted)
      /\ UNCHANGED <<groupFooter, profileOf, directoryHtml>>
      /\ \A g \in wanted : groupFooter[g] # 0
  BY <1>1 DEF SetsGroups, Exists
<1>4. WorkIsSound(w)'
  BY <1>2, NoTaskIsAWork DEF WorkIsSound
<1>5. belongs' \subseteq Staff \X Groups /\ \A m \in belongs' : groupFooter'[m[2]] # 0
  BY <1>3 DEF DirectoryTypes, DirectoryTypeOK, Exists
<1>6. \A v \in Staff \ {u} : \A g : <<v, g>> \in belongs' <=> <<v, g>> \in belongs
  BY <1>3
<1> QED BY <1>2, <1>3, <1>4, <1>5, <1>6, RequestBegins DEF Moves, DirectoryTypes, DirectoryTypeOK

LEMMA SavesProfileMoves ==
    ASSUME DirectoryTypes, NEW c \in Clerks, NEW u \in Staff, NEW profile \in Profiles,
           SavesProfile(c, u, profile)
    PROVE  \E w : Moves(c, w)
<1>1. PICK w : w = [NoTask EXCEPT !.at = "tells", !.tell = {u}]
  OBVIOUS
<1>2. w \in Works /\ w.at = "tells" /\ w.tell = {u} /\ w.ids = NoTask.ids
  BY <1>1, NoTaskIsAWork DEF Works
<1>3. /\ task' = [task EXCEPT ![c] = w] /\ Requested(c)
      /\ profileOf' = [profileOf EXCEPT ![u] = profile]
      /\ UNCHANGED <<groupFooter, belongs, directoryHtml>>
  BY <1>1 DEF SavesProfile
<1>4. WorkIsSound(w)'
  BY <1>2, NoTaskIsAWork DEF WorkIsSound
<1>5. /\ profileOf' \in [Staff -> Profiles]
      /\ \A v \in Staff \ {u} : profileOf'[v] = profileOf[v]
  BY <1>3 DEF DirectoryTypes, DirectoryTypeOK
<1> QED BY <1>2, <1>3, <1>4, <1>5, RequestBegins DEF Moves, DirectoryTypes, DirectoryTypeOK, Exists

LEMMA StartsChunkMoves ==
    ASSUME DirectoryTypes, NEW c \in Clerks, NEW rows \in 1..MaxImported, StartsChunk(c, rows)
    PROVE  \E w : Moves(c, w)
<1>1. PICK w : w = [NoTask EXCEPT !.at = "row", !.left = rows]
  OBVIOUS
<1>2. w \in Works /\ w.at = "row" /\ w.tell = {} /\ w.ids = NoTask.ids
  <2>1. rows \in 0..MaxImported
    BY DirectoryBounds
  <2> QED BY <1>1, <2>1, NoTaskIsAWork DEF Works
<1>3. /\ task' = [task EXCEPT ![c] = w] /\ Requested(c)
      /\ UNCHANGED <<directoryTables, directoryHtml>>
  BY <1>1 DEF StartsChunk
<1>4. WorkIsSound(w)
  BY <1>2, NoTaskIsAWork DEF WorkIsSound
<1> QED BY <1>2, <1>3, <1>4, RequestBegins, MovesAlone

LEMMA ImportsProfileMoves ==
    ASSUME DirectoryTypes, NEW c \in Clerks, NEW u \in Staff, NEW g \in Groups,
           NEW profile \in Profiles, ImportsProfile(c, u, g, profile)
    PROVE  \E w : Moves(c, w)
<1>1. /\ task[c] \in Works /\ WorkIsSound(task[c]) /\ task[c].at = "row" /\ task[c].left > 0
      /\ task[c].tell = {}
  BY DEF DirectoryTypes, DirectoryTypeOK, ImportsProfile, WorkIsSound
<1>2. PICK w : w = [task[c] EXCEPT !.left = @ - 1, !.user = u, !.group = g,
                        !.at = IF profileOf[u] = profile THEN "group" ELSE "saved",
                        !.tell = IF profileOf[u] = profile THEN {} ELSE {u}]
  OBVIOUS
<1>3. /\ task' = [task EXCEPT ![c] = w]
      /\ profileOf' = [profileOf EXCEPT ![u] = profile]
      /\ UNCHANGED <<groupFooter, belongs, directoryHtml, tasks>>
  BY <1>2 DEF ImportsProfile
<1>4. task[c].left \in 0..MaxImported /\ task[c].left - 1 \in 0..MaxImported
  BY <1>1, DirectoryBounds DEF Works
<1>5. /\ w \in Works /\ w.user = u /\ w.group = g /\ w.ids = task[c].ids
      /\ w.at = (IF profileOf[u] = profile THEN "group" ELSE "saved")
      /\ w.tell = (IF profileOf[u] = profile THEN {} ELSE {u})
  BY <1>1, <1>2, <1>4 DEF Works
<1>6. WorkIsSound(w)'
  BY <1>1, <1>3, <1>5 DEF WorkIsSound
<1>7. /\ profileOf' \in [Staff -> Profiles]
      /\ \A v \in Staff \ w.tell : profileOf'[v] = profileOf[v]
  BY <1>3, <1>5 DEF DirectoryTypes, DirectoryTypeOK
<1> QED BY <1>1, <1>3, <1>5, <1>6, <1>7 DEF Moves, DirectoryTypes, DirectoryTypeOK, Exists

\* Where the import looks for the group of a row.
LEMMA FindsGroupMoves ==
    ASSUME DirectoryTypes, NEW c \in Clerks, FindsGroup(c)
    PROVE  \E w : Moves(c, w)
<1>1. /\ task[c] \in Works /\ WorkIsSound(task[c]) /\ task[c].at = "group"
      /\ task[c].tell = {} /\ task[c].user \in Staff /\ task[c].group \in Groups
      /\ \A g \in Groups : task[c].ids[g] = "found" => groupFooter[g] # 0
  BY DEF DirectoryTypes, DirectoryTypeOK, FindsGroup, WorkIsSound
<1>2. PICK id \in {"unknown", "found", "none"}, at \in {"row", "joins", "creates"} :
          /\ task' = [task EXCEPT ![c] = [task[c] EXCEPT !.ids[task[c].group] = id, !.at = at]]
          /\ id = "found" => groupFooter[task[c].group] # 0
  <2> DEFINE g == task[c].group
             id == IF task[c].ids[g] # "unknown" THEN task[c].ids[g]
                   ELSE IF Exists(g) THEN "found" ELSE "unknown"
             at == IF id = "none" \/ <<task[c].user, g>> \in belongs THEN "row"
                   ELSE IF id = "found" THEN "joins" ELSE "creates"
  <2>1. task' = [task EXCEPT ![c] = [task[c] EXCEPT !.ids[g] = id, !.at = at]]
    BY DEF FindsGroup
  <2>2. id \in {"unknown", "found", "none"} /\ at \in {"row", "joins", "creates"}
    BY <1>1 DEF Works
  <2>3. id = "found" => groupFooter[g] # 0
    BY <1>1 DEF Exists
  <2> HIDE DEF id, at
  <2> QED BY <2>1, <2>2, <2>3
<1>3. PICK w : w = [task[c] EXCEPT !.ids[task[c].group] = id, !.at = at]
  OBVIOUS
<1>4. /\ w \in Works /\ w.at = at /\ w.tell = {}
      /\ w.user = task[c].user /\ w.group = task[c].group
      /\ w.ids = [task[c].ids EXCEPT ![task[c].group] = id]
  BY <1>1, <1>2, <1>3 DEF Works
<1>5. \A g \in Groups : w.ids[g] = "found" => groupFooter[g] # 0
  BY <1>1, <1>2, <1>4 DEF Works
<1>6. WorkIsSound(w)
  BY <1>1, <1>2, <1>4, <1>5 DEF WorkIsSound
<1>7. task' = [task EXCEPT ![c] = w] /\ UNCHANGED <<directoryTables, directoryHtml, tasks>>
  BY <1>2, <1>3 DEF FindsGroup
<1> QED BY <1>1, <1>2, <1>4, <1>6, <1>7, MovesAlone DEF DirectoryTypes, DirectoryTypeOK

LEMMA CreatesGroupMoves ==
    ASSUME DirectoryTypes, NEW c \in Clerks, CreatesGroup(c)
    PROVE  \E w : Moves(c, w)
<1>1. /\ task[c] \in Works /\ WorkIsSound(task[c]) /\ task[c].at = "creates"
      /\ task[c].tell = {} /\ task[c].user \in Staff /\ task[c].group \in Groups
      /\ \A g \in Groups : task[c].ids[g] = "found" => groupFooter[g] # 0
  BY DEF DirectoryTypes, DirectoryTypeOK, CreatesGroup, WorkIsSound
<1>2. PICK g \in Groups : g = task[c].group
  BY <1>1
<1>3. PICK w : w = [task[c] EXCEPT !.ids[g] = IF Exists(g) THEN "none" ELSE "found",
                                   !.at = IF Exists(g) THEN "row" ELSE "joins"]
  OBVIOUS
<1>4. /\ w \in Works /\ w.at = (IF Exists(g) THEN "row" ELSE "joins") /\ w.tell = {}
      /\ w.user = task[c].user /\ w.group = g
      /\ w.ids = [task[c].ids EXCEPT ![g] = IF Exists(g) THEN "none" ELSE "found"]
  BY <1>1, <1>2, <1>3 DEF Works
<1>5. /\ groupFooter' = [groupFooter EXCEPT ![g] = IF Exists(g) THEN groupFooter[g] ELSE NoOverride]
      /\ task' = [task EXCEPT ![c] = w]
      /\ UNCHANGED <<belongs, profileOf, directoryHtml, tasks>>
  BY <1>2, <1>3 DEF CreatesGroup
<1>6. /\ groupFooter' \in [Groups -> {0, NoOverride} \cup Footers]
      /\ \A h \in Groups : groupFooter[h] # 0 => groupFooter'[h] = groupFooter[h]
      /\ groupFooter'[g] # 0
  BY <1>5, DirectoryBounds DEF DirectoryTypes, DirectoryTypeOK, Exists
<1>7. \A h \in Groups : w.ids[h] = "found" => groupFooter'[h] # 0
  BY <1>1, <1>4, <1>6 DEF Works
<1>8. WorkIsSound(w)'
  BY <1>1, <1>4, <1>7 DEF WorkIsSound
<1>9. \A m \in belongs' : groupFooter'[m[2]] # 0
  BY <1>5, <1>6 DEF DirectoryTypes, DirectoryTypeOK, Exists
<1> QED BY <1>1, <1>4, <1>5, <1>6, <1>8, <1>9 DEF Moves, DirectoryTypes, DirectoryTypeOK

LEMMA JoinsMoves ==
    ASSUME DirectoryTypes, NEW c \in Clerks, Joins(c)
    PROVE  \E w : Moves(c, w)
<1>1. /\ task[c] \in Works /\ WorkIsSound(task[c]) /\ task[c].at = "joins"
      /\ task[c].tell = {} /\ task[c].user \in Staff /\ task[c].group \in Groups
      /\ \A g \in Groups : task[c].ids[g] = "found" => groupFooter[g] # 0
  BY DEF DirectoryTypes, DirectoryTypeOK, Joins, WorkIsSound
<1> DEFINE new == task[c].ids[task[c].group] = "found" /\ task[c].user \notin MembersOf(task[c].group)
<1>2. PICK w : w = [task[c] EXCEPT !.at = IF new THEN "joined" ELSE "row",
                                   !.tell = IF new THEN {task[c].user} ELSE {}]
  OBVIOUS
<1>3. /\ belongs' = belongs \cup (IF new THEN {<<task[c].user, task[c].group>>} ELSE {})
      /\ task' = [task EXCEPT ![c] = w]
      /\ UNCHANGED <<groupFooter, profileOf, directoryHtml, tasks>>
  BY <1>2 DEF Joins
<1>4. new => groupFooter[task[c].group] # 0
  BY <1>1
<1> HIDE DEF new
<1>5. /\ w \in Works /\ w.at = (IF new THEN "joined" ELSE "row")
      /\ w.tell = (IF new THEN {task[c].user} ELSE {})
      /\ w.user = task[c].user /\ w.group = task[c].group /\ w.ids = task[c].ids
  BY <1>1, <1>2 DEF Works
<1>6. WorkIsSound(w)'
  BY <1>1, <1>3, <1>5 DEF WorkIsSound
<1>7. belongs' \subseteq Staff \X Groups /\ \A m \in belongs' : groupFooter'[m[2]] # 0
  BY <1>1, <1>3, <1>4 DEF DirectoryTypes, DirectoryTypeOK, Exists
<1>8. \A v \in Staff \ w.tell : \A g : <<v, g>> \in belongs' <=> <<v, g>> \in belongs
  BY <1>3, <1>5
<1> QED BY <1>1, <1>3, <1>5, <1>6, <1>7, <1>8 DEF Moves, DirectoryTypes, DirectoryTypeOK

LEMMA ChunkEndsMoves ==
    ASSUME DirectoryTypes, NEW c \in Clerks, ChunkEnds(c)
    PROVE  \E w : Moves(c, w)
<1>1. task[c].at = "row" /\ task[c].tell = {}
  BY DEF DirectoryTypes, ChunkEnds, WorkIsSound
<1>2. /\ task' = [task EXCEPT ![c] = NoTask]
      /\ UNCHANGED <<directoryTables, directoryHtml, tasks>>
  BY DEF ChunkEnds
<1>3. WorkIsSound(NoTask)
  BY NoTaskIsAWork DEF WorkIsSound
<1> QED BY <1>1, <1>2, <1>3, NoTaskIsAWork, MovesAlone DEF DirectoryTypes, DirectoryTypeOK

-----------------------------------------------------------------------------
(* The steps that mark, and those of the groups themselves. *)

LEMMA MarksTypes ==
    ASSUME DirectoryTypes, NEW users, Marks(users)
    PROVE  /\ freshOf' \in [Staff -> BOOLEAN] /\ untold' \subseteq Staff
           /\ compiledOf' = compiledOf
           /\ \A u \in Staff : freshOf'[u] => freshOf[u] /\ u \notin users
           /\ \A u \in Staff \ users : u \in untold => u \in untold'
BY DEF Marks, DirectoryTypes, DirectoryTypeOK

LEMMA TellIsConcerned ==
    ASSUME DirectoryTypes, NEW c \in Clerks
    PROVE  /\ task[c].tell \subseteq Concerned(task[c])
           /\ task[c].at \in {"idle", "deletes"} => Concerned(task[c]) = {}
           /\ Concerned(task[c]) \subseteq Staff
BY DEF DirectoryTypes, DirectoryTypeOK, WorkIsSound, Concerned, MembersOf, Works

\* What the HTML was compiled from is still what it would be, when no table changes.
LEMMA SameTables ==
    ASSUME UNCHANGED directoryTables
    PROVE  /\ UNCHANGED <<groupFooter, belongs, profileOf>>
           /\ \A u : InputsOf(u)' = InputsOf(u)
           /\ \A g : MembersOf(g)' = MembersOf(g)
           /\ \A t : Concerned(t)' = Concerned(t)
<1>1. UNCHANGED <<groupFooter, belongs, profileOf>>
  BY DEF directoryTables
<1> QED BY <1>1 DEF InputsOf, FooterOf, GroupsOf, MembersOf, Concerned

LEMMA UpdatesGroupTypes ==
    ASSUME DirectoryTypes, NEW c \in Clerks, NEW g \in Groups,
           NEW footer \in Footers \cup {NoOverride}, UpdatesGroup(c, g, footer)
    PROVE  /\ DirectoryTypes'
           /\ \A d \in Clerks : d # c => task'[d] = task[d]
           /\ task'[c].at = "updated" /\ task'[c].group = g
<1>1. PICK w : w = [NoTask EXCEPT !.at = "updated", !.group = g]
  OBVIOUS
<1>2. w \in Works /\ w.at = "updated" /\ w.group = g /\ w.tell = {} /\ w.ids = NoTask.ids
  BY <1>1, NoTaskIsAWork DEF Works
<1>3. /\ task' = [task EXCEPT ![c] = w] /\ Requested(c)
      /\ groupFooter' = [groupFooter EXCEPT ![g] = footer]
      /\ UNCHANGED <<belongs, profileOf, directoryHtml>>
  BY <1>1 DEF UpdatesGroup
<1>4. /\ groupFooter' \in [Groups -> {0, NoOverride} \cup Footers]
      /\ \A h \in Groups : groupFooter[h] # 0 => groupFooter'[h] # 0
  BY <1>3, DirectoryBounds DEF DirectoryTypes, DirectoryTypeOK
<1>5. WorkIsSound(w)'
  BY <1>2, NoTaskIsAWork DEF WorkIsSound
<1>6. /\ \A d \in Clerks : task'[d] = IF d = c THEN w ELSE task[d]
      /\ task' \in [Clerks -> Works] /\ \A d \in Clerks : WorkIsSound(task[d])'
  BY <1>2, <1>3, <1>4, <1>5, OneTaskTypes
<1>7. \A m \in belongs' : Exists(m[2])'
  BY <1>3, <1>4 DEF DirectoryTypes, DirectoryTypeOK, Exists
<1> QED BY <1>2, <1>3, <1>4, <1>6, <1>7, RequestBegins DEF DirectoryTypes, DirectoryTypeOK, directoryHtml

LEMMA DeletesGroupTypes ==
    ASSUME DirectoryTypes, NEW c \in Clerks, NEW g \in Groups, DeletesGroup(c, g)
    PROVE  /\ DirectoryTypes'
           /\ \A d \in Clerks : d # c => task'[d] = task[d]
           /\ task'[c].at = "deletes" /\ task'[c].group = g
<1>1. PICK w : w = [NoTask EXCEPT !.at = "deletes", !.group = g]
  OBVIOUS
<1>2. w \in Works /\ w.at = "deletes" /\ w.group = g /\ w.tell = {} /\ w.ids = NoTask.ids
  BY <1>1, NoTaskIsAWork DEF Works
<1>3. /\ task' = [task EXCEPT ![c] = w] /\ Requested(c) /\ Marks(MembersOf(g))
      /\ UNCHANGED <<groupFooter, belongs, profileOf>>
  BY <1>1 DEF DeletesGroup, directoryTables
<1>4. WorkIsSound(w)'
  BY <1>2, NoTaskIsAWork DEF WorkIsSound
<1>5. /\ \A d \in Clerks : task'[d] = IF d = c THEN w ELSE task[d]
      /\ task' \in [Clerks -> Works] /\ \A d \in Clerks : WorkIsSound(task[d])'
  BY <1>2, <1>3, <1>4, OneTaskTypes
<1>6. \A m \in belongs' : Exists(m[2])'
  BY <1>3 DEF DirectoryTypes, DirectoryTypeOK, Exists
<1> QED BY <1>2, <1>3, <1>5, <1>6, RequestBegins, MarksTypes DEF DirectoryTypes, DirectoryTypeOK

LEMMA TellsTypes ==
    ASSUME DirectoryTypes, NEW c \in Clerks, Tells(c)
    PROVE  DirectoryTypes' /\ \A d \in Clerks : d # c => task'[d] = task[d]
<1>1. /\ task[c] \in Works /\ WorkIsSound(task[c])
      /\ Marks(Concerned(task[c]))
      /\ UNCHANGED <<groupFooter, belongs, profileOf, tasks>>
  BY DEF DirectoryTypes, DirectoryTypeOK, Tells, directoryTables
<1>2. PICK w : /\ task' = [task EXCEPT ![c] = w]
               /\ w \in Works /\ WorkIsSound(w)
  <2>1. CASE task[c].at = "saved"
    <3>1. PICK w : w = [task[c] EXCEPT !.at = "group", !.tell = {}]
      OBVIOUS
    <3>2. /\ w \in Works /\ w.at = "group" /\ w.tell = {} /\ w.ids = task[c].ids
          /\ w.user = task[c].user /\ w.group = task[c].group
      BY <1>1, <3>1 DEF Works
    <3>3. task' = [task EXCEPT ![c] = w]
      BY <2>1, <3>1 DEF Tells
    <3> QED BY <1>1, <2>1, <3>2, <3>3 DEF WorkIsSound
  <2>2. CASE task[c].at = "joined"
    <3>1. PICK w : w = [task[c] EXCEPT !.at = "row", !.tell = {}]
      OBVIOUS
    <3>2. w \in Works /\ w.at = "row" /\ w.tell = {} /\ w.ids = task[c].ids
      BY <1>1, <3>1 DEF Works
    <3>3. task' = [task EXCEPT ![c] = w]
      BY <2>2, <3>1 DEF Tells
    <3> QED BY <1>1, <3>2, <3>3 DEF WorkIsSound
  <2>3. CASE task[c].at \notin {"saved", "joined"}
    <3>1. task' = [task EXCEPT ![c] = NoTask]
      BY <2>3 DEF Tells
    <3> QED BY <3>1, NoTaskIsAWork DEF WorkIsSound
  <2> QED BY <2>1, <2>2, <2>3
<1>3. WorkIsSound(w)'
  BY <1>1, <1>2 DEF WorkIsSound
<1>4. /\ \A d \in Clerks : task'[d] = IF d = c THEN w ELSE task[d]
      /\ task' \in [Clerks -> Works] /\ \A d \in Clerks : WorkIsSound(task[d])'
  BY <1>1, <1>2, <1>3, OneTaskTypes
<1>5. \A m \in belongs' : Exists(m[2])'
  BY <1>1 DEF DirectoryTypes, DirectoryTypeOK, Exists
<1> QED BY <1>1, <1>4, <1>5, MarksTypes DEF DirectoryTypes, DirectoryTypeOK

LEMMA TaskDiesTypes ==
    ASSUME DirectoryTypes, NEW c \in Clerks, TaskDies(c)
    PROVE  DirectoryTypes' /\ \A d \in Clerks : d # c => task'[d] = task[d]
<1>1. /\ task' = [task EXCEPT ![c] = NoTask]
      /\ untold' = untold \cup Concerned(task[c])
      /\ UNCHANGED <<groupFooter, belongs, profileOf, compiledOf, freshOf>>
  BY DEF TaskDies, directoryTables
<1>2. WorkIsSound(NoTask)'
  BY NoTaskIsAWork DEF WorkIsSound
<1>3. /\ \A d \in Clerks : task'[d] = IF d = c THEN NoTask ELSE task[d]
      /\ task' \in [Clerks -> Works] /\ \A d \in Clerks : WorkIsSound(task[d])'
  BY <1>1, <1>2, NoTaskIsAWork, OneTaskTypes
<1>4. tasks' \in 0..(MaxTasks + MaxTaskDeaths)
  BY DirectoryBounds DEF TaskDies, DirectoryTypes, DirectoryTypeOK
<1>5. untold' \subseteq Staff
  BY <1>1, TellIsConcerned DEF DirectoryTypes, DirectoryTypeOK
<1>6. \A m \in belongs' : Exists(m[2])'
  BY <1>1 DEF DirectoryTypes, DirectoryTypeOK, Exists
<1> QED BY <1>1, <1>3, <1>4, <1>5, <1>6 DEF DirectoryTypes, DirectoryTypeOK

\* A process that loses a group keeps whom it has to tell; it forgets whom it would ask
\* for when it was about to announce the group itself.
LEMMA LosesWork ==
    ASSUME NEW t \in Works, WorkIsSound(t), NEW g \in Groups
    PROVE  /\ Loses(t, g) \in Works
           /\ Loses(t, g).tell = t.tell
           /\ Loses(t, g).at = (IF t.group = g /\ t.at = "deletes" THEN "idle" ELSE t.at)
           /\ Loses(t, g).user = t.user \/ Loses(t, g).at = "idle"
           /\ \/ Loses(t, g).group = t.group
              \/ t.group = g /\ Loses(t, g).at \in {"idle", "writes", "tells", "updated"}
           /\ t.at = "writes" => Loses(t, g).add = t.add /\ Loses(t, g).remove = t.remove
           /\ \A h \in Groups : Loses(t, g).ids[h] = "found" => h # g /\ t.ids[h] = "found"
           /\ \A h \in Groups : t.ids[h] = "unknown" => Loses(t, g).ids[h] = "unknown"
<1>1. CASE t.group = g /\ t.at = "deletes"
  <2>1. Loses(t, g) = NoTask
    BY <1>1 DEF Loses
  <2>2. t.tell = {}
    BY <1>1 DEF WorkIsSound
  <2>3. NoTask.tell = {} /\ NoTask.at = "idle" /\ \A h \in Groups : NoTask.ids[h] = "unknown"
    BY NoTaskIsAWork
  <2> QED BY <1>1, <2>1, <2>2, <2>3, NoTaskIsAWork
<1>2. CASE t.group = g /\ t.at \in {"writes", "tells", "updated"}
  <2>1. Loses(t, g) = [t EXCEPT !.group = 0]
    BY <1>2 DEF Loses
  <2>2. \A h \in Groups : t.ids[h] = "unknown"
    BY <1>2 DEF WorkIsSound
  <2>3. /\ Loses(t, g) \in Works /\ Loses(t, g).tell = t.tell /\ Loses(t, g).at = t.at
        /\ Loses(t, g).user = t.user /\ Loses(t, g).ids = t.ids
        /\ Loses(t, g).add = t.add /\ Loses(t, g).remove = t.remove
    BY <2>1 DEF Works
  <2> QED BY <1>2, <2>2, <2>3
<1>3. CASE ~(t.group = g /\ t.at \in {"deletes", "writes", "tells", "updated"})
  <2>1. PICK id \in {"unknown", "found", "none"} :
          /\ id = IF t.ids[g] = "found" THEN "none" ELSE t.ids[g]
          /\ Loses(t, g) = [t EXCEPT !.ids[g] = id]
    <3>1. Loses(t, g) = [t EXCEPT !.ids[g] = IF t.ids[g] = "found" THEN "none" ELSE t.ids[g]]
      BY <1>3 DEF Loses
    <3>2. (IF t.ids[g] = "found" THEN "none" ELSE t.ids[g]) \in {"unknown", "found", "none"}
      BY DEF Works
    <3> QED BY <3>1, <3>2
  <2>2. /\ Loses(t, g) \in Works /\ Loses(t, g).tell = t.tell /\ Loses(t, g).at = t.at
        /\ Loses(t, g).user = t.user /\ Loses(t, g).ids = [t.ids EXCEPT ![g] = id]
        /\ Loses(t, g).add = t.add /\ Loses(t, g).remove = t.remove
        /\ Loses(t, g).group = t.group
    BY <2>1 DEF Works
  <2>3. \A h \in Groups : Loses(t, g).ids[h] = IF h = g THEN id ELSE t.ids[h]
    BY <2>2 DEF Works
  <2> QED BY <1>3, <2>1, <2>2, <2>3
<1> QED BY <1>1, <1>2, <1>3

LEMMA DropsGroupTypes ==
    ASSUME DirectoryTypes, NEW c \in Clerks, DropsGroup(c)
    PROVE  DirectoryTypes'
<1>1. PICK g \in Groups :
          /\ g = task[c].group
          /\ groupFooter' = [groupFooter EXCEPT ![g] = 0]
          /\ belongs' = {m \in belongs : m[2] # g}
          /\ task' = [d \in Clerks |-> Loses(task[d], g)]
          /\ UNCHANGED <<profileOf, directoryHtml, tasks>>
  <2>1. task[c].group \in Groups
    BY DEF DropsGroup, DirectoryTypes, WorkIsSound
  <2> QED BY <2>1 DEF DropsGroup
<1>2. /\ groupFooter' \in [Groups -> {0, NoOverride} \cup Footers]
      /\ \A h \in Groups : h # g => groupFooter'[h] = groupFooter[h]
  BY <1>1 DEF DirectoryTypes, DirectoryTypeOK
<1>3. \A d \in Clerks : task[d] \in Works /\ WorkIsSound(task[d])
  BY DEF DirectoryTypes, DirectoryTypeOK
<1>4. task' \in [Clerks -> Works]
  <2>1. \A d \in Clerks : Loses(task[d], g) \in Works
    BY <1>3, LosesWork
  <2> QED BY <1>1, <2>1
<1>5. ASSUME NEW d \in Clerks PROVE WorkIsSound(task[d])'
  <2>1. PICK t \in Works : t = task[d] /\ WorkIsSound(t)
    BY <1>3
  <2>2. PICK w : w = Loses(t, g)
    OBVIOUS
  <2>3. task'[d] = w
    BY <1>1, <2>1, <2>2
  <2>4. /\ w \in Works /\ w.tell = t.tell
        /\ w.at = (IF t.group = g /\ t.at = "deletes" THEN "idle" ELSE t.at)
        /\ w.user = t.user \/ w.at = "idle"
        /\ \/ w.group = t.group
           \/ t.group = g /\ w.at \in {"idle", "writes", "tells", "updated"}
        /\ t.at = "writes" => w.add = t.add /\ w.remove = t.remove
        /\ \A h \in Groups : w.ids[h] = "found" => h # g /\ t.ids[h] = "found"
        /\ \A h \in Groups : t.ids[h] = "unknown" => w.ids[h] = "unknown"
    BY <2>1, <2>2, LosesWork
  <2>5. \A h \in Groups : w.ids[h] = "found" => groupFooter'[h] # 0
    BY <1>2, <2>1, <2>4 DEF WorkIsSound
  <2>6. w.at = "writes" => w.add \cup w.remove \subseteq w.tell
    BY <2>1, <2>4 DEF WorkIsSound
  <2>7. w.at \in {"idle", "updated", "deletes", "row", "group", "creates", "joins"} => w.tell = {}
    BY <2>1, <2>4 DEF WorkIsSound
  <2>8. /\ w.at \in {"saved", "group", "creates", "joins", "joined"} => w.user \in Staff /\ w.group \in Groups
        /\ w.at = "deletes" => w.group \in Groups
    BY <2>1, <2>4 DEF WorkIsSound
  <2>9. w.at \in {"idle", "writes", "tells", "updated", "deletes"} =>
          \A h \in Groups : w.ids[h] = "unknown"
    BY <2>1, <2>4 DEF WorkIsSound
  <2> QED BY <2>3, <2>5, <2>6, <2>7, <2>8, <2>9 DEF WorkIsSound
<1>6. /\ belongs' \subseteq Staff \X Groups
      /\ \A m \in belongs' : Exists(m[2])'
  BY <1>1, <1>2 DEF DirectoryTypes, DirectoryTypeOK, Exists
<1> QED BY <1>1, <1>2, <1>4, <1>5, <1>6 DEF DirectoryTypes, DirectoryTypeOK, directoryHtml

LEMMA RecompiledTypes ==
    ASSUME DirectoryTypes, NEW u \in Staff, Recompiled(u)
    PROVE  DirectoryTypes'
<1>1. InputsOf(u) \in RenderInputs
  BY InputsTypes DEF DirectoryTypes, DirectoryTypeOK
<1>2. UNCHANGED <<groupFooter, belongs, profileOf, task, tasks>>
  BY DEF Recompiled, directoryTables
<1>3. compiledOf' \in [Staff -> RenderInputs] /\ freshOf' \in [Staff -> BOOLEAN] /\ untold' \subseteq Staff
  BY <1>1 DEF Recompiled, DirectoryTypes, DirectoryTypeOK
<1>4. \A c \in Clerks : WorkIsSound(task[c])'
  BY <1>2 DEF DirectoryTypes, WorkIsSound
<1>5. \A m \in belongs' : Exists(m[2])'
  BY <1>2 DEF DirectoryTypes, DirectoryTypeOK, Exists
<1> QED BY <1>2, <1>3, <1>4, <1>5 DEF DirectoryTypes, DirectoryTypeOK

-----------------------------------------------------------------------------
LEMMA UpdatesGroupChanges ==
    ASSUME DirectoryTypes, ChangesReachHtml, DeletedAreMarked,
           NEW c \in Clerks, NEW g \in Groups,
           NEW footer \in Footers \cup {NoOverride}, UpdatesGroup(c, g, footer)
    PROVE  ChangesReachHtml' /\ DeletedAreMarked'
<1>1. /\ \A d \in Clerks : d # c => task'[d] = task[d]
      /\ task'[c].at = "updated" /\ task'[c].group = g
      /\ task[c].at = "idle" /\ task[c].tell = {}
  BY UpdatesGroupTypes, RequestBegins DEF UpdatesGroup
<1>2. /\ UNCHANGED <<belongs, profileOf, compiledOf, freshOf, untold>>
      /\ \A h \in Groups : h # g => groupFooter'[h] = groupFooter[h]
  BY DEF UpdatesGroup, directoryHtml, DirectoryTypes, DirectoryTypeOK
<1>3. ASSUME NEW u \in Staff, freshOf[u], compiledOf[u] # InputsOf(u)'
      PROVE  u \in untold \/ \E d \in Clerks : u \in Concerned(task[d])'
  <2>1. CASE u \in MembersOf(g)
    BY <1>1, <1>2, <2>1 DEF Concerned, MembersOf
  <2>2. CASE u \notin MembersOf(g)
    <3>1. InputsOf(u)' = InputsOf(u)
      <4>1. \A h \in GroupsOf(u) : groupFooter'[h] = groupFooter[h]
        BY <1>2, <2>2 DEF GroupsOf, MembersOf
      <4> QED BY <1>2, <4>1, InputsStay DEF DirectoryTypes
    <3>2. u \in untold \/ \E d \in Clerks : u \in Concerned(task[d])
      BY <1>3, <3>1 DEF ChangesReachHtml
    <3>3. ASSUME NEW d \in Clerks, u \in Concerned(task[d]) PROVE u \in Concerned(task[d])'
      <4>1. d # c
        BY <1>1, <3>3 DEF Concerned
      <4> QED BY <1>1, <1>2, <3>3, <4>1 DEF Concerned, MembersOf
    <3> QED BY <3>2, <3>3
  <2> QED BY <2>1, <2>2
<1>4. ASSUME NEW d \in Clerks, task'[d].at = "deletes", NEW u \in MembersOf(task[d].group)', freshOf[u]
      PROVE  u \in untold \/ \E e \in Clerks : u \in task'[e].tell
  <2>1. d # c /\ task'[d] = task[d]
    BY <1>1, <1>4
  <2>2. u \in MembersOf(task[d].group)
    BY <1>2, <1>4, <2>1 DEF MembersOf
  <2>3. u \in untold \/ \E e \in Clerks : u \in task[e].tell
    BY <1>4, <2>1, <2>2 DEF DeletedAreMarked
  <2> QED BY <1>1, <2>3
<1> QED BY <1>2, <1>3, <1>4 DEF ChangesReachHtml, DeletedAreMarked

LEMMA DeletesGroupChanges ==
    ASSUME DirectoryTypes, ChangesReachHtml, DeletedAreMarked,
           NEW c \in Clerks, NEW g \in Groups, DeletesGroup(c, g)
    PROVE  ChangesReachHtml' /\ DeletedAreMarked'
<1>1. /\ \A d \in Clerks : d # c => task'[d] = task[d]
      /\ task'[c].at = "deletes" /\ task'[c].group = g
      /\ task[c].at = "idle" /\ task[c].tell = {}
  BY DeletesGroupTypes, RequestBegins DEF DeletesGroup
<1>2. Marks(MembersOf(g)) /\ UNCHANGED directoryTables
  BY DEF DeletesGroup
<1>3. /\ \A u : InputsOf(u)' = InputsOf(u)
      /\ \A h : MembersOf(h)' = MembersOf(h)
      /\ belongs' = belongs
  BY <1>2, SameTables
<1>4. /\ compiledOf' = compiledOf
      /\ \A u \in Staff : freshOf'[u] => freshOf[u] /\ u \notin MembersOf(g)
      /\ \A u \in Staff \ MembersOf(g) : u \in untold => u \in untold'
  BY <1>2, MarksTypes
<1>5. ASSUME NEW u \in Staff, freshOf'[u], compiledOf'[u] # InputsOf(u)'
      PROVE  u \in untold' \/ \E d \in Clerks : u \in Concerned(task[d])'
  <2>1. u \in untold \/ \E d \in Clerks : u \in Concerned(task[d])
    BY <1>3, <1>4, <1>5 DEF ChangesReachHtml
  <2>2. ASSUME NEW d \in Clerks, u \in Concerned(task[d]) PROVE u \in Concerned(task[d])'
    <3>1. d # c
      BY <1>1, <2>2 DEF Concerned
    <3> QED BY <1>1, <1>3, <2>2, <3>1 DEF Concerned, MembersOf
  <2> QED BY <1>4, <1>5, <2>1, <2>2
<1>6. ASSUME NEW d \in Clerks, task'[d].at = "deletes", NEW u \in MembersOf(task[d].group)', freshOf'[u]
      PROVE  u \in untold' \/ \E e \in Clerks : u \in task'[e].tell
  <2>1. u \in Staff /\ <<u, task'[d].group>> \in belongs
    BY <1>3, <1>6 DEF MembersOf
  <2>2. d # c /\ task'[d] = task[d]
    BY <1>1, <1>4, <1>6, <2>1 DEF MembersOf
  <2>3. u \in untold \/ \E e \in Clerks : u \in task[e].tell
    BY <1>4, <1>6, <2>1, <2>2 DEF DeletedAreMarked, MembersOf
  <2> QED BY <1>1, <1>4, <1>6, <2>1, <2>3
<1> QED BY <1>5, <1>6 DEF ChangesReachHtml, DeletedAreMarked

LEMMA DropsGroupChanges ==
    ASSUME DirectoryTypes, ChangesReachHtml, DeletedAreMarked,
           NEW c \in Clerks, DropsGroup(c)
    PROVE  ChangesReachHtml' /\ DeletedAreMarked'
<1>1. PICK g \in Groups :
          /\ g = task[c].group /\ task[c].at = "deletes"
          /\ groupFooter' = [groupFooter EXCEPT ![g] = 0]
          /\ belongs' = {m \in belongs : m[2] # g}
          /\ task' = [d \in Clerks |-> Loses(task[d], g)]
          /\ UNCHANGED <<profileOf, compiledOf, freshOf, untold>>
  <2>1. task[c].group \in Groups
    BY DEF DropsGroup, DirectoryTypes, WorkIsSound
  <2> QED BY <2>1 DEF DropsGroup, directoryHtml
<1>2. ASSUME NEW d \in Clerks
      PROVE  /\ task'[d].tell = task[d].tell
             /\ task'[d].at = (IF task[d].group = g /\ task[d].at = "deletes" THEN "idle" ELSE task[d].at)
             /\ task'[d].group = task[d].group \/ task[d].group = g
             /\ task[d].at = "updated" => task[d].tell = {}
  <2>1. task'[d] = Loses(task[d], g) /\ task[d] \in Works /\ WorkIsSound(task[d])
    BY <1>1 DEF DirectoryTypes, DirectoryTypeOK
  <2> QED BY <2>1, LosesWork DEF WorkIsSound
<1>3. ASSUME NEW u \in Staff, freshOf[u], compiledOf[u] # InputsOf(u)'
      PROVE  u \in untold \/ \E d \in Clerks : u \in Concerned(task[d])'
  <2>1. CASE u \in MembersOf(g)
    <3>1. u \in untold \/ \E d \in Clerks : u \in task[d].tell
      BY <1>1, <1>3, <2>1 DEF DeletedAreMarked
    <3>2. ASSUME NEW d \in Clerks, u \in task[d].tell PROVE u \in Concerned(task[d])'
      <4>1. task'[d].at # "updated" /\ u \in task'[d].tell
        BY <1>2, <3>2
      <4> QED BY <4>1 DEF Concerned
    <3> QED BY <3>1, <3>2
  <2>2. CASE u \notin MembersOf(g)
    <3>1. \A h : <<u, h>> \in belongs' <=> <<u, h>> \in belongs
      BY <1>1, <2>2 DEF MembersOf
    <3>2. \A h \in GroupsOf(u) : groupFooter'[h] = groupFooter[h]
      BY <1>1, <2>2 DEF GroupsOf, MembersOf, DirectoryTypes, DirectoryTypeOK
    <3>3. InputsOf(u)' = InputsOf(u)
      BY <1>1, <3>1, <3>2, InputsStay DEF DirectoryTypes
    <3>4. u \in untold \/ \E d \in Clerks : u \in Concerned(task[d])
      BY <1>3, <3>3 DEF ChangesReachHtml
    <3>5. ASSUME NEW d \in Clerks, u \in Concerned(task[d]) PROVE u \in Concerned(task[d])'
      <4>1. CASE task[d].at = "updated"
        <5>1. u \in MembersOf(task[d].group)
          BY <3>5, <4>1 DEF Concerned
        <5>2. task'[d].at = "updated" /\ task'[d].group = task[d].group
          BY <1>2, <2>2, <4>1, <5>1
        <5> QED BY <3>1, <5>1, <5>2 DEF Concerned, MembersOf
      <4>2. CASE task[d].at # "updated"
        <5>1. task'[d].at # "updated" /\ u \in task'[d].tell
          BY <1>2, <3>5, <4>2 DEF Concerned
        <5> QED BY <5>1 DEF Concerned
      <4> QED BY <4>1, <4>2
    <3> QED BY <3>4, <3>5
  <2> QED BY <2>1, <2>2
<1>4. ASSUME NEW d \in Clerks, task'[d].at = "deletes", NEW u \in MembersOf(task[d].group)', freshOf[u]
      PROVE  u \in untold \/ \E e \in Clerks : u \in task'[e].tell
  <2>1. task[d].at = "deletes" /\ task'[d].group = task[d].group
    BY <1>2, <1>4
  <2>2. u \in MembersOf(task[d].group)
    BY <1>1, <1>4, <2>1 DEF MembersOf
  <2>3. u \in untold \/ \E e \in Clerks : u \in task[e].tell
    BY <1>4, <2>1, <2>2 DEF DeletedAreMarked
  <2> QED BY <1>2, <2>3
<1> QED BY <1>1, <1>3, <1>4 DEF ChangesReachHtml, DeletedAreMarked

LEMMA TellsChanges ==
    ASSUME DirectoryTypes, ChangesReachHtml, DeletedAreMarked,
           NEW c \in Clerks, Tells(c)
    PROVE  ChangesReachHtml' /\ DeletedAreMarked'
<1>1. /\ Marks(Concerned(task[c])) /\ UNCHANGED directoryTables
      /\ task[c].tell \subseteq Concerned(task[c])
      /\ \A d \in Clerks : d # c => task'[d] = task[d]
  BY TellIsConcerned, TellsTypes DEF Tells
<1>2. /\ \A u : InputsOf(u)' = InputsOf(u)
      /\ \A h : MembersOf(h)' = MembersOf(h)
      /\ belongs' = belongs
  BY <1>1, SameTables
<1>3. /\ compiledOf' = compiledOf
      /\ \A u \in Staff : freshOf'[u] => freshOf[u] /\ u \notin Concerned(task[c])
      /\ \A u \in Staff \ Concerned(task[c]) : u \in untold => u \in untold'
  BY <1>1, MarksTypes
<1>4. ASSUME NEW u \in Staff, freshOf'[u], compiledOf'[u] # InputsOf(u)'
      PROVE  u \in untold' \/ \E d \in Clerks : u \in Concerned(task[d])'
  <2>1. u \in untold \/ \E d \in Clerks : u \in Concerned(task[d])
    BY <1>2, <1>3, <1>4 DEF ChangesReachHtml
  <2>2. ASSUME NEW d \in Clerks, u \in Concerned(task[d]) PROVE u \in Concerned(task[d])'
    <3>1. d # c
      BY <1>3, <1>4, <2>2
    <3> QED BY <1>1, <1>2, <2>2, <3>1 DEF Concerned, MembersOf
  <2> QED BY <1>3, <1>4, <2>1, <2>2
<1>5. \A d \in Clerks : task'[d].at = "deletes" => d # c
  BY NoTaskIsAWork DEF Tells, DirectoryTypes, DirectoryTypeOK, Works
<1>6. ASSUME NEW d \in Clerks, task'[d].at = "deletes", NEW u \in MembersOf(task[d].group)', freshOf'[u]
      PROVE  u \in untold' \/ \E e \in Clerks : u \in task'[e].tell
  <2>1. task'[d] = task[d] /\ u \in Staff /\ <<u, task[d].group>> \in belongs
    BY <1>1, <1>2, <1>5, <1>6 DEF MembersOf
  <2>2. u \in untold \/ \E e \in Clerks : u \in task[e].tell
    BY <1>3, <1>6, <2>1 DEF DeletedAreMarked, MembersOf
  <2> QED BY <1>1, <1>3, <1>6, <2>1, <2>2
<1> QED BY <1>4, <1>6 DEF ChangesReachHtml, DeletedAreMarked

LEMMA TaskDiesChanges ==
    ASSUME DirectoryTypes, ChangesReachHtml, DeletedAreMarked,
           NEW c \in Clerks, TaskDies(c)
    PROVE  ChangesReachHtml' /\ DeletedAreMarked'
<1>1. /\ task'[c].at = "idle" /\ untold' = untold \cup Concerned(task[c])
      /\ compiledOf' = compiledOf /\ freshOf' = freshOf
      /\ task[c].tell \subseteq Concerned(task[c])
      /\ \A d \in Clerks : d # c => task'[d] = task[d]
  BY TellIsConcerned, TaskDiesTypes, NoTaskIsAWork DEF TaskDies, DirectoryTypes, DirectoryTypeOK
<1>2. /\ \A u : InputsOf(u)' = InputsOf(u)
      /\ \A h : MembersOf(h)' = MembersOf(h)
      /\ belongs' = belongs
  BY SameTables DEF TaskDies
<1>3. ASSUME NEW u \in Staff, freshOf[u], compiledOf[u] # InputsOf(u)'
      PROVE  u \in untold' \/ \E d \in Clerks : u \in Concerned(task[d])'
  <2>1. u \in untold \/ \E d \in Clerks : u \in Concerned(task[d])
    BY <1>2, <1>3 DEF ChangesReachHtml
  <2>2. ASSUME NEW d \in Clerks, d # c, u \in Concerned(task[d]) PROVE u \in Concerned(task[d])'
    BY <1>1, <1>2, <2>2 DEF Concerned, MembersOf
  <2> QED BY <1>1, <2>1, <2>2
<1>4. ASSUME NEW d \in Clerks, task'[d].at = "deletes", NEW u \in MembersOf(task[d].group)', freshOf[u]
      PROVE  u \in untold' \/ \E e \in Clerks : u \in task'[e].tell
  <2>1. task'[d] = task[d] /\ u \in MembersOf(task[d].group)
    BY <1>1, <1>2, <1>4 DEF MembersOf
  <2>2. u \in untold \/ \E e \in Clerks : u \in task[e].tell
    BY <1>4, <2>1 DEF DeletedAreMarked
  <2> QED BY <1>1, <2>2
<1> QED BY <1>1, <1>3, <1>4 DEF ChangesReachHtml, DeletedAreMarked

LEMMA RecompiledChanges ==
    ASSUME DirectoryTypes, ChangesReachHtml, DeletedAreMarked, ~RacedDeletion,
           NEW u \in Staff, Recompiled(u)
    PROVE  ChangesReachHtml' /\ DeletedAreMarked'
<1>1. /\ \A v \in Staff : compiledOf'[v] = IF v = u THEN InputsOf(u) ELSE compiledOf[v]
      /\ \A v \in Staff : freshOf'[v] = IF v = u THEN TRUE ELSE freshOf[v]
      /\ untold' = untold \ {u} /\ task' = task
      /\ \A c \in Clerks : task[c].at = "deletes" => u \notin MembersOf(task[c].group)
  BY DEF Recompiled, DirectoryTypes, DirectoryTypeOK
<1>2. /\ \A v : InputsOf(v)' = InputsOf(v)
      /\ \A h : MembersOf(h)' = MembersOf(h)
      /\ belongs' = belongs
  BY SameTables DEF Recompiled
<1>3. ASSUME NEW v \in Staff, freshOf'[v], compiledOf'[v] # InputsOf(v)'
      PROVE  v \in untold' \/ \E d \in Clerks : v \in Concerned(task[d])'
  <2>1. v # u
    BY <1>1, <1>2, <1>3
  <2>2. v \in untold \/ \E d \in Clerks : v \in Concerned(task[d])
    BY <1>1, <1>2, <1>3, <2>1 DEF ChangesReachHtml
  <2> QED BY <1>1, <1>2, <2>1, <2>2 DEF Concerned, MembersOf
<1>4. ASSUME NEW d \in Clerks, task[d].at = "deletes", NEW v \in MembersOf(task[d].group), freshOf'[v]
      PROVE  v \in untold' \/ \E e \in Clerks : v \in task[e].tell
  <2>1. v # u /\ v \in Staff
    BY <1>1, <1>4 DEF MembersOf
  <2> QED BY <1>1, <1>4, <2>1 DEF DeletedAreMarked
<1>5. ChangesReachHtml'
  BY <1>3 DEF ChangesReachHtml
<1>6. DeletedAreMarked'
  BY <1>1, <1>2, <1>4 DEF DeletedAreMarked, MembersOf
<1> QED BY <1>5, <1>6

-----------------------------------------------------------------------------
LEMMA DirectoryStep ==
    ASSUME DirectoryTypes, DirectoryNext
    PROVE  /\ DirectoryTypes'
           /\ ~RacedDeletion /\ ChangesReachHtml /\ DeletedAreMarked =>
                ChangesReachHtml' /\ DeletedAreMarked'
<1> DEFINE Goal ==
        /\ DirectoryTypes'
        /\ ~RacedDeletion /\ ChangesReachHtml /\ DeletedAreMarked =>
              ChangesReachHtml' /\ DeletedAreMarked'
<1>1. ASSUME NEW u \in Staff, Recompiled(u) PROVE Goal
  BY <1>1, RecompiledTypes, RecompiledChanges
<1>2. ASSUME NEW c \in Clerks, \E w : Moves(c, w) PROVE Goal
  BY <1>2, MovesTypes, MovesChanges
<1>3. ASSUME NEW c \in Clerks, NEW g \in Groups, NEW wanted \in SUBSET Staff,
             SetsMembers(c, g, wanted)
      PROVE  Goal
  BY <1>2, <1>3, SetsMembersMoves
<1>4. ASSUME NEW c \in Clerks, NEW g \in Groups, NEW footer \in Footers \cup {NoOverride},
             UpdatesGroup(c, g, footer)
      PROVE  Goal
  BY <1>4, UpdatesGroupTypes, UpdatesGroupChanges
<1>5. ASSUME NEW c \in Clerks, NEW g \in Groups, DeletesGroup(c, g) PROVE Goal
  BY <1>5, DeletesGroupTypes, DeletesGroupChanges
<1>6. ASSUME NEW c \in Clerks, NEW u \in Staff, NEW wanted \in SUBSET Groups,
             SetsGroups(c, u, wanted)
      PROVE  Goal
  BY <1>2, <1>6, SetsGroupsMoves
<1>7. ASSUME NEW c \in Clerks, NEW u \in Staff, NEW profile \in Profiles,
             SavesProfile(c, u, profile)
      PROVE  Goal
  BY <1>2, <1>7, SavesProfileMoves
<1>8. ASSUME NEW c \in Clerks, NEW rows \in 1..MaxImported, StartsChunk(c, rows) PROVE Goal
  BY <1>2, <1>8, StartsChunkMoves
<1>9. ASSUME NEW c \in Clerks, NEW u \in Staff, NEW g \in Groups, NEW profile \in Profiles,
             ImportsProfile(c, u, g, profile)
      PROVE  Goal
  BY <1>2, <1>9, ImportsProfileMoves
<1>10. ASSUME NEW c \in Clerks, WritesMember(c) PROVE Goal
  BY <1>2, <1>10, WritesMemberMoves
<1>11. ASSUME NEW c \in Clerks, MembersWritten(c) PROVE Goal
  BY <1>2, <1>11, MembersWrittenMoves
<1>12. ASSUME NEW c \in Clerks, DropsGroup(c) PROVE Goal
  BY <1>12, DropsGroupTypes, DropsGroupChanges
<1>13. ASSUME NEW c \in Clerks, FindsGroup(c) PROVE Goal
  BY <1>2, <1>13, FindsGroupMoves
<1>14. ASSUME NEW c \in Clerks, CreatesGroup(c) PROVE Goal
  BY <1>2, <1>14, CreatesGroupMoves
<1>15. ASSUME NEW c \in Clerks, Joins(c) PROVE Goal
  BY <1>2, <1>15, JoinsMoves
<1>16. ASSUME NEW c \in Clerks, ChunkEnds(c) PROVE Goal
  BY <1>2, <1>16, ChunkEndsMoves
<1>17. ASSUME NEW c \in Clerks, Tells(c) PROVE Goal
  BY <1>17, TellsTypes, TellsChanges
<1>18. ASSUME NEW c \in Clerks, TaskDies(c) PROVE Goal
  BY <1>18, TaskDiesTypes, TaskDiesChanges
<1> HIDE DEF Goal
<1>19. Goal
  BY <1>1, <1>3, <1>4, <1>5, <1>6, <1>7, <1>8, <1>9, <1>10, <1>11, <1>12, <1>13, <1>14,
     <1>15, <1>16, <1>17, <1>18 DEF DirectoryNext
<1> QED BY <1>19 DEF Goal

LEMMA DirectoryStutters ==
    ASSUME UNCHANGED directoryVars
    PROVE  /\ DirectoryTypes => DirectoryTypes'
           /\ ChangesReachHtml => ChangesReachHtml'
           /\ DeletedAreMarked => DeletedAreMarked'
<1>1. /\ UNCHANGED directoryTables
      /\ UNCHANGED <<compiledOf, freshOf, task, tasks, untold>>
  BY DEF directoryVars, directoryTables
<1>2. /\ UNCHANGED <<groupFooter, belongs, profileOf>>
      /\ \A u : InputsOf(u)' = InputsOf(u)
      /\ \A h : MembersOf(h)' = MembersOf(h)
      /\ \A t : Concerned(t)' = Concerned(t)
  BY <1>1, SameTables
<1>3. DirectoryTypes => DirectoryTypes'
  BY <1>1, <1>2 DEF DirectoryTypes, DirectoryTypeOK, WorkIsSound, Exists
<1>4. ChangesReachHtml => ChangesReachHtml'
  BY <1>1, <1>2 DEF ChangesReachHtml, Concerned, MembersOf
<1>5. DeletedAreMarked => DeletedAreMarked'
  BY <1>1, <1>2 DEF DeletedAreMarked, MembersOf
<1> QED BY <1>3, <1>4, <1>5

\* The tables, what was compiled and what the processes hold are of their types, and
\* nobody belongs to a group that there is not: an import or a change of members that
\* is overtaken by a deletion writes for no group.
THEOREM DirectoryTypesHold == DirectorySpec => []DirectoryTypeOK
<1>1. DirectoryInit => DirectoryTypes
  BY InitDirectory
<1>2. DirectoryTypes /\ [DirectoryNext]_directoryVars => DirectoryTypes'
  BY DirectoryStep, DirectoryStutters
<1>3. DirectoryTypes => DirectoryTypeOK
  BY DEF DirectoryTypes
<1> QED BY <1>1, <1>2, <1>3, PTL DEF DirectorySpec

\* Fresh HTML is that of the present directory, or a request at work will mark it, or it
\* died before it could; when no signature is recompiled inside the deletion of a group
\* of its owner.
THEOREM ChangesReach ==
    ASSUME ~RacedDeletion
    PROVE  DirectorySpec => []ChangesReachHtml
<1> DEFINE Inv == DirectoryTypes /\ ChangesReachHtml /\ DeletedAreMarked
<1>1. DirectoryInit => Inv
  <2>1. DirectoryInit => DeletedAreMarked
    BY NoTaskIsAWork DEF DirectoryInit, DeletedAreMarked
  <2> QED BY <2>1, InitDirectory
<1>2. Inv /\ [DirectoryNext]_directoryVars => Inv'
  BY DirectoryStep, DirectoryStutters
<1> QED BY <1>1, <1>2, PTL DEF DirectorySpec

-----------------------------------------------------------------------------
(* The daily Gmail pass. *)

Cursors == {0} \cup Owners
Batches == [busy : BOOLEAN, begun : BOOLEAN, after : Cursors, page : SUBSET Owners,
            whole : BOOLEAN, calls : 0..BatchPushes]

\* Between the cursor of a batch and its page no owner is left out; those after the page
\* are left to the next batch, and then the page is not taken for the last one.
SkipsNobody(b) ==
    /\ \A u \in b.page : b.after < u
    /\ \A u \in Owners : b.after < u /\ u \notin b.page => ~b.whole /\ \A v \in b.page : v < u

\* No batch at work leaves out an owner.
NobodySkipped == \A w \in Workers : worker[w].busy => SkipsNobody(worker[w])

SyncInv == GmailSyncTypeOK /\ NobodySkipped

LEMMA SyncNumbers ==
    /\ Owners \subseteq Nat /\ Cursors \subseteq Nat /\ BatchScan \in Nat /\ BatchScan > 0
    /\ BatchPushes \in Nat /\ BatchPushes > 0 /\ MaxChanges \in Nat /\ MaxBatchDeaths \in Nat
    /\ \A S \in SUBSET Owners : IsFiniteSet(S) /\ Cardinality(S) \in Nat
    /\ \A S \in SUBSET Owners : \A T \in SUBSET S : Cardinality(T) <= Cardinality(S)
<1>1. IsFiniteSet(Owners)
  BY GmailSyncAssumption
<1>2. \A S \in SUBSET Owners : IsFiniteSet(S) /\ Cardinality(S) \in Nat
  BY <1>1, FS_Subset, FS_CardinalityType
<1>3. \A S \in SUBSET Owners : \A T \in SUBSET S : Cardinality(T) <= Cardinality(S)
  BY <1>2, FS_Subset
<1> QED BY <1>2, <1>3, GmailSyncAssumption DEF Cursors

\* The page after a cursor.
LEMMA PageOf ==
    ASSUME NEW id \in Cursors, NEW b \in Batches,
           b.after = id, b.page = PageAfter(id), b.whole = (Cardinality(PageAfter(id)) < BatchScan)
    PROVE  SkipsNobody(b)
<1> DEFINE below(u) == {v \in Owners : id < v /\ v < u}
<1>1. PICK later : later = {u \in Owners : id < u}
  OBVIOUS
<1>2. PICK page : page = PageAfter(id)
  OBVIOUS
<1>3. \A u \in later : below(u) = {v \in later : v < u}
  BY <1>1
<1>4. page = {u \in later : Cardinality(below(u)) < BatchScan}
  <2>1. page = {u \in later : Cardinality({v \in later : v < u}) < BatchScan}
    BY <1>1, <1>2 DEF PageAfter
  <2> QED BY <1>3, <2>1
<1>5. \A u \in Owners : below(u) \in SUBSET Owners /\ Cardinality(below(u)) \in Nat
  BY SyncNumbers
<1> HIDE DEF below
<1>6. \A u \in page : u \in Owners /\ id < u
  BY <1>1, <1>4
<1>7. ASSUME NEW u \in Owners, id < u, u \notin page
      PROVE  Cardinality(page) >= BatchScan /\ \A v \in page : v < u
  <2>1. u \in later /\ ~(Cardinality(below(u)) < BatchScan)
    BY <1>1, <1>4, <1>7
  <2>2. ASSUME NEW v \in page, ~(v < u) PROVE FALSE
    <3>1. v \in Owners /\ Cardinality(below(v)) < BatchScan
      BY <1>4, <1>6
    <3>2. below(u) \in SUBSET below(v)
      <4>1. u \in Nat /\ v \in Nat /\ u <= v
        BY <2>2, <3>1, SyncNumbers
      <4>2. ASSUME NEW x \in below(u) PROVE x \in below(v)
        <5>1. x \in Owners /\ x \in Nat /\ id < x /\ x < u
          BY SyncNumbers DEF below
        <5>2. x < v
          BY <4>1, <5>1
        <5> QED BY <5>1, <5>2 DEF below
      <4> QED BY <4>2
    <3>3. Cardinality(below(u)) <= Cardinality(below(v))
      BY <1>5, <3>1, <3>2, SyncNumbers
    <3> QED BY <1>5, <2>1, <3>1, <3>3, SyncNumbers
  <2>3. later \ page \in SUBSET Nat /\ later \ page # {}
    BY <1>1, <1>7, <2>1, SyncNumbers
  <2>4. PICK m \in later \ page : \A x \in later \ page : m <= x
    BY <2>3, SmallestOne
  <2>5. m \in Owners /\ ~(Cardinality(below(m)) < BatchScan)
    BY <1>1, <1>4, <2>4
  <2>6. below(m) \in SUBSET page
    <3> SUFFICES ASSUME NEW x \in below(m) PROVE x \in page
      OBVIOUS
    <3>1. x \in later /\ x < m /\ x \in Nat /\ m \in Nat
      BY <1>1, <2>5, SyncNumbers DEF below
    <3> QED BY <2>4, <3>1
  <2>7. page \in SUBSET Owners
    BY <1>6
  <2>8. Cardinality(below(m)) <= Cardinality(page) /\ Cardinality(page) \in Nat
    BY <2>6, <2>7, SyncNumbers
  <2>9. Cardinality(page) >= BatchScan
    BY <1>5, <2>5, <2>8, SyncNumbers
  <2> QED BY <2>2, <2>9
<1>8. \A u \in b.page : b.after < u
  BY <1>2, <1>6
<1>9. ASSUME NEW u \in Owners, b.after < u, u \notin b.page
      PROVE  ~b.whole /\ \A v \in b.page : v < u
  <2>1. Cardinality(page) >= BatchScan /\ \A v \in page : v < u
    BY <1>2, <1>7, <1>9
  <2>2. Cardinality(page) \in Nat
    BY <1>6, SyncNumbers
  <2>3. ~(Cardinality(page) < BatchScan)
    BY <2>1, <2>2, SyncNumbers
  <2> QED BY <1>2, <2>1, <2>3, Zenon
<1> QED BY <1>8, <1>9 DEF SkipsNobody

LEMMA BatchBegins ==
    ASSUME SyncInv, NEW w \in Workers, NEW id \in Cursors, Begins(w, id)
    PROVE  worker' \in [Workers -> Batches] /\ NobodySkipped'
<1>1. worker \in [Workers -> Batches]
  BY DEF SyncInv, GmailSyncTypeOK, Batches, Cursors
<1>2. PICK b : b = [busy |-> TRUE, begun |-> FALSE, after |-> id, page |-> PageAfter(id),
                    whole |-> Cardinality(PageAfter(id)) < BatchScan, calls |-> 0]
  OBVIOUS
<1>3. PageAfter(id) \in SUBSET Owners
  BY DEF PageAfter
<1>4. (Cardinality(PageAfter(id)) < BatchScan) \in BOOLEAN
  <2>1. Cardinality(PageAfter(id)) \in Nat
    BY <1>3, SyncNumbers
  <2> QED BY <2>1, SyncNumbers
<1>5. 0 \in 0..BatchPushes
  BY SyncNumbers
<1>6. b \in Batches
  BY <1>2, <1>3, <1>4, <1>5, Zenon DEF Batches
<1>7. /\ b.after = id /\ b.page = PageAfter(id)
      /\ b.whole = (Cardinality(PageAfter(id)) < BatchScan)
  BY <1>2, Zenon
<1>8. SkipsNobody(b)
  BY <1>6, <1>7, PageOf
<1>9. worker' = [worker EXCEPT ![w] = b]
  BY <1>2 DEF Begins
<1>10. worker' \in [Workers -> Batches] /\ worker'[w] = b
       /\ \A v \in Workers : v # w => worker'[v] = worker[v]
  BY <1>1, <1>6, <1>9
<1>11. ASSUME NEW v \in Workers, worker'[v].busy PROVE SkipsNobody(worker'[v])
  <2>1. CASE v = w
    BY <1>8, <1>10, <2>1
  <2>2. CASE v # w
    <3>1. worker'[v] = worker[v] /\ worker[v].busy
      BY <1>10, <1>11, <2>2
    <3> QED BY <3>1 DEF SyncInv, NobodySkipped
  <2> QED BY <2>1, <2>2
<1>12. NobodySkipped'
  BY <1>11 DEF NobodySkipped, SkipsNobody
<1> QED BY <1>10, <1>12

\* A batch that is over is at work no more.
LEMMA BatchRests ==
    ASSUME SyncInv, NEW w \in Workers, worker' = [worker EXCEPT ![w] = NoBatch]
    PROVE  worker' \in [Workers -> Batches] /\ NobodySkipped'
<1>1. worker \in [Workers -> Batches]
  BY DEF SyncInv, GmailSyncTypeOK, Batches, Cursors
<1>2. NoBatch \in Batches /\ ~NoBatch.busy
  BY SyncNumbers DEF NoBatch, Batches, Cursors
<1>3. /\ worker' \in [Workers -> Batches] /\ ~worker'[w].busy
      /\ \A v \in Workers : v # w => worker'[v] = worker[v]
  BY <1>1, <1>2
<1>4. ASSUME NEW v \in Workers, worker'[v].busy PROVE SkipsNobody(worker'[v])
  <2>1. worker'[v] = worker[v] /\ worker[v].busy
    BY <1>3, <1>4
  <2> QED BY <2>1 DEF SyncInv, NobodySkipped
<1> QED BY <1>3, <1>4 DEF NobodySkipped, SkipsNobody

LEMMA PushesNextStep ==
    ASSUME SyncInv, NEW w \in Workers, NEW attempted \in BOOLEAN, PushesNext(w, attempted)
    PROVE  worker' \in [Workers -> Batches] /\ NobodySkipped' /\ visited' \in Cursors
<1>1. worker \in [Workers -> Batches]
  BY DEF SyncInv, GmailSyncTypeOK, Batches, Cursors
<1>2. PICK b : b = worker[w]
  OBVIOUS
<1>3. b \in Batches /\ b.page # {} /\ b.calls < BatchPushes /\ SkipsNobody(b)
  BY <1>1, <1>2 DEF PushesNext, SyncInv, NobodySkipped
<1>4. PICK u : u = Min(b.page)
  OBVIOUS
<1>5. u \in b.page /\ u \in Owners /\ b.page \in SUBSET Owners /\ \A v \in b.page : u <= v
  <2>1. b.page \in SUBSET Owners
    BY <1>3 DEF Batches
  <2>2. b.page \in SUBSET Nat
    BY <2>1, SyncNumbers
  <2> QED BY <1>3, <1>4, <2>1, <2>2, SmallestOne
<1>6. PICK n : n = IF attempted THEN b.calls + 1 ELSE b.calls
  OBVIOUS
<1>7. n \in 0..BatchPushes
  BY <1>3, <1>6, SyncNumbers DEF Batches
<1>8. PICK c : c = [b EXCEPT !.page = b.page \ {u}, !.after = u, !.begun = TRUE, !.calls = n]
  OBVIOUS
<1>9. /\ c \in Batches /\ c.page = b.page \ {u} /\ c.after = u /\ c.whole = b.whole
  BY <1>3, <1>5, <1>7, <1>8 DEF Batches, Cursors
<1>10. worker' = [worker EXCEPT ![w] = c]
  BY <1>1, <1>2, <1>4, <1>6, <1>8 DEF PushesNext
<1>11. SkipsNobody(c)
  <2>1. \A x \in b.page : x \in Nat /\ u \in Nat
    BY <1>5, SyncNumbers
  <2>2. \A x \in c.page : c.after < x
    BY <1>5, <1>9, <2>1
  <2>3. ASSUME NEW x \in Owners, c.after < x, x \notin c.page
        PROVE  ~c.whole /\ \A v \in c.page : v < x
    <3>1. x \in Nat /\ u \in Nat /\ b.after \in Nat
      <4>1. b.after \in Cursors
        BY <1>3 DEF Batches
      <4> QED BY <1>5, <2>3, <4>1, SyncNumbers
    <3>2. b.after < u /\ u < x
      BY <1>3, <1>5, <1>9, <2>3 DEF SkipsNobody
    <3>3. x # u /\ b.after < x
      BY <3>1, <3>2
    <3>4. x \notin b.page
      BY <1>9, <2>3, <3>3
    <3>5. ~b.whole /\ \A v \in b.page : v < x
      BY <1>3, <2>3, <3>3, <3>4 DEF SkipsNobody
    <3> QED BY <1>9, <3>5
  <2> QED BY <2>2, <2>3 DEF SkipsNobody
<1>12. /\ worker' \in [Workers -> Batches] /\ worker'[w] = c
       /\ \A v \in Workers : v # w => worker'[v] = worker[v]
  BY <1>1, <1>9, <1>10
<1>13. ASSUME NEW v \in Workers, worker'[v].busy PROVE SkipsNobody(worker'[v])
  <2>1. CASE v = w
    BY <1>11, <1>12, <2>1
  <2>2. CASE v # w
    <3>1. worker'[v] = worker[v] /\ worker[v].busy
      BY <1>12, <1>13, <2>2
    <3> QED BY <3>1 DEF SyncInv, NobodySkipped
  <2> QED BY <2>1, <2>2
<1>14. visited' = u
  BY <1>2, <1>4 DEF PushesNext
<1> QED BY <1>5, <1>12, <1>13, <1>14 DEF NobodySkipped, SkipsNobody, Cursors

LEMMA SyncInitially == GmailSyncInit => SyncInv
<1> SUFFICES ASSUME GmailSyncInit PROVE SyncInv
  OBVIOUS
<1>1. NoBatch \in Batches /\ ~NoBatch.busy
  <2>1. 0 \in 0..BatchPushes
    BY SyncNumbers
  <2> QED BY <2>1 DEF NoBatch, Batches, Cursors
<1>2. worker \in [Workers -> Batches] /\ NobodySkipped
  BY <1>1 DEF GmailSyncInit, NobodySkipped
<1>3. changes \in 0..MaxChanges /\ batchDeaths \in 0..MaxBatchDeaths
  BY SyncNumbers DEF GmailSyncInit
<1>4. /\ settings \in [configured : BOOLEAN, daily : BOOLEAN] /\ visited \in Cursors
      /\ sync \in [running : BOOLEAN, after : Cursors] /\ {dailyEvent, batchEvent} \subseteq BOOLEAN
  BY DEF GmailSyncInit, Cursors
<1> QED BY <1>2, <1>3, <1>4, Zenon DEF SyncInv, GmailSyncTypeOK, Batches, Cursors

LEMMA SyncStep ==
    ASSUME SyncInv, [GmailSyncNext]_syncVars
    PROVE  SyncInv'
<1>0. /\ settings \in [configured : BOOLEAN, daily : BOOLEAN] /\ changes \in 0..MaxChanges
      /\ sync \in [running : BOOLEAN, after : Cursors] /\ dailyEvent \in BOOLEAN
      /\ batchEvent \in BOOLEAN /\ worker \in [Workers -> Batches] /\ visited \in Cursors
      /\ batchDeaths \in 0..MaxBatchDeaths
  BY DEF SyncInv, GmailSyncTypeOK, Batches, Cursors
<1> DEFINE Types == /\ settings \in [configured : BOOLEAN, daily : BOOLEAN] /\ changes \in 0..MaxChanges
                    /\ sync \in [running : BOOLEAN, after : Cursors] /\ dailyEvent \in BOOLEAN
                    /\ batchEvent \in BOOLEAN /\ worker \in [Workers -> Batches] /\ visited \in Cursors
                    /\ batchDeaths \in 0..MaxBatchDeaths
<1>1. ASSUME Types', NobodySkipped' PROVE SyncInv'
  BY <1>1 DEF SyncInv, GmailSyncTypeOK, Batches, Cursors
<1>2. 0 \in Cursors /\ [sync EXCEPT !.running = FALSE] \in [running : BOOLEAN, after : Cursors]
  BY <1>0 DEF Cursors
<1>3. CASE UNCHANGED syncVars
  BY <1>0, <1>1, <1>3 DEF syncVars, SyncInv, NobodySkipped, SkipsNobody
<1>4. ASSUME NEW s \in [configured : BOOLEAN, daily : BOOLEAN], ChangeSettings(s) PROVE SyncInv'
  <2>1. changes' \in 0..MaxChanges
    BY <1>0, <1>4, SyncNumbers DEF ChangeSettings
  <2>2. dailyEvent' \in BOOLEAN
    BY <1>4 DEF ChangeSettings, EnsureDailySchedule, Wanted
  <2>3. sync' \in [running : BOOLEAN, after : Cursors] /\ batchEvent' \in BOOLEAN
    BY <1>0, <1>2, <1>4 DEF ChangeSettings, EnsureDailySchedule
  <2>4. settings' = s /\ UNCHANGED <<worker, visited, batchDeaths>>
    BY <1>4 DEF ChangeSettings
  <2>5. NobodySkipped'
    BY <2>4 DEF SyncInv, NobodySkipped, SkipsNobody
  <2> QED BY <1>0, <1>1, <2>1, <2>2, <2>3, <2>4, <2>5
<1>5. CASE Resumes
  BY <1>0, <1>1, <1>5 DEF Resumes, SyncInv, NobodySkipped, SkipsNobody
<1>6. ASSUME NEW w \in Workers, Starts(w) PROVE SyncInv'
  <2>1. Begins(w, 0)
    BY <1>6 DEF Starts
  <2>2. worker' \in [Workers -> Batches] /\ NobodySkipped'
    BY <1>2, <2>1, BatchBegins
  <2>3. sync' \in [running : BOOLEAN, after : Cursors]
    BY <1>2, <1>6 DEF Starts
  <2>4. UNCHANGED <<settings, changes, dailyEvent, batchEvent, visited, batchDeaths>>
    BY <1>6 DEF Starts
  <2> QED BY <1>0, <1>1, <2>2, <2>3, <2>4
<1>7. ASSUME NEW w \in Workers, BatchFires(w) PROVE SyncInv'
  <2>1. /\ UNCHANGED <<settings, changes, dailyEvent, visited, batchDeaths>> /\ batchEvent' = FALSE
    BY <1>7 DEF BatchFires
  <2>2. CASE sync.running /\ settings.configured
    <3>1. Begins(w, sync.after) /\ sync' = sync
      BY <1>7, <2>2 DEF BatchFires
    <3>2. sync.after \in Cursors
      BY <1>0
    <3>3. worker' \in [Workers -> Batches] /\ NobodySkipped'
      BY <3>1, <3>2, BatchBegins
    <3> QED BY <1>0, <1>1, <2>1, <3>1, <3>3
  <2>3. CASE ~(sync.running /\ settings.configured)
    <3>1. sync' = [sync EXCEPT !.running = FALSE] /\ worker' = worker
      BY <1>7, <2>3 DEF BatchFires
    <3>2. NobodySkipped'
      BY <3>1 DEF SyncInv, NobodySkipped, SkipsNobody
    <3> QED BY <1>0, <1>1, <1>2, <2>1, <3>1, <3>2
  <2> QED BY <2>2, <2>3
<1>8. ASSUME NEW w \in Workers, BatchEnds(w) PROVE SyncInv'
  <2>1. worker' \in [Workers -> Batches] /\ NobodySkipped'
    BY <1>8, BatchRests DEF BatchEnds
  <2>2. worker[w].after \in Cursors /\ worker[w].whole \in BOOLEAN
    BY <1>0 DEF Batches
  <2>3. Finished(worker[w]) \in BOOLEAN
    BY <2>2 DEF Finished
  <2>4. sync' \in [running : BOOLEAN, after : Cursors]
    BY <1>8, <2>2, <2>3 DEF BatchEnds
  <2>5. batchEvent' \in BOOLEAN
    BY <1>0, <1>8, <2>3 DEF BatchEnds
  <2>6. UNCHANGED <<settings, changes, dailyEvent, visited, batchDeaths>>
    BY <1>8 DEF BatchEnds
  <2> QED BY <1>0, <1>1, <2>1, <2>4, <2>5, <2>6
<1>9. ASSUME NEW w \in Workers, BatchDies(w) PROVE SyncInv'
  <2>1. worker' \in [Workers -> Batches] /\ NobodySkipped'
    BY <1>9, BatchRests DEF BatchDies
  <2>2. batchDeaths' \in 0..MaxBatchDeaths
    BY <1>0, <1>9, SyncNumbers DEF BatchDies
  <2>3. UNCHANGED <<settings, changes, sync, dailyEvent, batchEvent, visited>>
    BY <1>9 DEF BatchDies
  <2> QED BY <1>0, <1>1, <2>1, <2>2, <2>3
<1>10. ASSUME NEW w \in Workers, NEW attempted \in BOOLEAN, PushesNext(w, attempted) PROVE SyncInv'
  <2>1. worker' \in [Workers -> Batches] /\ NobodySkipped' /\ visited' \in Cursors
    BY <1>10, PushesNextStep
  <2>2. UNCHANGED <<settings, changes, sync, dailyEvent, batchEvent, batchDeaths>>
    BY <1>10 DEF PushesNext
  <2> QED BY <1>0, <1>1, <2>1, <2>2
<1> QED BY <1>3, <1>4, <1>5, <1>6, <1>7, <1>8, <1>9, <1>10 DEF GmailSyncNext

\* The types of the daily pass.
THEOREM SyncTypesHold == GmailSyncSpec => []GmailSyncTypeOK
<1>1. GmailSyncInit => SyncInv
  BY SyncInitially
<1>2. SyncInv /\ [GmailSyncNext]_syncVars => SyncInv'
  BY SyncStep
<1>3. SyncInv => GmailSyncTypeOK
  BY DEF SyncInv
<1> QED BY <1>1, <1>2, <1>3, PTL DEF GmailSyncSpec

\* However the batches of a pass die, overlap or are stopped, none leaves out an owner
\* between where it goes on and where it ends; a pass ends after the last owner only.
THEOREM SyncLeavesOutNobody ==
    GmailSyncSpec => [](\A w \in Workers : worker[w].busy /\ Finished(worker[w])
                           => \A u \in Owners : u <= worker[w].after)
<1>1. GmailSyncInit => SyncInv
  BY SyncInitially
<1>2. SyncInv /\ [GmailSyncNext]_syncVars => SyncInv'
  BY SyncStep
<1>3. SyncInv => \A w \in Workers : worker[w].busy /\ Finished(worker[w])
                    => \A u \in Owners : u <= worker[w].after
  <2> SUFFICES ASSUME SyncInv, NEW w \in Workers, worker[w].busy, Finished(worker[w]),
                      NEW u \in Owners
               PROVE  u <= worker[w].after
    OBVIOUS
  <2>1. ~(worker[w].after < u)
    BY DEF SyncInv, NobodySkipped, SkipsNobody, Finished
  <2>2. worker \in [Workers -> Batches]
    BY DEF SyncInv, GmailSyncTypeOK, Batches, Cursors
  <2>3. worker[w].after \in Cursors
    BY <2>2 DEF Batches
  <2>4. worker[w].after \in Nat /\ u \in Nat
    BY <2>3, SyncNumbers
  <2> QED BY <2>1, <2>4
<1> QED BY <1>1, <1>2, <1>3, PTL DEF GmailSyncSpec
=============================================================================
