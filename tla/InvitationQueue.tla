--------------------------- MODULE InvitationQueue ---------------------------
(***************************************************************************)
(* E-mails with install links, sent by cron in batches: the job and its    *)
(* lock (InvitationQueue), the requests of the administrator               *)
(* (DeployInvitationsController), the daily reminders (InstallReminders)   *)
(* and the record of each person (InstallService).  Every read and write   *)
(* of an option is a step of its own where an e-mail or another process    *)
(* may come in between; a process may die at any of them.                  *)
(***************************************************************************)
EXTENDS Naturals, FiniteSets, FiniteSetsExt

CONSTANTS
    People,       \* user ids
    Selections,   \* the sets of people an administrator chooses
    BatchSize,    \* BATCH_SIZE, or the filter of it
    MaxReminders, \* the setting max
    Runners,      \* PHP processes that run cron events
    MaxJobs,      \* bound on the jobs started
    MaxDeaths,    \* bound on the processes that die
    Confirming    \* bound: the people who ever say that they installed it

ASSUME InvitationAssumption ==
    /\ People \subseteq Nat \ {0} /\ IsFiniteSet(People)
    /\ Selections \subseteq SUBSET People /\ Confirming \subseteq People
    /\ BatchSize \in Nat \ {0} /\ MaxReminders \in Nat
    /\ MaxJobs \in Nat /\ MaxDeaths \in Nat

VARIABLES
    started, \* the jobs there have been
    job,     \* the option imgsig_install_invitations
    events,  \* the ids with a scheduled BATCH_HOOK event
    lock,    \* the lock option: "free", "held" or "abandoned" (older than LOCK_TTL)
    runner,  \* the processes
    person,  \* the install record of each person
    handled, \* whom each job has mailed, failed to mail or skipped
    again,   \* a job came to a person twice though no process had died
    deaths

invitationVars == <<started, job, events, lock, runner, person, handled, again, deaths>>

JobIds == 1..MaxJobs
NoJob == [id |-> 0, kind |-> "invite", status |-> "none", to |-> {}, pending |-> {}]
AtRest == [at |-> "idle", id |-> 0, copy |-> NoJob, done |-> 0]

InvitationInit ==
    /\ started = 0
    /\ job = NoJob
    /\ events = {}
    /\ lock = "free"
    /\ runner = [r \in Runners |-> AtRest]
    /\ person = [u \in People |-> [invited |-> FALSE, reminders |-> 0, installed |-> FALSE]]
    /\ handled = [j \in JobIds |-> {}]
    /\ again = FALSE
    /\ deaths = 0

-----------------------------------------------------------------------------
(* Requests and the daily event. *)

\* start(); the ids of the jobs are random, here the next number.
StartJob(kind, to) ==
    /\ job.status # "running" /\ to # {}
    /\ started < MaxJobs /\ started' = started + 1
    /\ job' = [id |-> started', kind |-> kind, status |-> "running", to |-> to, pending |-> to]
    /\ events' = events \cup {started'}
    /\ UNCHANGED <<lock, runner, person, handled, again, deaths>>

\* POST /admin/deploy/invitations
Invite(to) == StartJob("invite", to)

\* is_due(), days enough after the last e-mail.
Due(u) == /\ person[u].invited /\ ~person[u].installed
          /\ person[u].reminders < MaxReminders

\* InstallReminders::run()
Remind == StartJob("reminder", {u \in People : Due(u)})

\* DELETE /admin/deploy/invitations: cancel()
Cancel ==
    /\ job.status = "running"
    /\ job' = [job EXCEPT !.status = "cancelled", !.pending = {}]
    /\ events' = {}
    /\ UNCHANGED <<started, lock, runner, person, handled, again, deaths>>

\* Faulty: waits for a lock nobody is left to release.
PollFreeLock ==
    /\ job.status = "running" /\ job.id \notin events /\ lock = "free"
    /\ events' = events \cup {job.id}
    /\ UNCHANGED <<started, job, lock, runner, person, handled, again, deaths>>

\* GET /admin/deploy/invitations/progress: ensure_scheduled()
Poll ==
    /\ job.status = "running" /\ job.id \notin events /\ lock # "held"
    /\ events' = events \cup {job.id}
    /\ UNCHANGED <<started, job, lock, runner, person, handled, again, deaths>>

\* POST /install/:token/installed: mark_installed()
Installs(u) ==
    /\ person[u].invited /\ ~person[u].installed
    /\ person' = [person EXCEPT ![u].installed = TRUE]
    /\ UNCHANGED <<started, job, events, lock, runner, handled, again, deaths>>

-----------------------------------------------------------------------------
(* run_batch() *)

\* wp-cron takes an event off its list and runs it.
Fires(r) ==
    /\ runner[r] = AtRest
    /\ \E j \in events :
          /\ events' = events \ {j}
          /\ runner' = [runner EXCEPT ![r].at = "lock", ![r].id = j]
    /\ UNCHANGED <<started, job, lock, person, handled, again, deaths>>

\* Faulty: any lock is taken for an abandoned one.
TakeLockHeld(r) ==
    /\ runner[r].at = "lock"
    /\ lock' = "held"
    /\ runner' = [runner EXCEPT ![r].at = "load"]
    /\ UNCHANGED <<started, job, events, person, handled, again, deaths>>

\* acquire_lock(): add_option(), else a look at the age of the lock.
TakeLock(r) ==
    /\ runner[r].at = "lock"
    /\ lock' = IF lock = "free" THEN "held" ELSE lock
    /\ runner' = [runner EXCEPT ![r] =
          CASE lock = "free" -> [@ EXCEPT !.at = "load"]
            [] lock = "held" -> AtRest
            [] lock = "abandoned" -> [@ EXCEPT !.at = "takeover"]]
    /\ UNCHANGED <<started, job, events, person, handled, again, deaths>>

\* update_option() on the abandoned lock, whatever became of it.
TakeOver(r) ==
    /\ runner[r].at = "takeover"
    /\ lock' = "held"
    /\ runner' = [runner EXCEPT ![r].at = "load"]
    /\ UNCHANGED <<started, job, events, person, handled, again, deaths>>

Mine(r) == job.status = "running" /\ job.id = runner[r].id

\* The fresh load() at the head of the loop.
LoadJob(r) ==
    /\ runner[r].at = "load"
    /\ runner' = [runner EXCEPT ![r] =
          IF runner[r].done = BatchSize \/ ~Mine(r) \/ job.pending = {}
          THEN [@ EXCEPT !.at = "end"]
          ELSE [@ EXCEPT !.at = "mail", !.copy = job]]
    /\ UNCHANGED <<started, job, events, lock, person, handled, again, deaths>>

\* mark_contacted()
Contacted(p, kind) ==
    IF kind = "reminder" THEN [p EXCEPT !.reminders = @ + 1]
    ELSE [p EXCEPT !.invited = TRUE, !.reminders = 0]

\* process(): the e-mail goes out, or fails, or the person is skipped.
Process(r) ==
    /\ runner[r].at = "mail"
    /\ LET c == runner[r].copy
           u == Min(c.pending)
           skip == c.kind = "reminder" /\ person[u].installed
       IN  \E sent \in BOOLEAN :
              /\ sent => ~skip
              /\ person' = IF sent THEN [person EXCEPT ![u] = Contacted(@, c.kind)] ELSE person
              /\ handled' = [handled EXCEPT ![c.id] = @ \cup {u}]
              /\ again' = (again \/ (deaths = 0 /\ u \in handled[c.id]))
              /\ runner' = [runner EXCEPT ![r].at = "save", ![r].copy.pending = @ \ {u}]
    /\ UNCHANGED <<started, job, events, lock, deaths>>

\* save() of the copy, over whatever the option is now.
SaveJob(r) ==
    /\ runner[r].at = "save"
    /\ job' = runner[r].copy
    /\ runner' = [runner EXCEPT ![r].at = "load", ![r].copy = NoJob, ![r].done = @ + 1]
    /\ UNCHANGED <<started, events, lock, person, handled, again, deaths>>

\* Faulty: a batch that was full is taken for the last one.
EndsBatchDone(r) ==
    /\ runner[r].at = "end"
    /\ IF Mine(r)
       THEN job' = [job EXCEPT !.status = "done"] /\ UNCHANGED events
       ELSE UNCHANGED <<job, events>>
    /\ lock' = "free"
    /\ runner' = [runner EXCEPT ![r] = AtRest]
    /\ UNCHANGED <<started, person, handled, again, deaths>>

\* After the loop: done, or the next event; release_lock().
EndsBatch(r) ==
    /\ runner[r].at = "end"
    /\ IF Mine(r) /\ job.pending = {}
       THEN job' = [job EXCEPT !.status = "done"] /\ UNCHANGED events
       ELSE /\ events' = IF Mine(r) THEN events \cup {job.id} ELSE events
            /\ UNCHANGED job
    /\ lock' = "free"
    /\ runner' = [runner EXCEPT ![r] = AtRest]
    /\ UNCHANGED <<started, person, handled, again, deaths>>

\* The process dies; its lock stays and nobody continues the chain.
Dies(r) ==
    /\ runner[r].at # "idle"
    /\ deaths < MaxDeaths /\ deaths' = deaths + 1
    /\ runner' = [runner EXCEPT ![r] = AtRest]
    /\ UNCHANGED <<started, job, events, lock, person, handled, again>>

\* LOCK_TTL seconds after a process that no longer works took the lock.  No
\* batch takes that long.
LockAges ==
    /\ lock = "held"
    /\ \A r \in Runners : runner[r].at \in {"idle", "lock", "takeover"}
    /\ lock' = "abandoned"
    /\ UNCHANGED <<started, job, events, runner, person, handled, again, deaths>>

RunBatch(r) ==
    \/ TakeLock(r) \/ TakeOver(r) \/ LoadJob(r)
    \/ Process(r) \/ SaveJob(r) \/ EndsBatch(r)

InvitationNext ==
    \/ \E to \in Selections : Invite(to)
    \/ Remind \/ Cancel \/ Poll \/ LockAges
    \/ \E u \in Confirming : Installs(u)
    \/ \E r \in Runners : Fires(r) \/ RunBatch(r) \/ Dies(r)

InvitationSpec == InvitationInit /\ [][InvitationNext]_invitationVars

-----------------------------------------------------------------------------
JobRecords == [id : 0..MaxJobs, kind : {"invite", "reminder"}, to : SUBSET People,
               status : {"none", "running", "done", "cancelled"}, pending : SUBSET People]
Processes == [at : {"idle", "lock", "takeover", "load", "mail", "save", "end"},
              id : 0..MaxJobs, done : 0..BatchSize, copy : JobRecords]

InvitationTypeOK ==
    /\ started \in 0..MaxJobs
    /\ job \in JobRecords
    /\ events \subseteq JobIds
    /\ lock \in {"free", "held", "abandoned"}
    /\ runner \in [Runners -> Processes]
    /\ \A r \in Runners : runner[r].copy.status \in {"none", "running"}
    /\ person \in [People -> [invited : BOOLEAN, reminders : Nat, installed : BOOLEAN]]
    /\ handled \in [JobIds -> SUBSET People] /\ again \in BOOLEAN
    /\ deaths \in 0..MaxDeaths

\* A job that says it is done has come to everyone it was started for, whatever
\* was cancelled, taken over or killed meanwhile (progress is saved after an e-mail,
\* never before), and to nobody twice, unless a process died on the way (the lock
\* keeps two processes from the same batch: InvitationQueue, "Safety").
EachMailedOnce ==
    /\ job.status = "done" => handled[job.id] = job.to
    /\ ~again

\* No job is under way.
InvitationsOver == job.status # "running"

\* "a cancel from the admin stops the run within one email": a cancelled job
\* does not run again.
CancelStops == [][job.status = "cancelled" /\ job'.id = job.id
                    => job'.status = "cancelled"]_invitationVars
=============================================================================
