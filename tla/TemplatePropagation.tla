------------------------- MODULE TemplatePropagation -------------------------
(***************************************************************************)
(* A template's new design reaching the signatures linked to it            *)
(* (Services/TemplatePropagator.php), while employees save and             *)
(* administrators update, detach and delete, and signatures are copied.    *)
(*                                                                         *)
(* A worker is a PHP process serving one request: the PATCH or the DELETE  *)
(* of a template, or one cron batch.  A step is a database statement, or   *)
(* several in a row that read.  What a request has read from the options   *)
(* table stays in its object cache until the request ends: save_progress() *)
(* writes the progress of every template back from there.                  *)
(*                                                                         *)
(* A design is the number of the template's version it was built from, 0   *)
(* when it is the employee's own; the texts and variables of the employee  *)
(* are a number too, "own".  Templates are in an enforced mode             *)
(* (locked_design or fields_only): a linked signature is stored with the   *)
(* template's design whatever the employee sends.                          *)
(***************************************************************************)
EXTENDS Naturals, FiniteSets

CONSTANTS
    Templates,
    Workers,
    NumRows,     \* signatures have the ids 1..NumRows
    NumCopies,   \* bound on the copies: at most so many of the ids are still free
    TemplateOf,  \* signatures.template_id
    BatchSize,   \* BATCH_SIZE (100)
    Overlap,     \* whether requests may run at the same time
    MaxVersion,  \* bound on the versions of a template
    MaxOwn,      \* bound on the saves of an employee
    MaxCrashes   \* bound on requests that die half-way

Ids == 1..NumRows

ASSUME PropagationAssumption ==
    /\ NumRows \in Nat /\ NumCopies \in 0..NumRows
    /\ TemplateOf \in [Ids -> Templates]
    /\ BatchSize \in Nat \ {0}
    /\ Overlap \in BOOLEAN
    /\ {MaxVersion, MaxOwn, MaxCrashes} \subseteq Nat

VARIABLES
    version,    \* the design of each template, 0 once it is deleted
    rows,       \* the table of signatures
    option,     \* imgsig_template_propagation: the progress of each run
    scheduled,  \* templates with a cron event waiting
    worker,     \* what each PHP process is doing
    saving,     \* employees' saves between their reads and their write
    crashes,    \* how many requests died
    broken      \* <<template, step>> of those that no later update made up for

vars == <<version, rows, option, scheduled, worker, saving, crashes, broken>>

-----------------------------------------------------------------------------
NoRun == [status |-> "none", last |-> 0]

Idle == [at |-> "idle"]
NoSave == [at |-> "none"]

Init ==
    /\ version = [t \in Templates |-> 1]
    /\ rows \in [Ids -> [link : {"linked", "detached", "free"}, design : {1}, own : {0}]]
    /\ \E n \in (NumRows - NumCopies)..NumRows : \A i \in Ids : rows[i].link = "free" <=> i > n
    /\ option = [t \in Templates |-> NoRun]
    /\ scheduled = {}
    /\ worker = [w \in Workers |-> Idle]
    /\ saving = [i \in Ids |-> NoSave]
    /\ crashes = 0
    /\ broken = {}

\* Nothing else is being served; or it does not matter in this instance.
Alone ==
    Overlap \/ ((\A w \in Workers : worker[w] = Idle)
                /\ \A i \in Ids : saving[i] = NoSave)

\* The row is there: it was inserted, and not deleted.
Stored(i) == rows[i].link \in {"linked", "detached"}

\* Faulty: forgets the condition on link_mode.
AllOf(t) == {i \in Ids : TemplateOf[i] = t /\ Stored(i)}

\* The condition of find_linked_to_template() and count_linked_to_template().
Linked(t) == {i \in Ids : TemplateOf[i] = t /\ rows[i].link = "linked"}

\* find_linked_to_template(): the first BATCH_SIZE rows after the cursor, or
\* all of them.
IsBatch(batch, after) ==
    /\ batch \subseteq after
    /\ \A i \in batch, j \in after \ batch : i < j
    /\ \/ Cardinality(batch) = BatchSize
       \/ batch = after /\ Cardinality(batch) < BatchSize

-----------------------------------------------------------------------------
(* PATCH /templates/:id *)

\* TemplateService::update()
UpdateTemplate(w, t) ==
    /\ worker[w] = Idle /\ Alone
    /\ version[t] \in 1..(MaxVersion - 1)
    /\ version' = [version EXCEPT ![t] = @ + 1]
    /\ worker' = [worker EXCEPT ![w] = [at |-> "updated", t |-> t]]
    /\ UNCHANGED <<rows, option, scheduled, saving, crashes, broken>>

\* Faulty: goes on from where the last run had come.
PropagateOnward(w) ==
    /\ worker[w].at = "updated"
    /\ LET t   == worker[w].t
           all == [option EXCEPT ![t].status = "queued"]
       IN  /\ option' = all
           /\ broken' = {b \in broken : b[1] # t}
           /\ worker' = [worker EXCEPT ![w] = [at |-> "schedules", t |-> t, cron |-> FALSE]]
    /\ UNCHANGED <<version, rows, scheduled, saving, crashes>>

\* propagate(): the progress is stored, and then the run begins, in this request when one
\* batch is enough.
Propagate(w) ==
    /\ worker[w].at = "updated"
    /\ LET t     == worker[w].t
           total == Cardinality(Linked(t))
           all   == [option EXCEPT ![t] =
                       [status |-> IF total = 0 THEN "done" ELSE "queued", last |-> 0]]
       IN  /\ option' = all
           /\ broken' = {b \in broken : b[1] # t}
           /\ worker' = [worker EXCEPT ![w] =
                 CASE total = 0 -> Idle
                   [] total \in 1..BatchSize ->
                         [at |-> "batch", t |-> t, all |-> all, cron |-> FALSE]
                   [] OTHER -> [at |-> "schedules", t |-> t, cron |-> FALSE]]
    /\ UNCHANGED <<version, rows, scheduled, saving, crashes>>

\* schedule_next(), after the progress was stored.
ScheduleNext(w) ==
    /\ worker[w].at = "schedules"
    /\ scheduled' = scheduled \cup {worker[w].t}
    /\ worker' = [worker EXCEPT ![w] = Idle]
    /\ UNCHANGED <<version, rows, option, saving, crashes, broken>>

-----------------------------------------------------------------------------
(* run_batch() *)

\* wp-cron takes the event off its list, then runs it; one runner at a time.
CronFires(w, t) ==
    /\ worker[w] = Idle /\ Alone
    /\ \A x \in Workers : worker[x].at \in {"batch", "refresh", "schedules"} => ~worker[x].cron
    /\ t \in scheduled
    /\ scheduled' = scheduled \ {t}
    /\ worker' = [worker EXCEPT ![w] = [at |-> "batch", t |-> t, all |-> option, cron |-> TRUE]]
    /\ UNCHANGED <<version, rows, option, saving, crashes, broken>>

\* Faulty: the cursor is the next row's id, which the next batch then skips.
SavesProgressAfter(w, status, last) ==
    option' = [worker[w].all EXCEPT ![worker[w].t] = [status |-> status, last |-> last + 1]]

\* save_progress(): one entry of the progress that this request has read.
SavesProgress(w, status, last) ==
    option' = [worker[w].all EXCEPT ![worker[w].t] = [status |-> status, last |-> last]]

\* finish()
Finish(w, last) ==
    /\ SavesProgress(w, "done", last)
    /\ worker' = [worker EXCEPT ![w] = Idle]

\* The template is gone: nothing to copy.
BatchHasNoTemplate(w) ==
    /\ worker[w].at = "batch"
    /\ version[worker[w].t] = 0
    /\ Finish(w, worker[w].all[worker[w].t].last)
    /\ UNCHANGED <<version, rows, scheduled, saving, crashes, broken>>

\* The template and the rows of the batch are read.
BatchReads(w) ==
    /\ worker[w].at = "batch"
    /\ version[worker[w].t] > 0
    /\ \E batch \in SUBSET Linked(worker[w].t) :
          /\ IsBatch(batch, {i \in Linked(worker[w].t) : i > worker[w].all[worker[w].t].last})
          /\ worker' = [worker EXCEPT ![w] =
               [at |-> "refresh", t |-> worker[w].t, all |-> worker[w].all,
                cron |-> worker[w].cron, schema |-> version[worker[w].t],
                read |-> [i \in batch |-> rows[i]], todo |-> batch,
                last |-> worker[w].all[worker[w].t].last]]
    /\ UNCHANGED <<version, rows, option, scheduled, saving, crashes, broken>>

\* Faulty: the design of the template with its own default variables.
RefreshedFromTemplate(schema, row) == [design |-> schema, own |-> 0]

\* TemplateLink::refresh(): the design of the template, the rest of the row.
Refreshed(schema, row) == [design |-> schema, own |-> row.own]

\* refresh_signature() of the next row of the batch, as it was read.
RefreshRow(w) ==
    /\ worker[w].at = "refresh"
    /\ \E i \in worker[w].todo :
          /\ \A j \in worker[w].todo : i <= j
          /\ LET was  == worker[w].read[i]
                 next == Refreshed(worker[w].schema, was)
             IN  rows' = IF (was.design = next.design /\ was.own = next.own) \/ ~Stored(i)
                         THEN rows
                         ELSE [rows EXCEPT ![i].design = next.design, ![i].own = next.own]
          /\ worker' = [worker EXCEPT ![w].todo = @ \ {i}, ![w].last = i]
    /\ UNCHANGED <<version, option, scheduled, saving, crashes, broken>>

\* Faulty: a full batch counts as the last one.
EndBatchEarly(w) ==
    /\ worker[w].at = "refresh" /\ worker[w].todo = {}
    /\ Finish(w, worker[w].last)
    /\ UNCHANGED <<version, rows, scheduled, saving, crashes, broken>>

\* Faulty: the chain stops after the first batch.
EndBatchUnscheduled(w) ==
    /\ worker[w].at = "refresh" /\ worker[w].todo = {}
    /\ IF Cardinality(DOMAIN worker[w].read) < BatchSize THEN Finish(w, worker[w].last)
       ELSE /\ SavesProgress(w, "running", worker[w].last)
            /\ worker' = [worker EXCEPT ![w] = Idle]
    /\ UNCHANGED <<version, rows, scheduled, saving, crashes, broken>>

\* The end of run_batch(): the run is over, or the next batch is to be scheduled.
EndBatch(w) ==
    /\ worker[w].at = "refresh" /\ worker[w].todo = {}
    /\ IF Cardinality(DOMAIN worker[w].read) < BatchSize THEN Finish(w, worker[w].last)
       ELSE /\ SavesProgress(w, "running", worker[w].last)
            /\ worker' = [worker EXCEPT ![w] =
                            [at |-> "schedules", t |-> worker[w].t, cron |-> worker[w].cron]]
    /\ UNCHANGED <<version, rows, scheduled, saving, crashes, broken>>

-----------------------------------------------------------------------------
(* DELETE /templates/:id and on_template_deleted() *)

DeleteTemplate(w, t) ==
    /\ worker[w] = Idle /\ Alone
    /\ version[t] > 0
    /\ version' = [version EXCEPT ![t] = 0]
    /\ worker' = [worker EXCEPT ![w] = [at |-> "deleted", t |-> t]]
    /\ UNCHANGED <<rows, option, scheduled, saving, crashes, broken>>

DetachAll(w) ==
    /\ worker[w].at = "deleted"
    /\ rows' = [i \in Ids |-> IF i \in Linked(worker[w].t)
                              THEN [rows[i] EXCEPT !.link = "detached"] ELSE rows[i]]
    /\ worker' = [worker EXCEPT ![w].at = "detached"]
    /\ UNCHANGED <<version, option, scheduled, saving, crashes, broken>>

\* Faulty: leaves the cron event of the run.
ForgetProgress(w) ==
    /\ worker[w].at = "detached"
    /\ option' = [option EXCEPT ![worker[w].t] = NoRun]
    /\ worker' = [worker EXCEPT ![w] = Idle]
    /\ UNCHANGED <<version, rows, scheduled, saving, crashes, broken>>

\* The progress of the run,
ForgetRun(w) ==
    /\ worker[w].at = "detached"
    /\ option' = [option EXCEPT ![worker[w].t] = NoRun]
    /\ worker' = [worker EXCEPT ![w].at = "forgotten"]
    /\ UNCHANGED <<version, rows, scheduled, saving, crashes, broken>>

\* ... and then its event.
ClearEvent(w) ==
    /\ worker[w].at = "forgotten"
    /\ scheduled' = scheduled \ {worker[w].t}
    /\ worker' = [worker EXCEPT ![w] = Idle]
    /\ UNCHANGED <<version, rows, option, saving, crashes, broken>>

\* PHP's time limit, or a deploy, ends the process between two statements.
RequestDies(w) ==
    /\ crashes < MaxCrashes
    /\ worker[w] # Idle
    /\ crashes' = crashes + 1
    /\ broken' = broken \cup {<<worker[w].t, worker[w].at>>}
    /\ worker' = [worker EXCEPT ![w] = Idle]
    /\ UNCHANGED <<version, rows, option, scheduled, saving>>

-----------------------------------------------------------------------------
(* PATCH /signatures/:id *)

\* SignatureService::update() reads the row and its template ...
SaveReads(i) ==
    /\ saving[i] = NoSave /\ Alone
    /\ Stored(i) /\ rows[i].own < MaxOwn
    /\ saving' = [saving EXCEPT ![i] =
         [at |-> "read", link |-> rows[i].link, schema |-> version[TemplateOf[i]]]]
    /\ UNCHANGED <<version, rows, option, scheduled, worker, crashes, broken>>

\* ... and writes what enforce_link_rules() made of the employee's document.
SaveWrites(i) ==
    /\ saving[i].at = "read"
    /\ rows' = IF ~Stored(i) THEN rows ELSE
         [rows EXCEPT ![i].own = @ + 1,
                      ![i].design = IF saving[i].link = "linked" THEN saving[i].schema ELSE 0]
    /\ saving' = [saving EXCEPT ![i] = NoSave]
    /\ UNCHANGED <<version, option, scheduled, worker, crashes, broken>>

\* An administrator detaches the signature, which keeps its design.
Detach(i) ==
    /\ Alone
    /\ rows[i].link = "linked"
    /\ rows' = [rows EXCEPT ![i].link = "detached"]
    /\ UNCHANGED <<version, option, scheduled, worker, saving, crashes, broken>>

-----------------------------------------------------------------------------
(* POST /signatures/:id/duplicate and DELETE /signatures/:id *)

\* SignatureService::duplicate(): a copy of a linked signature stays linked, with the
\* design its source has at that moment.
Duplicate(i) ==
    /\ Alone
    /\ Stored(i)
    /\ \E n \in Ids :
          /\ rows[n].link = "free" /\ \A j \in 1..(n - 1) : rows[j].link # "free"
          /\ TemplateOf[n] = TemplateOf[i]
          /\ rows' = [rows EXCEPT ![n] = rows[i]]
    /\ UNCHANGED <<version, option, scheduled, worker, saving, crashes, broken>>

\* SignatureService::delete()
DeleteSignature(i) ==
    /\ Alone
    /\ Stored(i)
    /\ rows' = [rows EXCEPT ![i].link = "deleted"]
    /\ UNCHANGED <<version, option, scheduled, worker, saving, crashes, broken>>

-----------------------------------------------------------------------------
Serves(w) ==
    \/ Propagate(w) \/ ScheduleNext(w)
    \/ BatchHasNoTemplate(w) \/ BatchReads(w) \/ RefreshRow(w) \/ EndBatch(w)
    \/ DetachAll(w) \/ ForgetRun(w) \/ ClearEvent(w)

Next ==
    \/ \E w \in Workers, t \in Templates :
          UpdateTemplate(w, t) \/ DeleteTemplate(w, t) \/ CronFires(w, t)
    \/ \E w \in Workers : Serves(w) \/ RequestDies(w)
    \/ \E i \in Ids : SaveReads(i) \/ SaveWrites(i) \/ Detach(i) \/ Duplicate(i) \/ DeleteSignature(i)

\* A request that has started goes on; a due cron event is run in the end.
Fairness ==
    /\ \A w \in Workers : WF_vars(Serves(w))
    /\ \A i \in Ids : WF_vars(SaveWrites(i))
    /\ \A t \in Templates : SF_vars(\E w \in Workers : CronFires(w, t))

Spec == Init /\ [][Next]_vars
FairSpec == Spec /\ Fairness

-----------------------------------------------------------------------------
(* Properties *)

RowType == [link : {"linked", "detached", "free", "deleted"}, design : Nat, own : Nat]

ProgressType == [Templates -> [status : {"none", "queued", "running", "done"}, last : {0} \cup Ids]]

Steps == {"updated", "batch", "refresh", "schedules", "deleted", "detached", "forgotten"}

WorkerOK(x) ==
    \/ x = Idle
    \/ x \in [at : {"updated", "deleted", "detached", "forgotten"}, t : Templates]
    \/ x \in [at : {"schedules"}, t : Templates, cron : BOOLEAN]
    \/ x \in [at : {"batch"}, t : Templates, all : ProgressType, cron : BOOLEAN]
    \/ /\ x.at = "refresh"
       /\ x \in [at : {"refresh"}, t : Templates, all : ProgressType, cron : BOOLEAN,
                 schema : Nat \ {0}, read : [DOMAIN x.read -> RowType],
                 todo : SUBSET DOMAIN x.read, last : {0} \cup Ids]
       /\ DOMAIN x.read \subseteq Ids

PropagationTypeOK ==
    /\ version \in [Templates -> Nat]
    /\ rows \in [Ids -> RowType]
    /\ option \in ProgressType
    /\ scheduled \subseteq Templates
    /\ \A w \in Workers : WorkerOK(worker[w])
    /\ \A i \in Ids : saving[i] = NoSave \/
          saving[i] \in [at : {"read"}, link : {"linked", "detached"}, schema : Nat]
    /\ crashes \in Nat
    /\ broken \subseteq Templates \X Steps

\* A worker is between the new design of t and its announcement.
Announcing(t) == \E w \in Workers : worker[w] = [at |-> "updated", t |-> t]

Working(t) == \E w \in Workers : worker[w] # Idle /\ worker[w].t = t

\* A request for t died at one of these steps.
Died(t, steps) == \E s \in steps : <<t, s>> \in broken

\* What the progress says is so: up to the cursor, and everywhere when no run
\* is under way, the linked signatures have the template's current design.  (A
\* request that dies before it announces the design leaves the old progress.)
ProgressIsTrue ==
    \A t \in Templates : \A i \in Linked(t) :
       /\ version[t] > 0 /\ ~Announcing(t) /\ ~Died(t, {"updated"})
       /\ i <= option[t].last \/ (option[t].status \in {"none", "done"} /\ ~Working(t))
       => rows[i].design = version[t]

\* When a run of t is over, every signature linked to t has its current design,
\* however the updates of t followed each other: each started over.
NewUpdateRestarts ==
    \A t \in Templates :
       version[t] > 0 /\ ~Working(t) /\ t \notin scheduled /\ ~Died(t, Steps)
       => \A i \in Linked(t) : rows[i].design = version[t]

\* A deleted template leaves nothing behind: no event, no progress, no link.
NothingLeftBehind ==
    \A t \in Templates : version[t] = 0 /\ ~Working(t) /\ ~Died(t, {"deleted", "detached", "forgotten"}) =>
       t \notin scheduled /\ option[t] = NoRun /\ Linked(t) = {}

\* What is the employee's stays: nothing puts back the texts and variables of a row,
\* and only its owner's save changes the design of a detached one.
OwnWorkStays ==
    [][\A i \in Ids :
          /\ rows'[i].own >= rows[i].own
          /\ rows[i].link = "detached" /\ rows'[i].design # rows[i].design
                => rows'[i].own > rows[i].own]_vars

\* Every signature that stays linked gets the template's last design, unless
\* a request died and nobody saved the template again.
DesignArrives ==
    \A t \in Templates :
       <>[](Died(t, Steps) \/ \A i \in Linked(t) : rows[i].design = version[t])

\* Every run comes to "done", or a request died that was to go on with it: in a batch,
\* or after the progress was stored and before the event was scheduled.  So does the run
\* of a template whose deletion died before the event and the progress were removed.
RunsEnd ==
    \A t \in Templates :
       <>[](Died(t, {"batch", "refresh", "schedules"}) \/ option[t].status \in {"none", "done"})
=============================================================================
