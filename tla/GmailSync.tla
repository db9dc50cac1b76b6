------------------------------ MODULE GmailSync ------------------------------
(***************************************************************************)
(* The daily pass of the Gmail deployment over every owner of a signature  *)
(* (GmailScheduler): the settings that start and stop it, its cursor in    *)
(* the option imgsig_gmail_sync, and the cron events that run it batch by  *)
(* batch, perhaps in two processes at once.  GmailPush has what a push of  *)
(* one user does; its assumption that the pass comes to the user again and *)
(* again is SyncReachesEveryone here.                                      *)
(***************************************************************************)
EXTENDS Naturals, FiniteSets, FiniteSetsExt

CONSTANTS
    Owners,       \* user ids
    BatchScan,    \* BATCH_SCAN
    BatchPushes,  \* BATCH_PUSHES
    Workers,      \* PHP processes that run cron events
    MaxChanges,   \* bound on the changes of the settings
    MaxBatchDeaths

ASSUME GmailSyncAssumption ==
    /\ Owners \subseteq Nat \ {0} /\ IsFiniteSet(Owners)
    /\ {BatchScan, BatchPushes} \subseteq Nat \ {0}
    /\ {MaxChanges, MaxBatchDeaths} \subseteq Nat

VARIABLES
    settings,    \* what is_configured() and daily_sync() answer
    changes,
    sync,        \* SYNC_OPTION
    dailyEvent,  \* DAILY_HOOK is scheduled
    batchEvent,  \* BATCH_HOOK is scheduled
    worker,      \* the batches at work
    visited,     \* the user pushed last
    batchDeaths

syncVars == <<settings, changes, sync, dailyEvent, batchEvent, worker, visited, batchDeaths>>

NoBatch == [busy |-> FALSE, begun |-> FALSE, after |-> 0, page |-> {}, whole |-> FALSE,
            calls |-> 0]

GmailSyncInit ==
    /\ settings = [configured |-> FALSE, daily |-> TRUE]
    /\ changes = 0
    /\ sync = [running |-> FALSE, after |-> 0]
    /\ dailyEvent = FALSE /\ batchEvent = FALSE
    /\ worker = [w \in Workers |-> NoBatch]
    /\ visited = 0
    /\ batchDeaths = 0

Wanted(s) == s.configured /\ s.daily

\* ensure_daily_schedule(), stop_pass()
EnsureDailySchedule(s) ==
    /\ dailyEvent' = Wanted(s)
    /\ IF ~Wanted(s) /\ dailyEvent
       THEN batchEvent' = FALSE /\ sync' = [sync EXCEPT !.running = FALSE]
       ELSE UNCHANGED <<sync, batchEvent>>

\* PATCH and DELETE /admin/gmail/settings: save(), sync_with_settings().
ChangeSettings(s) ==
    /\ changes < MaxChanges /\ changes' = changes + 1
    /\ s # settings /\ settings' = s
    /\ EnsureDailySchedule(s)
    /\ UNCHANGED <<worker, visited, batchDeaths>>

\* owner_ids_after()
PageAfter(id) ==
    LET later == {u \in Owners : id < u}
    IN  {u \in later : Cardinality({v \in later : v < u}) < BatchScan}

\* run_sync_batch() up to its loop.
Begins(w, after) ==
    worker' = [worker EXCEPT ![w] =
        [busy |-> TRUE, begun |-> FALSE, after |-> after, page |-> PageAfter(after),
         whole |-> Cardinality(PageAfter(after)) < BatchScan, calls |-> 0]]

\* run_daily_sync() with a pass younger than STALE_PASS_SECONDS
Resumes ==
    /\ dailyEvent /\ sync.running
    /\ batchEvent' = TRUE
    /\ UNCHANGED <<settings, changes, sync, dailyEvent, worker, visited, batchDeaths>>

\* ... and without.  A pass nobody works on any more is all that gets that old.
Starts(w) ==
    /\ dailyEvent /\ ~worker[w].busy
    /\ sync.running => ~batchEvent /\ \A v \in Workers : ~worker[v].busy
    /\ sync' = [running |-> TRUE, after |-> 0]
    /\ Begins(w, 0)
    /\ UNCHANGED <<settings, changes, dailyEvent, batchEvent, visited, batchDeaths>>

\* The event of a batch: run_sync_batch().
BatchFires(w) ==
    /\ batchEvent /\ batchEvent' = FALSE /\ ~worker[w].busy
    /\ IF sync.running /\ settings.configured
       THEN Begins(w, sync.after) /\ UNCHANGED sync
       ELSE sync' = [sync EXCEPT !.running = FALSE] /\ UNCHANGED worker
    /\ UNCHANGED <<settings, changes, dailyEvent, visited, batchDeaths>>

\* push_user(); attempted() when Gmail was called.
PushesNext(w, attempted) ==
    /\ worker[w].busy /\ worker[w].page # {} /\ worker[w].calls < BatchPushes
    /\ LET u == Min(worker[w].page)
       IN  /\ visited' = u
           /\ worker' = [worker EXCEPT ![w].page = @ \ {u}, ![w].after = u, ![w].begun = TRUE,
                                       ![w].calls = IF attempted THEN @ + 1 ELSE @]
    /\ UNCHANGED <<settings, changes, sync, dailyEvent, batchEvent, batchDeaths>>

\* Faulty: a page that is done is taken for the last one.
FinishedAnyPage(b) == b.page = {}

Finished(b) == b.page = {} /\ b.whole

\* Faulty: the end of the pass is forgotten.
BatchEndsOpen(w) ==
    /\ worker[w].busy
    /\ worker[w].begun \/ worker[w].page = {}
    /\ sync' = [running |-> TRUE, after |-> worker[w].after]
    /\ batchEvent' = TRUE
    /\ worker' = [worker EXCEPT ![w] = NoBatch]
    /\ UNCHANGED <<settings, changes, dailyEvent, visited, batchDeaths>>

\* The page is done, or the calls or the time are spent (not before the first
\* user): the state read at the start is stored.
BatchEnds(w) ==
    /\ worker[w].busy
    /\ worker[w].begun \/ worker[w].page = {}
    /\ LET over == Finished(worker[w])
       IN  /\ sync' = [running |-> ~over, after |-> worker[w].after]
           /\ batchEvent' = (batchEvent \/ ~over)
    /\ worker' = [worker EXCEPT ![w] = NoBatch]
    /\ UNCHANGED <<settings, changes, dailyEvent, visited, batchDeaths>>

\* The process dies: nothing is stored, and no event continues the pass.
BatchDies(w) ==
    /\ worker[w].busy
    /\ batchDeaths < MaxBatchDeaths /\ batchDeaths' = batchDeaths + 1
    /\ worker' = [worker EXCEPT ![w] = NoBatch]
    /\ UNCHANGED <<settings, changes, sync, dailyEvent, batchEvent, visited>>

GmailSyncNext ==
    \/ \E s \in [configured : BOOLEAN, daily : BOOLEAN] : ChangeSettings(s)
    \/ Resumes
    \/ \E w \in Workers : \/ Starts(w) \/ BatchFires(w) \/ BatchEnds(w) \/ BatchDies(w)
                          \/ \E attempted \in BOOLEAN : PushesNext(w, attempted)

GmailSyncSpec == GmailSyncInit /\ [][GmailSyncNext]_syncVars

-----------------------------------------------------------------------------
GmailSyncTypeOK ==
    /\ settings \in [configured : BOOLEAN, daily : BOOLEAN]
    /\ changes \in 0..MaxChanges
    /\ sync \in [running : BOOLEAN, after : {0} \cup Owners]
    /\ {dailyEvent, batchEvent} \subseteq BOOLEAN
    /\ worker \in [Workers -> [busy : BOOLEAN, begun : BOOLEAN, after : {0} \cup Owners,
                               page : SUBSET Owners,
                               whole : BOOLEAN, calls : 0..BatchPushes]]
    /\ visited \in {0} \cup Owners
    /\ batchDeaths \in 0..MaxBatchDeaths

\* As long as the daily sync stays on it comes to every owner again and again,
\* whatever batches die or overlap.
SyncReachesEveryone ==
    \A u \in Owners : <>[]dailyEvent => []<>(visited = u)

\* Switched off: no event continues the pass and no batch is at work.
SyncRests == ~batchEvent /\ \A w \in Workers : ~worker[w].busy
=============================================================================
