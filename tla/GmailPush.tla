------------------------------ MODULE GmailPush ------------------------------
(***************************************************************************)
(* The signature of one user on its way to Gmail: the listener that        *)
(* schedules a push when the primary signature's HTML changes, the cron    *)
(* event, its retries (GmailScheduler), and the push itself with the       *)
(* outcome it records (GmailPusher, DeploymentStatus).  It reads the rows  *)
(* of CompiledHtml and hears of their changes through the hook             *)
(* PrimaryHtmlChanged.                                                     *)
(***************************************************************************)
EXTENDS CompiledHtml

CONSTANTS
    DailySync,   \* the setting daily_sync
    Partial,     \* a push that fails may have changed the mailbox
    MaxFailures  \* bound on failures of Gmail

ASSUME GmailPushAssumption ==
    {DailySync, Partial} \subseteq BOOLEAN /\ MaxFailures \in Nat

VARIABLES
    pending,  \* the event PUSH_HOOK: "no", "soon" (debounce) or "later" (back-off)
    sending,  \* the HTML a push is sending, NoHtml when none is under way
    record,   \* DeploymentStatus of the user, channel gmail
    mailbox,  \* the signature Gmail uses
    failures

gmailVars == <<pending, sending, record, mailbox, failures>>

MaxRetries == 3

GmailPushInit ==
    /\ pending = "no"
    /\ sending = NoHtml
    /\ record = [hash |-> NoHtml, error |-> FALSE, retries |-> 0]
    /\ mailbox = NoHtml
    /\ failures = 0

\* schedule_push(): an event that is due sooner stays.
Sooner(when) == IF pending = "soon" THEN "soon" ELSE when

\* on_primary_html_changed(), called by the hook.
OnPrimaryHtmlChanged ==
    /\ pending' = IF PrimaryHtmlChanged THEN Sooner("soon") ELSE pending
    /\ UNCHANGED <<sending, record, mailbox, failures>>

\* Faulty: compares designs where HTML is meant.
UpToDateByDesign(r) == record.hash[1] = r.html[1] /\ ~record.error

\* The hash was pushed, and nothing failed since.
UpToDate(r) == record.hash = r.html /\ ~record.error

\* GmailPusher::run() up to the call of Gmail; a skip forgets the last error.
Reads(force) ==
    /\ sending = NoHtml
    /\ Overlap \/ (saving = NoSave /\ pass.at # "checked")
    /\ \E i \in Ids :
          /\ IsPrimary(i)
          /\ IF IsStale(rows[i])
             THEN record' = [record EXCEPT !.error = FALSE] /\ UNCHANGED sending
             ELSE /\ sending' = IF UpToDate(rows[i]) /\ ~force THEN NoHtml
                                ELSE rows[i].html
                  /\ UNCHANGED record
    /\ UNCHANGED <<mailbox, failures>>

\* run_scheduled_push(), by wp-cron, which has taken the event off its list.
EventFires ==
    /\ pending # "no" /\ pending' = "no"
    /\ Reads(FALSE)

\* The daily pass comes to the user.
DailyFires ==
    /\ DailySync
    /\ Reads(FALSE)
    /\ UNCHANGED pending

\* POST /admin/gmail/push with force.
AdminPushes ==
    /\ Reads(TRUE)
    /\ UNCHANGED pending

\* Gmail accepts the signature, and the alias settings too.
Pushed ==
    /\ sending # NoHtml
    /\ mailbox' = sending
    /\ record' = [hash |-> sending, error |-> FALSE, retries |-> 0]
    /\ sending' = NoHtml
    /\ UNCHANGED <<pending, failures>>

\* Faulty: the record takes the hash of what was not pushed.
FailedRecordsHash(retryable) ==
    /\ sending # NoHtml /\ failures < MaxFailures
    /\ failures' = failures + 1
    /\ UNCHANGED <<mailbox, pending>>
    /\ record' = [hash |-> sending, error |-> FALSE, retries |-> 0]
    /\ sending' = NoHtml

\* A GmailException, then maybe_schedule_retry().  When it comes late (an alias
\* is refused, the answer is lost) the mailbox has changed already.
Failed(retryable) ==
    /\ sending # NoHtml /\ failures < MaxFailures
    /\ failures' = failures + 1
    /\ \/ UNCHANGED mailbox
       \/ Partial /\ mailbox' = sending
    /\ LET retries == IF retryable THEN record.retries + 1 ELSE 0
       IN  /\ record' = [record EXCEPT !.error = TRUE, !.retries = retries]
           /\ pending' = IF retryable /\ retries <= MaxRetries
                         THEN Sooner("later") ELSE pending
    /\ sending' = NoHtml

GmailPushNext ==
    \/ EventFires \/ DailyFires \/ AdminPushes
    \/ Pushed
    \/ \E retryable \in BOOLEAN : Failed(retryable)

-----------------------------------------------------------------------------
(* The composition. *)

vars == <<htmlVars, gmailVars>>

Init == CompiledHtmlInit /\ GmailPushInit

Next ==
    \/ CompiledHtmlNext /\ OnPrimaryHtmlChanged
    \/ GmailPushNext /\ UNCHANGED htmlVars

\* The browser goes on with its pass, requests end, hooks run, cron events are
\* run, Gmail answers, the daily pass comes again and again.
Fairness ==
    /\ WF_vars(Recompile /\ OnPrimaryHtmlChanged)
    /\ WF_vars(SaveWrites /\ OnPrimaryHtmlChanged)
    /\ WF_vars(Mark /\ OnPrimaryHtmlChanged)
    /\ WF_vars(CheckWindow /\ OnPrimaryHtmlChanged)
    /\ SF_vars(EventFires /\ UNCHANGED htmlVars)
    /\ SF_vars(DailyFires /\ UNCHANGED htmlVars)
    /\ WF_vars((Pushed \/ \E retryable \in BOOLEAN : Failed(retryable)) /\ UNCHANGED htmlVars)

Spec == Init /\ [][Next]_vars
FairSpec == Spec /\ Fairness

-----------------------------------------------------------------------------
DeliveryTypeOK ==
    /\ CompiledHtmlTypeOK
    /\ pending \in {"no", "soon", "later"}
    /\ sending \in Html /\ mailbox \in Html
    /\ record \in [hash : Html, error : BOOLEAN, retries : 0..MaxFailures]
    /\ failures \in 0..MaxFailures

\* Without a recorded error the hash in the record is that of what Gmail uses:
\* the team console compares it with the signature's (GmailPusher, "`at` / `hash`
\* only move on success").
RecordMatchesMailbox == ~record.error => record.hash = mailbox

\* A fresh primary signature that Gmail does not have gets there, or changes
\* again, whatever was skipped, failed or joined a later push meanwhile.
MailboxCatchesUp ==
    (\E i \in Ids : IsPrimary(i) /\ ~IsStale(rows[i]) /\ rows[i].html # mailbox)
    ~> (\A i \in Ids : IsPrimary(i) => IsStale(rows[i]) \/ rows[i].html = mailbox)
=============================================================================
