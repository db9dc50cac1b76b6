----------------------------- MODULE OutlookLaunch -----------------------------
(***************************************************************************)
(* The Outlook add-in (assets/outlook/launchevent.js): each new message or *)
(* meeting raises an event, whose handler inserts the signature the site   *)
(* has for the mailbox, or the copy an earlier handler cached, and says    *)
(* that it is done.  Handlers overlap, the accounts of one browser share   *)
(* the cache, signatures are replaced and withdrawn on the site, and the   *)
(* site, the storage and Outlook may fail or never answer.                 *)
(***************************************************************************)
EXTENDS Naturals, FiniteSets

CONSTANTS
    Mailboxes,   \* the accounts, numbered; each begins with the signature of its number
    MaxEvents,   \* bound on the events
    MaxOpen,     \* bound on the events at the same time
    MaxSiteChanges, \* bound on the changes of a signature on the site
    CacheTtl,    \* CACHE_TTL_MS, in hours of the model
    StaleMax,    \* STALE_MAX_MS, in hours of the model
    MaxHour      \* bound on the clock

ASSUME OutlookAssumption ==
    /\ {MaxEvents, MaxOpen, MaxSiteChanges, CacheTtl, StaleMax, MaxHour} \subseteq Nat
    /\ 0 < CacheTtl /\ CacheTtl < StaleMax
    /\ IsFiniteSet(Mailboxes) /\ Mailboxes = 1..Cardinality(Mailboxes)

VARIABLES
    hour,      \* Date.now()
    served,    \* the signature the site has for each mailbox, 0 for none
    siteChanges, \* how often a signature has changed there
    until,     \* when the site stopped having a signature
    copy,      \* what is stored under CACHE_KEY
    raised,    \* how many events there were
    compose    \* the handlers at work, each in a place one before it has left

outlookVars == <<hour, served, siteChanges, until, copy, raised, compose>>

LaunchEvents == 1..MaxOpen
Htmls == 1..(Cardinality(Mailboxes) + MaxSiteChanges)
NoCopy == [of |-> 0, html |-> 0, at |-> 0]

\* A handler: where it is, for which mailbox, the copy it read or took, what the site
\* answered, and how often it called event.completed().
NotRaised == [at |-> "unraised", mailbox |-> 0, found |-> NoCopy,
              answer |-> 0, siteFailed |-> FALSE, completed |-> 0]

AtWork(e) == compose[e].at \notin {"unraised", "over"}

OutlookInit ==
    /\ hour = 0
    /\ served = [m \in Mailboxes |-> m] /\ siteChanges = 0
    /\ until = [h \in Htmls |-> 0]
    /\ copy = NoCopy /\ raised = 0
    /\ compose = [e \in LaunchEvents |-> NotRaised]

\* An hour passes, and a minute is nothing in it: no handler is at work meanwhile.
HourPasses ==
    /\ hour < MaxHour /\ hour' = hour + 1
    /\ \A e \in LaunchEvents : ~AtWork(e)
    /\ UNCHANGED <<served, siteChanges, until, copy, raised, compose>>

\* The primary signature of the user of m is replaced, stored again or deleted.
SiteChanges(m) ==
    /\ siteChanges < MaxSiteChanges /\ siteChanges' = siteChanges + 1
    /\ \E html \in {Cardinality(Mailboxes) + siteChanges', 0} \ {served[m]} :
          served' = [served EXCEPT ![m] = html]
    /\ until' = [h \in Htmls |-> IF h = served[m] THEN hour ELSE until[h]]
    /\ UNCHANGED <<hour, copy, raised, compose>>

\* Faulty: whatever is there.
UsableByAnyone(entry, mailbox, maxAge) == entry # NoCopy /\ hour - entry.at < maxAge

\* usable(): only for the mailbox it was fetched for, and not for ever
Usable(entry, mailbox, maxAge) ==
    /\ entry # NoCopy
    /\ entry.of = mailbox
    /\ hour - entry.at < maxAge

\* Faulty: no flag.
CompletedAgain(handler) == [handler EXCEPT !.completed = @ + 1]

\* complete(): the flag `done` keeps a second call away.
Completed(handler) == [handler EXCEPT !.completed = IF @ = 0 THEN 1 ELSE @]

\* insertSignature() is over: handle() completes the event.
Ends(e) ==
    compose' = [compose EXCEPT ![e] =
                    Completed([NotRaised EXCEPT !.at = "over", !.completed = compose[e].completed])]

\* A new message in one of the accounts, while other handlers may be at work.
Raised(e, m) ==
    /\ ~AtWork(e) /\ \A d \in 1..(e - 1) : AtWork(d)
    /\ raised < MaxEvents /\ raised' = raised + 1
    /\ compose' = [compose EXCEPT ![e] = [NotRaised EXCEPT !.at = "reads", !.mailbox = m]]
    /\ UNCHANGED <<hour, served, siteChanges, until, copy>>

\* cacheRead(), which finds nothing when the storage fails, and what follows from it
ReadsCopy(e) ==
    /\ compose[e].at = "reads"
    /\ \E found \in {copy, NoCopy} :
          compose' = [compose EXCEPT
              ![e].found = found,
              ![e].at = IF Usable(found, compose[e].mailbox, CacheTtl) THEN "applies" ELSE "asks"]
    /\ UNCHANGED <<hour, served, siteChanges, until, copy, raised>>

\* resolve(): the site has a signature for the address, or answers 404.
SiteAnswers(e) ==
    /\ compose[e].at = "asks"
    /\ compose' = [compose EXCEPT ![e].at = "answered", ![e].answer = served[compose[e].mailbox]]
    /\ UNCHANGED <<hour, served, siteChanges, until, copy, raised>>

\* The body was read: it is cached, unless the storage is full.  A 404 leaves the
\* copy where it is.
AnswerArrives(e) ==
    /\ compose[e].at = "answered"
    /\ IF compose[e].answer = 0
       THEN Ends(e) /\ UNCHANGED copy
       ELSE LET fresh == [of |-> compose[e].mailbox, html |-> compose[e].answer, at |-> hour]
            IN  /\ copy' \in {fresh, copy}
                /\ compose' = [compose EXCEPT ![e].at = "applies", ![e].found = fresh,
                                              ![e].answer = 0]
    /\ UNCHANGED <<hour, served, siteChanges, until, raised>>

\* Faulty: what was good enough once more is cached once more.
FetchFailsKeeps(e) ==
    /\ compose[e].at \in {"asks", "answered"}
    /\ IF Usable(compose[e].found, compose[e].mailbox, StaleMax)
       THEN /\ compose' = [compose EXCEPT ![e].at = "applies", ![e].siteFailed = TRUE]
            /\ copy' = [compose[e].found EXCEPT !.at = hour]
       ELSE Ends(e) /\ UNCHANGED copy
    /\ UNCHANGED <<hour, served, siteChanges, until, raised>>

\* No network, the timeout of fifteen seconds, another status, a broken body: the
\* copy read before has to do.
FetchFails(e) ==
    /\ compose[e].at \in {"asks", "answered"}
    /\ IF Usable(compose[e].found, compose[e].mailbox, StaleMax)
       THEN compose' = [compose EXCEPT ![e].at = "applies", ![e].siteFailed = TRUE]
       ELSE Ends(e)
    /\ UNCHANGED <<hour, served, siteChanges, until, copy, raised>>

\* applySignature() comes back from Outlook, whether Outlook took it or not.
Applied(e) ==
    /\ compose[e].at = "applies" /\ Ends(e)
    /\ UNCHANGED <<hour, served, siteChanges, until, copy, raised>>

\* Faulty: the timer is taken down when the site answers.
SafetyFiresEarly(e) ==
    /\ compose[e].at \in {"reads", "asks"}
    /\ compose[e].completed = 0
    /\ compose' = [compose EXCEPT ![e] = Completed(@)]
    /\ UNCHANGED <<hour, served, siteChanges, until, copy, raised>>

\* The safety timer: the event is over for Outlook, the handler goes on.
SafetyFires(e) ==
    /\ AtWork(e) /\ compose[e].completed = 0
    /\ compose' = [compose EXCEPT ![e] = Completed(@)]
    /\ UNCHANGED <<hour, served, siteChanges, until, copy, raised>>

\* Outlook may end the runtime of a completed event.
RuntimeEnds(e) ==
    /\ AtWork(e) /\ compose[e].completed > 0
    /\ Ends(e)
    /\ UNCHANGED <<hour, served, siteChanges, until, copy, raised>>

OutlookNext ==
    \/ HourPasses
    \/ \E m \in Mailboxes : SiteChanges(m)
    \/ \E e \in LaunchEvents :
          \/ \E m \in Mailboxes : Raised(e, m)
          \/ ReadsCopy(e) \/ SiteAnswers(e) \/ AnswerArrives(e) \/ FetchFails(e)
          \/ Applied(e) \/ SafetyFires(e) \/ RuntimeEnds(e)

OutlookSpec == OutlookInit /\ [][OutlookNext]_outlookVars

-----------------------------------------------------------------------------
Copies == [of : {0} \cup Mailboxes, html : {0} \cup Htmls, at : 0..MaxHour]
Handlers ==
    [at : {"unraised", "reads", "asks", "answered", "applies", "over"},
     mailbox : {0} \cup Mailboxes, found : Copies,
     answer : {0} \cup Htmls, siteFailed : BOOLEAN, completed : 0..1]

\* The types; no event is completed twice.
OutlookTypeOK ==
    /\ hour \in 0..MaxHour /\ siteChanges \in 0..MaxSiteChanges
    /\ served \in [Mailboxes -> {0} \cup Htmls] /\ until \in [Htmls -> 0..MaxHour]
    /\ copy \in Copies /\ raised \in 0..MaxEvents
    /\ compose \in [LaunchEvents -> Handlers]

\* Every event that was raised is completed, whatever never answers (a storage, the
\* body of an answer, Outlook itself): the rest only waits for the safety timer.
EventsCompleted == \A e \in LaunchEvents : AtWork(e) => compose[e].completed > 0

\* What a handler takes to insert is a signature of its own mailbox, and not one the
\* site has stopped having for longer than the hour, or while the site cannot be
\* reached the seven days, of the cache.  The copy of an overtaken answer, of the
\* other account, or one that an earlier failure already had to do with, changes
\* nothing in that.
SignatureIsRecent ==
    [][\A e \in LaunchEvents :
          compose'[e].at = "applies" /\ compose[e].at # "applies" =>
              LET entry == compose'[e].found
                  limit == IF compose'[e].siteFailed THEN StaleMax ELSE CacheTtl
              IN  /\ entry.of = compose[e].mailbox
                  /\ \/ entry.html = served[entry.of]
                     \/ hour - until[entry.html] < limit]_outlookVars
=============================================================================
