----------------------------- MODULE SaveEngine -----------------------------
(***************************************************************************)
(* One editor tab and the server row it edits: the save engine             *)
(* (services/persistence.ts), the autosave hook (hooks/useAutosave.ts),    *)
(* the save state the topbar shows (stores/persistenceStore.ts), opening a *)
(* row (hooks/useLoadSignature.ts), detaching it from its template         *)
(* (services/templateLink.ts), the back arrow and the browser's            *)
(* beforeunload.                                                           *)
(*                                                                         *)
(* JavaScript runs one task at a time, so an action is one task: a click   *)
(* or key press with the React effects it flushes, a timer, an answer from *)
(* the network with the continuation of every function awaiting it.        *)
(*                                                                         *)
(* A document is its version (every change makes a new one) and its kind:  *)
(*   "empty"    it has no block;                                           *)
(*   "plain"    the server stores it as it is;                             *)
(*   "unclean"  the server stores a sanitised copy, equal up to its kind;  *)
(*   "unusable" the row holds no readable schema.                          *)
(* The name and status columns are one version number, meta.  Versions 0   *)
(* and 1 are what the page and the row start with.                         *)
(***************************************************************************)
EXTENDS Naturals, Sequences, FiniteSets

CONSTANTS
    Openings,   \* how the tab may be opened: subset of AllOpenings
    Events,     \* what may happen in the run: subset of AllEvents
    EditKinds,  \* kinds of document an edit may produce
    MaxChanges, \* bound on edits of the document, its name and its status
    MaxLosses,  \* bound on requests whose answer never reaches the tab
    MaxLimits   \* bound on 429 answers

AllOpenings == {"new", "existing", "gone", "unusable"}

AllEvents ==
    { "early"      \* the user saves or leaves before the row has loaded
    , "loadError"  \* the GET fails with something else than a 404
    , "overlap"    \* the user edits while a save is in flight
    , "assets"     \* an upload finishes, and writes its address, during a detach
    , "loss"       \* the connection drops a request or its answer
    , "straggler"  \* ... and the server may still run the dropped request, later
    , "refuse"     \* the server answers an error
    , "limit"      \* the rate limiter answers 429
    , "detach" }   \* the signature follows a template and may be detached

ASSUME SaveEngineAssumption ==
    /\ Openings \subseteq AllOpenings /\ Openings # {}
    /\ Events \subseteq AllEvents
    /\ EditKinds \subseteq {"empty", "plain", "unclean"}
    /\ {MaxChanges, MaxLosses, MaxLimits} \subseteq Nat

VARIABLES
    tab,        \* "open", "closed" without a warning, "discarded" despite one
    loaded,     \* persistenceStore.isLoaded
    doc,        \* schemaStore.schema
    meta,       \* persistenceStore.signatureName and signatureStatus
    edited,     \* schemaStore.hasUserEdited
    isDirty, isSaving, lastError,   \* persistenceStore
    signatureId,                    \* 0 until the row exists
    saving,     \* a saveNow() call is in flight (inFlight # null)
    timer,      \* the autosave timer is set
    paused,     \* a 429 pause has not run out (pausedUntil > now)
    link,       \* "free", "linked" or "detached"
    detach,     \* detachFromTemplate(): "no", "flushing" or "sent"
    leaving,    \* the back arrow awaits saveNow()
    net,        \* requests the server has not answered, or whose answer travels
    rows,       \* the rows of the table this tab may touch, by id
    fresh,                          \* the latest version handed out
    losses, limits                  \* counters for the bounds

canvas  == <<doc, meta, edited>>
status  == <<isDirty, isSaving, lastError>>
engine  == <<signatureId, saving, timer, paused>>
waiting == <<link, detach, leaving>>
world   == <<net, rows>>
bounds  == <<fresh, losses, limits>>
client  == <<tab, loaded, canvas, status, engine, waiting>>
vars == <<client, net, rows, fresh, losses, limits>>

-----------------------------------------------------------------------------
Blank  == [v |-> 0, kind |-> "empty"]
Opened == [v |-> 1, kind |-> "plain"]

\* What the sanitiser keeps of a document.
Clean(d) == IF d.kind = "unclean" THEN [d EXCEPT !.kind = "plain"] ELSE d

\* The rows there are when the tab opens on ?id=1, or without an id.
OpenedRows ==
    [ new      |-> <<>>,
      existing |-> << [doc |-> Opened, meta |-> 1, live |-> TRUE, mine |-> FALSE] >>,
      gone     |-> << [doc |-> Opened, meta |-> 1, live |-> FALSE, mine |-> FALSE] >>,
      unusable |-> << [doc |-> [Opened EXCEPT !.kind = "unusable"],
                       meta |-> 1, live |-> TRUE, mine |-> FALSE] >> ]

Init ==
    \E o \in Openings :
       /\ rows = OpenedRows[o]
       /\ loaded = (o = "new")
       /\ signatureId = IF o = "new" THEN 0 ELSE 1
       /\ link = IF "detach" \in Events /\ o = "existing" THEN "linked" ELSE "free"
       /\ tab = "open"
       /\ doc = Blank
       /\ meta = 0
       /\ edited = FALSE
       /\ isDirty = FALSE /\ isSaving = FALSE /\ lastError = FALSE
       /\ saving = FALSE /\ timer = FALSE /\ paused = FALSE
       /\ detach = "no" /\ leaving = FALSE
       /\ net = {}
       /\ fresh = 1 /\ losses = 0 /\ limits = 0

-----------------------------------------------------------------------------
(* What the code calls in more than one place. *)

\* The functions awaiting saveNow() go on before any other task runs.
Settled == ~saving => detach # "flushing" /\ ~leaving

\* The beforeunload handler.
Warns == isDirty \/ isSaving \/ saving \/ timer

\* The effect of useAutosave on [schema, hasUserEdited, isLoaded].
Watch ==
    IF loaded' /\ edited'
    THEN isDirty' = TRUE /\ lastError' = FALSE /\ timer' = TRUE
    ELSE UNCHANGED <<isDirty, lastError, timer>>

\* A retry carries what the lost request carried: after tells them apart.
Request(kind) ==
    [ kind |-> kind, id |-> signatureId, doc |-> doc, meta |-> meta,
      answer |-> "none", heard |-> TRUE, after |-> losses ]

\* runSave() up to its await.  An empty new signature is not stored.
RunSave ==
    IF signatureId = 0 /\ doc.kind = "empty"
    THEN UNCHANGED <<net, saving, isSaving>>
    ELSE /\ net' = net \cup {Request("save")}
         /\ saving' = TRUE
         /\ isSaving' = TRUE

\* Faulty: sends a second request beside the one in flight.
SaveNowUnshared ==
    /\ timer' = FALSE
    /\ RunSave

\* saveNow(): takes the timer down and joins the save in flight, if any.
SaveNow ==
    /\ timer' = FALSE
    /\ IF saving THEN UNCHANGED <<net, saving, isSaving>> ELSE RunSave

-----------------------------------------------------------------------------
(* Opening the row. *)

\* The row's design, if readable, and its columns; the autosave gate opens.
LoadSucceeds ==
    /\ tab = "open" /\ ~loaded /\ rows[1].live
    /\ loaded' = TRUE
    /\ meta' = rows[1].meta
    /\ IF rows[1].doc.kind = "unusable"
       THEN UNCHANGED <<doc, edited>>
       ELSE doc' = rows[1].doc /\ edited' = FALSE
    /\ Watch
    /\ UNCHANGED <<tab, isSaving, signatureId, saving, paused, waiting, world,
                   bounds>>

\* A stale ?id=: the engine goes on as for a new signature.
LoadNotFound ==
    /\ tab = "open" /\ ~loaded /\ ~rows[1].live
    /\ loaded' = TRUE
    /\ signatureId' = 0
    /\ UNCHANGED <<doc, edited>>
    /\ Watch
    /\ UNCHANGED <<tab, meta, isSaving, saving, paused, waiting, world, bounds>>

\* Any other failure leaves the blank canvas on row 1.
LoadFails ==
    /\ "loadError" \in Events
    /\ tab = "open" /\ ~loaded
    /\ loaded' = TRUE
    /\ UNCHANGED <<doc, edited>>
    /\ Watch
    /\ UNCHANGED <<tab, meta, isSaving, signatureId, saving, paused, waiting,
                   world, bounds>>

-----------------------------------------------------------------------------
(* The user, and the timers. *)

\* When something changes, and that it is new.  The detach dialog covers the
\* canvas: only derived writes happen under it.
Change ==
    /\ tab = "open" /\ Settled
    /\ loaded \/ "early" \in Events
    /\ ~saving \/ "overlap" \in Events
    /\ detach = "no" \/ "assets" \in Events
    /\ fresh <= MaxChanges
    /\ fresh' = fresh + 1

\* Faulty: a change of the document is only shown, not scheduled.
EditUnwatched(kind) ==
    /\ Change
    /\ doc' = [v |-> fresh', kind |-> kind]
    /\ edited' = TRUE
    /\ isDirty' = TRUE /\ lastError' = FALSE
    /\ UNCHANGED <<tab, loaded, meta, isSaving, engine, waiting, world, losses,
                   limits>>

\* Any mutation of the schema store.
Edit(kind) ==
    /\ Change
    /\ doc' = [v |-> fresh', kind |-> kind]
    /\ edited' = TRUE
    /\ UNCHANGED loaded
    /\ Watch
    /\ UNCHANGED <<tab, meta, isSaving, signatureId, saving, paused, waiting,
                   world, losses, limits>>

\* The name field and the status list of the topbar: no autosave is scheduled.
ChangeMeta ==
    /\ Change /\ detach = "no"
    /\ meta' = fresh'
    /\ isDirty' = TRUE /\ lastError' = FALSE
    /\ UNCHANGED <<tab, loaded, doc, edited, isSaving, engine, waiting, world,
                   losses, limits>>

AutosaveFires ==
    /\ tab = "open" /\ Settled
    /\ timer /\ ~paused
    /\ SaveNow
    /\ UNCHANGED <<tab, loaded, canvas, isDirty, lastError, signatureId, paused,
                   waiting, rows, bounds>>

PauseEnds ==
    /\ paused
    /\ paused' = FALSE
    /\ UNCHANGED <<tab, loaded, canvas, status, signatureId, saving, timer,
                   waiting, world, bounds>>

\* The Save button and Cmd-S.
ManualSave ==
    /\ tab = "open" /\ Settled
    /\ loaded \/ "early" \in Events
    /\ SaveNow
    /\ UNCHANGED <<tab, loaded, canvas, isDirty, lastError, signatureId, paused,
                   waiting, rows, bounds>>

\* The back arrow: save, and navigate when that is done.
BackArrow ==
    /\ tab = "open" /\ Settled /\ ~leaving /\ detach = "no"
    /\ loaded \/ "early" \in Events
    /\ SaveNow
    /\ leaving' = TRUE
    /\ UNCHANGED <<tab, loaded, canvas, isDirty, lastError, signatureId, paused,
                   link, detach, rows, bounds>>

\* The page goes away: its timers with it, its requests unheard.
Unload(how) ==
    /\ tab' = how
    /\ timer' = FALSE
    /\ leaving' = FALSE
    /\ detach' = "no"
    /\ saving' = FALSE
    /\ net' = {[r EXCEPT !.heard = FALSE] : r \in net}

\* The navigation of the back arrow.  The browser asks when the handler
\* warns, and the user may then stay.
Navigates ==
    /\ tab = "open" /\ leaving /\ ~saving
    /\ \/ Warns /\ Unload("discarded")
       \/ ~Warns /\ Unload("closed")
       \/ /\ Warns
          /\ leaving' = FALSE
          /\ UNCHANGED <<tab, timer, detach, saving, net>>
    /\ UNCHANGED <<loaded, canvas, status, signatureId, paused, link, rows,
                   bounds>>

\* Closing the tab.
CloseTab ==
    /\ tab = "open" /\ Settled
    /\ loaded \/ "early" \in Events
    /\ Unload(IF Warns THEN "discarded" ELSE "closed")
    /\ UNCHANGED <<loaded, canvas, status, signatureId, paused, link, rows,
                   bounds>>

-----------------------------------------------------------------------------
(* The server. *)

\* The row a request is for has been deleted.
Gone(r) == IF r.id = 0 THEN FALSE ELSE ~rows[r.id].live

\* A row is stored, re-read and compared, then returned: what the answer
\* carries is what the row holds.
Stores(r) ==
    /\ r \in net /\ r.answer = "none"
    /\ ~Gone(r)
    /\ LET id     == IF r.id = 0 THEN Len(rows) + 1 ELSE r.id
           stored == [doc |-> Clean(r.doc), meta |-> r.meta, live |-> TRUE,
                      mine |-> r.id = 0 \/ rows[r.id].mine]
       IN  /\ rows' = IF r.id = 0 THEN Append(rows, stored)
                      ELSE [rows EXCEPT ![id] = stored]
           /\ net' = IF r.heard
                     THEN (net \ {r}) \cup {[r EXCEPT !.answer = "ok", !.id = id]}
                     ELSE net \ {r}
    /\ UNCHANGED <<client, bounds>>

Answers(r, answer) ==
    /\ r \in net /\ r.answer = "none"
    /\ net' = IF r.heard THEN (net \ {r}) \cup {[r EXCEPT !.answer = answer]}
              ELSE net \ {r}

Refuses(r) ==
    /\ "refuse" \in Events \/ Gone(r)
    /\ Answers(r, "refused")
    /\ UNCHANGED <<client, rows, bounds>>

Limits(r) ==
    /\ "limit" \in Events /\ limits < MaxLimits
    /\ Answers(r, "limited")
    /\ limits' = limits + 1
    /\ UNCHANGED <<client, rows, fresh, losses>>

-----------------------------------------------------------------------------
(* Answers reach the tab. *)

MarkSaved == isDirty' = FALSE /\ isSaving' = FALSE /\ lastError' = FALSE

Hear(r, kind, answer) ==
    /\ r \in net /\ r.heard /\ r.kind = kind /\ r.answer = answer
    /\ net' = net \ {r}

\* The user has not edited since the request was sent (schema === sent).
Unchanged(r) == doc = r.doc

\* Faulty: adopts the server's copy over newer edits.
AdoptsAnyway(r) == Clean(r.doc) # r.doc

\* Faulty: takes every stored copy for a changed one (1.0.25 and before).
AdoptsEqual(r) == Unchanged(r)

\* Faulty: keeps showing what the server did not store.
AdoptsNever(r) == FALSE

\* reconcile(): the server changed the document and the editor still shows it.
Adopts(r) == Clean(r.doc) # r.doc /\ Unchanged(r)

\* Faulty: forgets the id the server gave to the new row.
SavedForgetsId(r) ==
    /\ Hear(r, "save", "ok")
    /\ saving' = FALSE /\ paused' = FALSE
    /\ MarkSaved
    /\ UNCHANGED <<canvas, timer, signatureId, tab, loaded, waiting, rows,
                   bounds>>

\* The rest of runSave() and saveNow().  An adopted copy is an edit: the
\* autosave hook sees it after markSaved().
Saved(r) ==
    /\ Hear(r, "save", "ok")
    /\ signatureId' = r.id
    /\ saving' = FALSE /\ paused' = FALSE
    /\ IF Adopts(r)
       THEN /\ doc' = Clean(r.doc)
            /\ edited' = TRUE
            /\ isSaving' = FALSE /\ lastError' = FALSE
            /\ isDirty' = loaded
            /\ timer' = (timer \/ loaded)
       ELSE MarkSaved /\ UNCHANGED <<doc, edited, timer>>
    /\ UNCHANGED <<tab, loaded, meta, waiting, rows, bounds>>

\* Faulty: reports the pause and sets no timer for the retry.
SaveLimitedOnce(r) ==
    /\ Hear(r, "save", "limited")
    /\ saving' = FALSE /\ paused' = TRUE
    /\ isDirty' = TRUE /\ lastError' = FALSE
    /\ UNCHANGED <<tab, loaded, canvas, isSaving, timer, signatureId, waiting,
                   rows, bounds>>

\* handleRateLimit()
SaveLimited(r) ==
    /\ Hear(r, "save", "limited")
    /\ saving' = FALSE /\ paused' = TRUE
    /\ isDirty' = TRUE /\ lastError' = FALSE /\ timer' = TRUE
    /\ UNCHANGED <<tab, loaded, canvas, isSaving, signatureId, waiting, rows,
                   bounds>>

\* Faulty: a failed save counts as done.
SaveErrorClears ==
    /\ saving' = FALSE
    /\ isSaving' = FALSE /\ lastError' = FALSE /\ isDirty' = FALSE
    /\ UNCHANGED <<tab, loaded, canvas, signatureId, timer, paused, waiting,
                   rows, fresh, limits>>

\* The catch of runSave(): setError().
SaveError ==
    /\ saving' = FALSE
    /\ isSaving' = FALSE /\ lastError' = TRUE
    /\ UNCHANGED <<tab, loaded, canvas, isDirty, signatureId, timer, paused,
                   waiting, rows, fresh, limits>>

SaveRefused(r) ==
    /\ Hear(r, "save", "refused")
    /\ SaveError
    /\ UNCHANGED losses

\* The connection drops: fetch() throws, and the server may have run the
\* request, may still run it, or never will.
Drop(r) ==
    /\ "loss" \in Events /\ losses < MaxLosses
    /\ r \in net /\ r.heard
    /\ losses' = losses + 1
    /\ \/ net' = net \ {r}
       \/ /\ "straggler" \in Events /\ r.answer = "none"
          /\ net' = (net \ {r}) \cup {[r EXCEPT !.heard = FALSE]}

SaveLost(r) ==
    /\ r.kind = "save"
    /\ Drop(r)
    /\ SaveError

-----------------------------------------------------------------------------
(* detachFromTemplate() *)

DetachStarts ==
    /\ tab = "open" /\ Settled /\ loaded
    /\ link = "linked" /\ detach = "no" /\ ~leaving
    /\ detach' = "flushing"
    /\ IF saving \/ timer \/ isDirty THEN SaveNow
       ELSE UNCHANGED <<timer, net, saving, isSaving>>
    /\ UNCHANGED <<tab, loaded, canvas, isDirty, lastError, signatureId, paused,
                   link, leaving, rows, bounds>>

\* Whatever became of the flush, the design on the canvas is sent.
DetachSends ==
    /\ tab = "open" /\ detach = "flushing" /\ ~saving
    /\ detach' = "sent"
    /\ net' = net \cup {Request("detach")}
    /\ UNCHANGED <<tab, loaded, canvas, status, engine, link, leaving, rows,
                   bounds>>

\* Faulty: shows the row where its design is meant.
DetachedWithRow(r) ==
    /\ Hear(r, "detach", "ok")
    /\ detach' = "no"
    /\ link' = "detached"
    /\ doc' = [doc |-> Clean(r.doc), meta |-> r.meta]
    /\ edited' = FALSE
    /\ MarkSaved
    /\ UNCHANGED <<tab, loaded, meta, engine, leaving, rows, bounds>>

\* setSchema() with the answer, whatever is on the canvas by now.
Detached(r) ==
    /\ Hear(r, "detach", "ok")
    /\ detach' = "no"
    /\ link' = "detached"
    /\ doc' = Clean(r.doc)
    /\ edited' = FALSE
    /\ MarkSaved
    /\ UNCHANGED <<tab, loaded, meta, engine, leaving, rows, bounds>>

DetachFails(r) ==
    /\ \/ Hear(r, "detach", "refused") /\ UNCHANGED losses
       \/ Hear(r, "detach", "limited") /\ UNCHANGED losses
       \/ r.kind = "detach" /\ Drop(r)
    /\ detach' = "no"
    /\ UNCHANGED <<tab, loaded, canvas, status, engine, link, leaving, rows,
                   fresh, limits>>

-----------------------------------------------------------------------------
Server == \E r \in net : Stores(r) \/ Refuses(r) \/ Limits(r)

Hears == \E r \in net :
    \/ Saved(r) \/ SaveLimited(r) \/ SaveRefused(r) \/ SaveLost(r)
    \/ Detached(r) \/ DetachFails(r)

Loads == LoadSucceeds \/ LoadNotFound \/ LoadFails

Next ==
    \/ Loads
    \/ \E kind \in EditKinds : Edit(kind)
    \/ ChangeMeta
    \/ AutosaveFires \/ PauseEnds
    \/ ManualSave \/ BackArrow \/ Navigates \/ CloseTab
    \/ DetachStarts \/ DetachSends
    \/ Server
    \/ Hears

\* Timers fire, the server answers, answers arrive.  Nothing obliges the user.
Fairness ==
    /\ WF_vars(Loads)
    /\ WF_vars(AutosaveFires) /\ WF_vars(PauseEnds)
    /\ WF_vars(DetachSends) /\ WF_vars(Navigates)
    /\ WF_vars(Server) /\ WF_vars(Hears)

Spec == Init /\ [][Next]_vars
FairSpec == Spec /\ Fairness

-----------------------------------------------------------------------------
(* Properties *)

DocType == [v : Nat, kind : {"empty", "plain", "unclean", "unusable"}]

SaveEngineTypeOK ==
    /\ tab \in {"open", "closed", "discarded"}
    /\ {loaded, edited, isDirty, isSaving, lastError, saving, timer, paused, leaving}
          \subseteq BOOLEAN
    /\ doc \in DocType /\ meta \in Nat
    /\ signatureId \in 0..Len(rows)
    /\ link \in {"free", "linked", "detached"}
    /\ detach \in {"no", "flushing", "sent"}
    /\ \A i \in DOMAIN rows : rows[i] \in [doc : DocType, meta : Nat, live : BOOLEAN, mine : BOOLEAN]
    /\ \A r \in net : r.id \in 0..Len(rows) /\ r.doc \in DocType

\* inFlight is shared by every caller: the tab never waits for two saves, so
\* that two POSTs cannot each create a row.
OneSaveAtATime ==
    /\ Cardinality({r \in net : r.kind = "save" /\ r.heard}) <= 1
    /\ (\E r \in net : r.kind = "save" /\ r.heard) => saving

\* A tab creates one row, and one more for each answer that was lost on the
\* way back: the tab cannot know the row exists and posts again.
NoDuplicateRows ==
    Cardinality({i \in DOMAIN rows : rows[i].mine}) <= 1 + losses

\* The canvas goes back to an older document only when a row is opened or a
\* signature detached: an answer to a save never takes an edit away.
EditsStayOnScreen ==
    [][doc'.v < doc.v => loaded' # loaded \/ detach' # detach]_vars

\* What the user changed and the row does not hold.
LostDesign ==
    /\ edited
    /\ IF signatureId = 0 THEN doc.kind # "empty"
       ELSE rows[signatureId].doc # Clean(doc)

LostMeta ==
    /\ meta > 1
    /\ IF signatureId = 0 THEN doc.kind # "empty"
       ELSE rows[signatureId].meta # meta

\* A tab that goes away without the browser asking takes no work with it.
NoSilentLoss == tab = "closed" => ~LostDesign /\ ~LostMeta

\* While the user has changed nothing, no save (by hand, by the back arrow, by
\* a timer) changes the design a row already held.
UntouchedStaysStored ==
    fresh = 1 => \A i \in DOMAIN rows : ~rows[i].mine => rows[i].doc.v = 1

\* When the topbar says "Saved", the canvas shows what the row holds: what the
\* server removed is gone from the screen too.
ScreenShowsRow ==
    /\ tab = "open" /\ loaded /\ signatureId > 0 /\ detach = "no"
    /\ ~saving /\ ~timer /\ ~isDirty /\ ~lastError
    => rows[signatureId].doc = doc /\ rows[signatureId].meta = meta

\* Every edit of the document, renamed or saved meanwhile or not, is stored, or
\* a failed save is shown, or a later edit takes its place.  (Once a save has
\* failed, a rename hides the error and schedules no retry: the edit then waits
\* for the user, marked as unsaved.)
EveryEditSettles ==
    \A n \in 2..(MaxChanges + 1) :
       (/\ tab = "open" /\ loaded /\ doc.v = n /\ LostDesign
        /\ fresh = n \/ timer \/ saving)
       ~> (~LostDesign \/ lastError \/ doc.v # n \/ tab # "open")

\* Autosave comes to rest: adopting the server's copy, which is an edit, does
\* not save it again and again.
AutosaveRests == []<>(~saving /\ ~timer)

\* The same of the design alone.
NoSilentDesignLoss == tab = "closed" => ~LostDesign
=============================================================================
