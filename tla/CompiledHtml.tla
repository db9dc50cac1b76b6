---------------------------- MODULE CompiledHtml ----------------------------
(***************************************************************************)
(* The compiled HTML the server keeps with each signature of one user:     *)
(* saves from the editor (SignatureService, SignatureRepository), the      *)
(* inputs it was compiled from and the listener that marks it outdated     *)
(* when they change (RenderInputs, StaleHtmlMarker), the REST endpoints of *)
(* the team console (TeamSignaturesController) and the loop in the         *)
(* administrator's browser that recompiles what is stale (recompile.ts).   *)
(*                                                                         *)
(* A design and a state of the inputs (profile, groups, brand kit, footer, *)
(* campaigns) are numbers; HTML is the pair it was compiled from, and two  *)
(* HTMLs have the same hash when they are equal.  Times are seconds; 0 is  *)
(* NULL.                                                                   *)
(***************************************************************************)
EXTENDS Naturals, FiniteSets, FiniteSetsExt

CONSTANTS
    Ids,         \* the signatures of the user: their ids
    Designs,     \* a set of numbers
    Inputs,      \* a set of numbers
    CampaignsOf, \* the set of running campaigns in each state of the inputs
    PageSize,    \* RECOMPILE_PAGE_SIZE
    MaxActs,     \* bound on what people do (and on days that matter)
    SameSecond,  \* two writes may fall into one second
    Overlap      \* requests may interleave between a check and its write

ASSUME CompiledHtmlAssumption ==
    /\ Ids \subseteq Nat \ {0} /\ IsFiniteSet(Ids)
    /\ Designs \subseteq Nat \ {0} /\ Inputs \subseteq Nat \ {0}
    /\ Designs # {} /\ Inputs # {}
    /\ CampaignsOf \in [Inputs -> Nat]
    /\ PageSize \in Nat \ {0} /\ MaxActs \in Nat
    /\ {SameSecond, Overlap} \subseteq BOOLEAN

VARIABLES
    now,        \* the second of the last write
    rows,       \* the table of signatures
    marked,     \* PRIMARY_META_KEY, 0 when no signature is marked
    inputs,     \* what the owner's editor would compile from
    window,     \* CAMPAIGN_WINDOW_OPTION
    unmarked,   \* a change of the inputs is stored, the rows not marked yet
    saving,     \* an editor's save between its checks and its write
    pass,       \* the recompilation in the administrator's browser
    acts        \* what people have done so far

tables == <<now, rows, marked>>
htmlVars == <<tables, inputs, window, unmarked, saving, pass, acts>>

NoHtml == <<0, 0>>
NoSave == [id |-> 0]

\* At each place of runRecompile(): the ids of the page still to do, the
\* cursor, the attempt, and the context loaded.
Idle == [at |-> "idle", page |-> {}, last |-> FALSE, after |-> 0,
         attempt |-> 0, updated |-> 0, html |-> NoHtml]

\* One signature compiled, the others as the version that kept no HTML left them.
CompiledHtmlInit ==
    /\ now = 1
    /\ inputs = Min(Inputs)
    /\ rows = [i \in Ids |->
          [design |-> Min(Designs), updated |-> 1,
           html |-> IF i = Min(Ids) THEN <<Min(Designs), inputs>> ELSE NoHtml,
           compiled |-> IF i = Min(Ids) THEN 1 ELSE 0]]
    /\ marked = 0
    /\ window = CampaignsOf[inputs]
    /\ unmarked = FALSE
    /\ saving = NoSave
    /\ pass = Idle
    /\ acts = 0

\* Signature::is_html_stale() and STALE_CONDITION.
IsStale(r) == r.html = NoHtml \/ r.compiled = 0 \/ r.compiled < r.updated

\* primary_for_user(): the marked one, else the one updated last (of two updated
\* in one second, either; here the later one).
IsPrimary(i) ==
    IF marked # 0 THEN i = marked
    ELSE /\ \A j \in Ids : rows[j].updated <= rows[i].updated
         /\ \A j \in Ids : rows[j].updated = rows[i].updated => j <= i

\* A person does something.
Act ==
    /\ Overlap \/ (saving = NoSave /\ pass.at # "checked")
    /\ acts < MaxActs /\ acts' = acts + 1

\* The second of a write.
Instants == IF SameSecond THEN {now, now + 1} ELSE {now + 1}

-----------------------------------------------------------------------------
(* Writes of a row. *)

\* SignatureRepository::update() with HTML; outdated is html_outdated.
StoreHtml(i, design, html, outdated) ==
    \E t \in Instants :
       /\ now' = t
       /\ rows' = [rows EXCEPT ![i] =
             [design |-> design, html |-> html,
              compiled |-> IF outdated THEN 0 ELSE t, updated |-> t]]

\* ... and without: a save whose HTML the link rules dropped, a template's
\* propagation, a new name or status.
StoreDesign(i, design) ==
    \E t \in Instants :
       /\ now' = t
       /\ rows' = [rows EXCEPT ![i].design = design, ![i].updated = t]

\* Faulty: does not look at the fingerprint of the editor's inputs.
SaveChecksNothing(i, d, p) ==
    /\ Act /\ saving = NoSave
    /\ saving' = [id |-> i, design |-> d, html |-> <<d, p>>, outdated |-> FALSE]
    /\ UNCHANGED <<tables, inputs, window, unmarked, pass>>

\* PATCH /signatures/:id from an editor whose page has the inputs p:
\* flag_html_from_old_inputs().
SaveChecks(i, d, p) ==
    /\ Act /\ saving = NoSave
    /\ saving' = [id |-> i, design |-> d, html |-> <<d, p>>, outdated |-> p # inputs]
    /\ UNCHANGED <<tables, inputs, window, unmarked, pass>>

SaveWrites ==
    /\ saving # NoSave
    /\ StoreHtml(saving.id, saving.design, saving.html, saving.outdated)
    /\ saving' = NoSave
    /\ UNCHANGED <<marked, inputs, window, unmarked, pass, acts>>

\* A write of the row without HTML, whatever made it.
Rewrite(i, d) ==
    /\ Act
    /\ StoreDesign(i, d)
    /\ UNCHANGED <<marked, inputs, window, unmarked, saving, pass>>

\* POST /signatures/:id/primary: set_primary()
SetPrimary(i) ==
    /\ Act
    /\ marked # i /\ marked' = i
    /\ UNCHANGED <<now, rows, inputs, window, unmarked, saving, pass>>

-----------------------------------------------------------------------------
(* Inputs. *)

\* A profile, a group or a site setting is stored; the hooks run next.  Saved
\* campaigns are recorded as the running ones.
ChangeInputs(v) ==
    /\ Act
    /\ v # inputs /\ inputs' = v
    /\ window' = CampaignsOf[v]
    /\ unmarked' = TRUE
    /\ UNCHANGED <<tables, saving, pass>>

\* A campaign starts or ends with the day.  The daily check has run since the
\* last one did.
DayTurns(v) ==
    /\ Act
    /\ window = CampaignsOf[inputs]
    /\ CampaignsOf[v] # CampaignsOf[inputs] /\ inputs' = v
    /\ UNCHANGED <<tables, window, unmarked, saving, pass>>

\* check_campaign_window(), by the daily cron event.
CheckWindow ==
    /\ window # CampaignsOf[inputs]
    /\ window' = CampaignsOf[inputs]
    /\ unmarked' = TRUE
    /\ UNCHANGED <<tables, inputs, saving, pass, acts>>

\* mark_html_outdated()
Mark ==
    /\ unmarked /\ unmarked' = FALSE
    /\ Overlap \/ (saving = NoSave /\ pass.at # "checked")
    /\ rows' = [i \in Ids |-> [rows[i] EXCEPT !.compiled = 0]]
    /\ UNCHANGED <<now, marked, inputs, window, saving, pass, acts>>

-----------------------------------------------------------------------------
(* runRecompile() *)

StartPass ==
    /\ Act
    /\ pass.at = "idle"
    /\ pass' = [Idle EXCEPT !.at = "list"]
    /\ UNCHANGED <<tables, inputs, window, unmarked, saving>>

StaleAfter(id) == {i \in Ids : id < i /\ IsStale(rows[i])}

\* GET /admin/signatures/stale?after_id=...
ListStale ==
    /\ pass.at = "list"
    /\ LET found == StaleAfter(pass.after)
           page  == {i \in found : Cardinality({j \in found : j < i}) < PageSize}
       IN  pass' = [pass EXCEPT !.at = "item", !.page = page,
                                !.last = Cardinality(page) < PageSize]
    /\ UNCHANGED <<tables, inputs, window, unmarked, saving, acts>>

\* GET /admin/signatures/:id/render-context, and the compilation.
LoadContext ==
    /\ pass.at \in {"item", "retry"} /\ pass.page # {}
    /\ LET i == Min(pass.page)
       IN  pass' = [pass EXCEPT !.at = "compiled", !.updated = rows[i].updated,
                                !.attempt = IF pass.at = "item" THEN 0 ELSE 1,
                                !.html = <<rows[i].design, inputs>>]
    /\ UNCHANGED <<tables, inputs, window, unmarked, saving, acts>>

\* Faulty: the cursor goes one too far.
NextItemSkips == [Idle EXCEPT !.at = "item", !.page = pass.page \ {Min(pass.page)},
                              !.last = pass.last, !.after = Min(pass.page) + 1]

\* The row is done, or given up: the cursor moves past it.
NextItem == [Idle EXCEPT !.at = "item", !.page = pass.page \ {Min(pass.page)},
                         !.last = pass.last, !.after = Min(pass.page)]

\* store_html() of the controller: the 409 answers.
Conflict ==
    \/ pass.updated # rows[Min(pass.page)].updated
    \/ pass.html[2] # inputs

\* One retry after a conflict.
StoreChecks ==
    /\ pass.at = "compiled"
    /\ Overlap \/ saving = NoSave
    /\ pass' = IF ~Conflict THEN [pass EXCEPT !.at = "checked", !.updated = 0]
               ELSE IF pass.attempt = 0
               THEN [pass EXCEPT !.at = "retry", !.updated = 0, !.html = NoHtml]
               ELSE NextItem
    /\ UNCHANGED <<tables, inputs, window, unmarked, saving, acts>>

\* store_html() of the service: the row as it is now gets the HTML.
StoreWrites ==
    /\ pass.at = "checked"
    /\ LET i == Min(pass.page) IN StoreHtml(i, rows[i].design, pass.html, FALSE)
    /\ pass' = NextItem
    /\ UNCHANGED <<marked, inputs, window, unmarked, saving, acts>>

\* Faulty: a full page ends the pass too.
PageDoneEarly ==
    /\ pass.at = "item" /\ pass.page = {}
    /\ pass' = Idle
    /\ UNCHANGED <<tables, inputs, window, unmarked, saving, acts>>

\* A page that is not full is the last one.
PageDone ==
    /\ pass.at = "item" /\ pass.page = {}
    /\ pass' = IF pass.last THEN Idle ELSE [pass EXCEPT !.at = "list"]
    /\ UNCHANGED <<tables, inputs, window, unmarked, saving, acts>>

Recompile == ListStale \/ LoadContext \/ StoreChecks \/ StoreWrites \/ PageDone

CompiledHtmlNext ==
    \/ \E i \in Ids, d \in Designs, p \in Inputs : SaveChecks(i, d, p)
    \/ SaveWrites
    \/ \E i \in Ids, d \in Designs : Rewrite(i, d)
    \/ \E i \in Ids : SetPrimary(i)
    \/ \E v \in Inputs : ChangeInputs(v) \/ DayTurns(v)
    \/ CheckWindow \/ Mark
    \/ StartPass \/ Recompile

\* `imgsig/deploy/primary_html_changed` fires in this step:
\* maybe_announce_primary_html().
PrimaryHtmlChanged ==
    \E i \in Ids :
       /\ IsPrimary(i)' /\ rows'[i].html # NoHtml
       /\ \/ rows'[i].html # rows[i].html
          \/ marked' # marked /\ ~IsPrimary(i)

-----------------------------------------------------------------------------
Html == {NoHtml} \cup (Designs \X Inputs)

CompiledHtmlTypeOK ==
    /\ now \in Nat
    /\ rows \in [Ids -> [design : Designs, html : Html, compiled : Nat, updated : Nat]]
    /\ marked \in {0} \cup Ids
    /\ inputs \in Inputs /\ window \in Nat /\ unmarked \in BOOLEAN
    /\ \/ saving = NoSave
       \/ saving \in [id : Ids, design : Designs, html : Html, outdated : BOOLEAN]
    /\ pass \in [at : {"idle", "list", "item", "retry", "compiled", "checked"},
                 page : SUBSET Ids, last : BOOLEAN, after : {0} \cup Ids,
                 attempt : {0, 1}, updated : Nat, html : Html]

\* HTML that does not count as stale is what the owner's editor would compile
\* now: from the stored design, and from the present inputs once the change of
\* the inputs has been followed by its marking (StaleHtmlMarker, and the
\* comment of SignatureRepository::update() on compiled_at).
FreshHtmlIsTrue ==
    ~unmarked /\ window = CampaignsOf[inputs] =>
       \A i \in Ids : ~IsStale(rows[i]) => rows[i].html = <<rows[i].design, inputs>>

\* A recompilation that starts when nobody changes anything any more leaves
\* nothing stale: no page is skipped, and no row is given up (recompile.ts).
PassLeavesNothingStale ==
    (pass.at = "list" /\ pass.after = 0 /\ acts = MaxActs /\ saving = NoSave
        /\ ~unmarked /\ window = CampaignsOf[inputs])
    ~> \A i \in Ids : ~IsStale(rows[i])
=============================================================================
