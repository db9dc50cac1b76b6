------------------------------ MODULE LinkRules ------------------------------
(***************************************************************************)
(* The texts of a signature that follows a template: what the employee may *)
(* type (locks.ts, schemaStore.ts), what a save is turned into             *)
(* (TemplateLink::enforce(), SignatureService::enforce_link_rules()) and   *)
(* what is left of it when the template is saved again (refresh()).        *)
(*                                                                         *)
(* A document is the text of each text-like block of the template, 0 when  *)
(* the block is not there; its overrides, 0 for none; and its locked       *)
(* blocks, themselves or by a container.  The fields of a block are one    *)
(* text; everything else in a document is the template's in the enforced   *)
(* modes.  How a refresh comes to many signatures is the matter of         *)
(* TemplatePropagation: here it comes to one, with the template's update.  *)
(***************************************************************************)
EXTENDS Naturals

CONSTANTS
    TextBlocks,          \* ids of blocks with text
    CompanyWords,        \* the texts a template may have
    Words,               \* the texts there are
    Editors,             \* the tabs in which the employee has the signature
    MaxTemplateUpdates,  \* bound on the updates of the template
    MaxTypings,          \* bound on what the employee changes
    StaleTexts           \* a tab may save although it shows an older template's text

ASSUME LinkRulesAssumption ==
    /\ CompanyWords \subseteq Words /\ CompanyWords # {} /\ Words \subseteq Nat \ {0}
    /\ {MaxTemplateUpdates, MaxTypings} \subseteq Nat /\ StaleTexts \in BOOLEAN

VARIABLES
    template,   \* its employee_mode, texts and locks
    signature,  \* the row: linked or not, and its document
    editor,     \* the tabs
    ownWords,   \* the employee's words the signature should still show
    templateUpdates, typings

linkVars == <<template, signature, editor, ownWords, templateUpdates, typings>>

Modes == {"free", "locked_design", "fields_only"}
NoWords == [b \in TextBlocks |-> 0]
EmptyDoc == [text |-> NoWords, over |-> NoWords, locks |-> {}]

\* mine is what the employee typed, here or before, as far as this tab knows.
NotEditing == [open |-> FALSE, mode |-> "free", doc |-> EmptyDoc, mine |-> NoWords]

Templates ==
    {t \in [mode : Modes, text : [TextBlocks -> {0} \cup CompanyWords],
            locks : SUBSET TextBlocks] : \A b \in t.locks : t.text[b] # 0}

-----------------------------------------------------------------------------
(* TemplateLink.php *)

\* Blocks of the template that take an employee's text.
Takes(t, b) == t.text[b] # 0 /\ b \notin t.locks

\* applicable_overrides(), and none in fields_only.
ApplicableOverrides(t, over) ==
    [b \in TextBlocks |-> IF t.mode # "fields_only" /\ Takes(t, b) THEN over[b] ELSE 0]

\* refresh()
RefreshFrom(t, over) ==
    LET kept == ApplicableOverrides(t, over)
    IN  [text  |-> [b \in TextBlocks |-> IF kept[b] # 0 THEN kept[b] ELSE t.text[b]],
         over  |-> kept,
         locks |-> t.locks]

\* Faulty: a text that is the template's is not the employee's, listed or not.
ChangedOnly(t, sent, stored, b) ==
    IF sent.text[b] = 0
    THEN IF sent.over[b] # 0 THEN sent.over[b] ELSE stored.over[b]
    ELSE IF sent.text[b] # t.text[b] THEN sent.text[b] ELSE 0

\* The override of a block in locked_design: the text sent, if it differs from
\* the template's or is listed; when the block did not come back, what there was.
Candidate(t, sent, stored, b) ==
    IF sent.text[b] = 0
    THEN IF sent.over[b] # 0 THEN sent.over[b] ELSE stored.over[b]
    ELSE IF sent.text[b] # t.text[b] \/ sent.over[b] # 0 THEN sent.text[b] ELSE 0

\* enforce()
Enforce(t, sent, stored) ==
    IF t.mode = "free" THEN sent
    ELSE RefreshFrom(t, [b \in TextBlocks |-> Candidate(t, sent, stored, b)])

-----------------------------------------------------------------------------
LinkRulesInit ==
    /\ template \in {t \in Templates : t.locks = {} /\ \A b \in TextBlocks : t.text[b] # 0}
    /\ signature = [linked |-> TRUE, doc |-> RefreshFrom(template, NoWords)]
    /\ editor = [e \in Editors |-> NotEditing]
    /\ ownWords = NoWords
    /\ templateUpdates = 0 /\ typings = 0

\* The page with the mode in its configuration, and the row; also a reload.
OpenEditor(e) ==
    /\ signature.linked
    /\ editor' = [editor EXCEPT ![e] =
          [open |-> TRUE, mode |-> template.mode, doc |-> signature.doc, mine |-> ownWords]]
    /\ UNCHANGED <<template, signature, ownWords, templateUpdates, typings>>

\* The employee does something to block b of tab e.
EditsBlock(e, b) ==
    /\ editor[e].open
    /\ editor[e].doc.text[b] # 0 /\ b \notin editor[e].doc.locks
    /\ typings < MaxTypings /\ typings' = typings + 1
    /\ UNCHANGED <<template, signature, ownWords, templateUpdates>>

\* updateBlock() with editableFields(), and recordOverride().
TypeText(e, b, w) ==
    /\ EditsBlock(e, b)
    /\ editor[e].mode # "fields_only" /\ w # editor[e].doc.text[b]
    /\ editor' = [editor EXCEPT ![e] =
          [@ EXCEPT !.doc.text[b] = w, !.doc.over[b] = w, !.mine[b] = w]]

\* deleteBlock(); the overrides stay in the document.
DeleteText(e, b) ==
    /\ EditsBlock(e, b)
    /\ editor[e].mode = "free"
    /\ editor' = [editor EXCEPT ![e].doc.text[b] = 0]

\* A text of the tab is neither the employee's nor the template's.
ShowsOldText(e) ==
    \E b \in TextBlocks :
       /\ editor[e].mine[b] = 0 /\ editor[e].doc.text[b] # 0
       /\ Takes(template, b) /\ editor[e].doc.text[b] # template.text[b]

\* PATCH /signatures/:id; the tab takes over what was stored (reconcile()).
SaveLinked(e) ==
    /\ editor[e].open /\ signature.linked
    /\ StaleTexts \/ ~ShowsOldText(e)
    /\ signature' = [signature EXCEPT !.doc = Enforce(template, editor[e].doc, @)]
    /\ LET mine == editor[e].mine
           kept == [b \in TextBlocks |->
                      IF editor[e].doc.text[b] # 0 \/ mine[b] # 0 THEN mine[b] ELSE ownWords[b]]
       IN  ownWords' = IF template.mode = "free" THEN mine ELSE ApplicableOverrides(template, kept)
    /\ editor' = [editor EXCEPT ![e] = [@ EXCEPT !.doc = signature'.doc, !.mine = ownWords']]
    /\ UNCHANGED <<template, templateUpdates, typings>>

\* detachFromTemplate(): refused unless both the page and the template are free;
\* the document goes out without its overrides, whose texts are in the blocks.
DetachLinked(e) ==
    /\ editor[e].open /\ signature.linked
    /\ editor[e].mode = "free" /\ template.mode = "free"
    /\ signature' = [linked |-> FALSE, doc |-> [editor[e].doc EXCEPT !.over = NoWords]]
    /\ editor' = [f \in Editors |-> NotEditing]
    /\ ownWords' = NoWords
    /\ UNCHANGED <<template, templateUpdates, typings>>

\* PATCH /templates/:id and refresh_signature().  Words on a block that takes none
\* any more are given up.
SaveTemplate(t) ==
    /\ templateUpdates < MaxTemplateUpdates /\ templateUpdates' = templateUpdates + 1
    /\ t # template /\ template' = t
    /\ signature' = IF signature.linked
                    THEN [signature EXCEPT !.doc = RefreshFrom(t, @.over)] ELSE signature
    /\ ownWords' = ApplicableOverrides(t, ownWords)
    /\ UNCHANGED <<editor, typings>>

LinkRulesNext ==
    \/ \E e \in Editors : \/ OpenEditor(e) \/ SaveLinked(e) \/ DetachLinked(e)
                          \/ \E b \in TextBlocks : \/ DeleteText(e, b)
                                                   \/ \E w \in Words : TypeText(e, b, w)
    \/ \E t \in Templates : SaveTemplate(t)

LinkRulesSpec == LinkRulesInit /\ [][LinkRulesNext]_linkVars

-----------------------------------------------------------------------------
LinkRulesTypeOK ==
    LET docs == [text : [TextBlocks -> {0} \cup Words], over : [TextBlocks -> {0} \cup Words],
                 locks : SUBSET TextBlocks]
    IN  /\ template \in Templates
        /\ signature \in [linked : BOOLEAN, doc : docs]
        /\ editor \in [Editors -> [open : BOOLEAN, mode : Modes, doc : docs,
                                   mine : [TextBlocks -> {0} \cup Words]]]
        /\ ownWords \in [TextBlocks -> {0} \cup Words]
        /\ templateUpdates \in 0..MaxTemplateUpdates /\ typings \in 0..MaxTypings

\* The overrides of a linked signature are "the employee's own text" on blocks
\* that take it, all of it and nothing else, and are what the signature shows;
\* where the design is enforced, every other text is the template's
\* (TemplateLink, class comment).
OverridesAreOwn ==
    signature.linked =>
       /\ signature.doc.over = ownWords
       /\ \A b \in TextBlocks :
             IF ownWords[b] = 0
             THEN template.mode # "free" => signature.doc.text[b] = template.text[b]
             ELSE \/ signature.doc.text[b] = ownWords[b]
                  \/ template.mode = "free" /\ signature.doc.text[b] = 0
=============================================================================
