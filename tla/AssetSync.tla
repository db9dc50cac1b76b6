------------------------------ MODULE AssetSync ------------------------------
(***************************************************************************)
(* The hosted files of QR code and vCard blocks in the editor              *)
(* (BackgroundAssetSync, useHostedAssetSync): a file belongs to one        *)
(* content of its block, and every change of the content asks for an       *)
(* upload.  The panel of the selected block uploads for that block; for    *)
(* the others one effect with one timer does, one upload at a time.  What  *)
(* arrives for content the block no longer has is dropped.                 *)
(***************************************************************************)
EXTENDS Naturals, FiniteSets

CONSTANTS
    FileBlocks, \* the blocks with a hosted file
    Contents,   \* their contents, as hashes
    MaxEdits    \* bound on the changes of content

ASSUME AssetSyncAssumption ==
    /\ FileBlocks \subseteq Nat /\ IsFiniteSet(FileBlocks)
    /\ Contents \subseteq Nat \ {0} /\ MaxEdits \in Nat

VARIABLES
    content,  \* the hash of each block's content
    file,     \* the hash its file was made of, 0 without a file
    selected, \* the selected block, if any
    panelDue, \* pendingRef: the panel's timer runs
    panelRuns,\* the uploads panels have started
    timer,    \* the timer's closure: the blocks it found behind, and their hashes
    run,      \* what is left of the background run
    busy,
    failed,   \* the hash that failed last for each block, 0 for none
    failures, \* every upload in the background that failed
    dropped,  \* a timer found the run busy and was not set again
    edits

assetVars == <<content, file, selected, panelDue, panelRuns, timer, run, busy, failed, failures,
               dropped, edits>>

Item(b) == [id |-> b, hash |-> content[b]]

AssetSyncInit ==
    /\ content \in [FileBlocks -> Contents]
    /\ file = [b \in FileBlocks |-> 0]
    /\ selected = {}
    /\ panelDue = FALSE /\ panelRuns = {}
    /\ timer = {Item(b) : b \in FileBlocks}
    /\ run = {} /\ busy = FALSE
    /\ failed = [b \in FileBlocks |-> 0]
    /\ failures = {} /\ dropped = FALSE
    /\ edits = 0

\* collectPending()
Pending(c, f, sel) ==
    {[id |-> b, hash |-> c[b]] : b \in {b \in FileBlocks \ sel : f[b] # c[b]}}

\* The effect on [schema, selectedId] takes the timer down and sets it again for
\* what is behind and has not failed.
Effect ==
    /\ timer' = {i \in Pending(content', file', selected') : failed'[i.id] # i.hash}
    /\ dropped' = FALSE

\* The panel's own effect, on the hash of the selected block.
PanelEffect == panelDue' = \E b \in selected' : file'[b] # content'[b]

\* Selecting a block, or none, closes a panel: what was due there starts now.
Select(sel) ==
    /\ sel # selected /\ selected' = sel
    /\ panelRuns' = IF panelDue THEN panelRuns \cup {Item(b) : b \in selected} ELSE panelRuns
    /\ UNCHANGED <<content, file, run, busy, failed, failures, edits>>
    /\ Effect /\ PanelEffect

\* A change of a block or of a variable it uses; undo and redo too.
ChangeContent(b, h) ==
    /\ edits < MaxEdits /\ edits' = edits + 1
    /\ h # content[b] /\ content' = [content EXCEPT ![b] = h]
    /\ UNCHANGED <<file, selected, panelRuns, run, busy, failed, failures>>
    /\ Effect
    /\ IF b \in selected THEN PanelEffect ELSE UNCHANGED panelDue

PanelFires ==
    /\ panelDue /\ panelDue' = FALSE
    /\ panelRuns' = panelRuns \cup {Item(b) : b \in selected}
    /\ UNCHANGED <<content, file, selected, timer, run, busy, failed, failures, dropped,
                   edits>>

\* An answer: the file is the block's if the block still has that content; that
\* is a change of the document, which runs the effects.
Arrives(i) ==
    IF content[i.id] = i.hash /\ file[i.id] # i.hash
    THEN /\ file' = [file EXCEPT ![i.id] = i.hash]
         /\ UNCHANGED <<content, selected, failed>>
         /\ Effect
         /\ IF i.id \in selected THEN PanelEffect ELSE UNCHANGED panelDue
    ELSE UNCHANGED <<content, selected, failed, file, timer, dropped, panelDue>>

PanelUploaded(i) ==
    /\ i \in panelRuns /\ panelRuns' = panelRuns \ {i}
    /\ Arrives(i)
    /\ UNCHANGED <<run, busy, failures, edits>>

\* The panel shows the error and a button.
PanelUploadFails(i) ==
    /\ i \in panelRuns /\ panelRuns' = panelRuns \ {i}
    /\ UNCHANGED <<content, file, selected, panelDue, timer, run, busy, failed, failures, dropped,
                   edits>>

\* The background timer.
TimerFires ==
    /\ timer # {} /\ timer' = {}
    /\ IF busy
       THEN dropped' = TRUE /\ UNCHANGED <<run, busy>>
       ELSE run' = timer /\ busy' = TRUE /\ UNCHANGED dropped
    /\ UNCHANGED <<content, file, selected, panelDue, panelRuns, failed, failures, edits>>

\* The run goes through its blocks in order; after the last it is busy no more.
Leaves(i) ==
    /\ \A j \in run : i.id <= j.id
    /\ run' = run \ {i} /\ busy' = (run' # {})

Uploaded(i) ==
    /\ Leaves(i) /\ Arrives(i)
    /\ UNCHANGED <<panelRuns, failures, edits>>

\* Faulty: remembers that the block failed as it is now, not as it was sent.
UploadFailsNow(i) ==
    /\ Leaves(i) /\ failures' = failures \cup {i}
    /\ failed' = [failed EXCEPT ![i.id] = content[i.id]]
    /\ UNCHANGED <<content, file, selected, panelDue, panelRuns, timer, dropped, edits>>

\* The failure is remembered for this content; nothing of the document changes.
UploadFails(i) ==
    /\ Leaves(i) /\ failures' = failures \cup {i}
    /\ failed' = [failed EXCEPT ![i.id] = i.hash]
    /\ UNCHANGED <<content, file, selected, panelDue, panelRuns, timer, dropped, edits>>

AssetSyncNext ==
    \/ \E sel \in {{}} \cup {{b} : b \in FileBlocks} : Select(sel)
    \/ \E b \in FileBlocks, h \in Contents : ChangeContent(b, h)
    \/ PanelFires \/ TimerFires
    \/ \E i \in panelRuns : PanelUploaded(i) \/ PanelUploadFails(i)
    \/ \E i \in run : Uploaded(i) \/ UploadFails(i)

AssetSyncSpec == AssetSyncInit /\ [][AssetSyncNext]_assetVars

-----------------------------------------------------------------------------
AssetSyncTypeOK ==
    LET items == [id : FileBlocks, hash : Contents]
    IN  /\ content \in [FileBlocks -> Contents]
        /\ file \in [FileBlocks -> {0} \cup Contents]
        /\ selected \subseteq FileBlocks /\ Cardinality(selected) <= 1
        /\ {panelDue, busy, dropped} \subseteq BOOLEAN /\ busy = (run # {})
        /\ panelRuns \subseteq items /\ timer \subseteq items /\ run \subseteq items
        /\ failed \in [FileBlocks -> {0} \cup Contents] /\ failures \subseteq items
        /\ edits \in 0..MaxEdits

\* The editor forgets no file: when nothing is due or under way, every block that
\* is not selected has the file of its content, or an upload of that very content
\* failed, or a timer found the run busy since the document last changed.
NoFileForgotten ==
    timer = {} /\ ~busy /\ ~dropped =>
        \A b \in FileBlocks \ selected : file[b] = content[b] \/ Item(b) \in failures
=============================================================================
