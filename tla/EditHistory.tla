---------------------------- MODULE EditHistory ----------------------------
(***************************************************************************)
(* The document of the signature editor and its undo / redo stacks:        *)
(* stores/schemaStore.ts (every mutation, with the coalescing of property  *)
(* edits into bursts) over stores/historyStore.ts (the stacks).            *)
(*                                                                         *)
(* A document is a member of Docs: which block moved where is the subject  *)
(* of another module.  A mutation that a lock, the nesting limit or a      *)
(* missing target refuses returns before it writes anything, so it is a    *)
(* stuttering step.  An edit burst whose last edit is older than           *)
(* HISTORY_COALESCE_MS behaves as no burst at all (pushCoalescedSnapshot), *)
(* so the clock is one action, Pause.                                      *)
(***************************************************************************)
EXTENDS Naturals, Sequences

CONSTANTS
    Docs,       \* the documents a signature can be
    Keys,       \* what a property edit targets: block and fields, canvas, variable
    NoBurst,    \* no edit burst is open
    MaxDepth    \* MAX_DEPTH

\* MAX_DEPTH - 1 is a negated argument of slice(), which keeps everything
\* when it is 0: the store needs room for two.
ASSUME HistoryAssumption ==
    /\ MaxDepth \in Nat
    /\ MaxDepth >= 2
    /\ NoBurst \notin Keys

VARIABLES
    schema,         \* the document on the canvas
    hasUserEdited,  \* the autosave gate
    past,           \* snapshots to undo to, the newest last
    future,         \* snapshots to redo to, the nearest first
    burst           \* key of the open edit burst

vars == <<schema, hasUserEdited, past, future, burst>>

HistoryTypeOK ==
    /\ schema \in Docs
    /\ hasUserEdited \in BOOLEAN
    /\ past \in Seq(Docs)
    /\ future \in Seq(Docs)
    /\ burst \in Keys \cup {NoBurst}

Init ==
    /\ schema \in Docs
    /\ hasUserEdited = FALSE
    /\ past = <<>>
    /\ future = <<>>
    /\ burst = NoBurst

-----------------------------------------------------------------------------
(* historyStore.ts *)

\* Faulty: keeps one snapshot too many.
NewestPlusOne(s, n) == IF Len(s) <= n + 1 THEN s ELSE SubSeq(s, Len(s) - n, Len(s))

\* past.slice(-n)
Newest(s, n) == IF Len(s) <= n THEN s ELSE SubSeq(s, Len(s) - n + 1, Len(s))

\* Faulty: pushes what is being edited instead of the document.
PushKey ==
    /\ past' = Append(Newest(past, MaxDepth - 1), burst)
    /\ future' = <<>>

Push ==
    /\ past' = Append(Newest(past, MaxDepth - 1), schema)
    /\ future' = <<>>

Clear ==
    /\ past' = <<>>
    /\ future' = <<>>

-----------------------------------------------------------------------------
(* schemaStore.ts *)

PushSnapshot ==
    /\ Push
    /\ burst' = NoBurst

PushCoalescedSnapshot(k) ==
    \/ /\ burst = k
       /\ UNCHANGED <<past, future, burst>>
    \/ /\ burst # k
       /\ Push
       /\ burst' = k

MarkEdited(d) ==
    /\ schema' = d
    /\ hasUserEdited' = TRUE

\* Faulty: forgets the open burst.
SetSchemaInBurst(d) ==
    /\ schema' = d
    /\ hasUserEdited' = FALSE
    /\ UNCHANGED burst
    /\ Clear

\* Faulty: forgets the stacks.
SetSchemaOnly(d) ==
    /\ schema' = d
    /\ hasUserEdited' = FALSE
    /\ burst' = NoBurst
    /\ UNCHANGED <<past, future>>

\* A document arrives from the server: opening a row, or after a detach.
SetSchema(d) ==
    /\ schema' = d
    /\ hasUserEdited' = FALSE
    /\ burst' = NoBurst
    /\ Clear

\* Applying a template, with { undoable: true } and with { undoable: false }.
ReplaceSchema(d, undoable) ==
    /\ MarkEdited(d)
    /\ IF undoable THEN PushSnapshot ELSE Clear /\ burst' = NoBurst

\* Add, insert, delete, move, duplicate, paste, column and layout changes,
\* removing or renaming a variable.  A move may put a block back where it was.
StructuralEdit(d) ==
    /\ PushSnapshot
    /\ MarkEdited(d)

\* updateBlock, updateCanvas, setVariable, setColumnWidths,
\* updateContainerColumn: writing back the same value is a no-op.
PropertyEdit(k, d) ==
    /\ d # schema
    /\ PushCoalescedSnapshot(k)
    /\ MarkEdited(d)

\* updateBlock(..., { history: false }): the address of a file that was just
\* uploaded for content the user already changed.
DerivedWrite(d) ==
    /\ d # schema
    /\ MarkEdited(d)
    /\ UNCHANGED <<past, future, burst>>

ReplaceSchemaForHistory(d) ==
    /\ MarkEdited(d)
    /\ burst' = NoBurst

Undo ==
    /\ past # <<>>
    /\ past' = SubSeq(past, 1, Len(past) - 1)
    /\ future' = <<schema>> \o future
    /\ ReplaceSchemaForHistory(past[Len(past)])

\* Faulty: the document redone from cannot be undone to.
RedoDropsCurrent ==
    /\ future # <<>>
    /\ future' = Tail(future)
    /\ ReplaceSchemaForHistory(future[1])
    /\ UNCHANGED past

Redo ==
    /\ future # <<>>
    /\ past' = Append(past, schema)
    /\ future' = Tail(future)
    /\ ReplaceSchemaForHistory(future[1])

\* The save engine adopts the copy the server cleaned (persistence.ts).
Adopt(d) ==
    /\ ReplaceSchemaForHistory(d)
    /\ UNCHANGED <<past, future>>

\* HISTORY_COALESCE_MS pass without an edit of the burst.
Pause ==
    /\ burst # NoBurst
    /\ burst' = NoBurst
    /\ UNCHANGED <<schema, hasUserEdited, past, future>>

Next ==
    \/ \E d \in Docs :
          \/ SetSchema(d)
          \/ \E undoable \in BOOLEAN : ReplaceSchema(d, undoable)
          \/ StructuralEdit(d)
          \/ \E k \in Keys : PropertyEdit(k, d)
          \/ DerivedWrite(d)
          \/ Adopt(d)
    \/ Undo
    \/ Redo
    \/ Pause

Spec == Init /\ [][Next]_vars

-----------------------------------------------------------------------------
(* Properties *)

\* The memory the history may hold.  Undo and redo append to the other stack
\* without trimming it (only Push trims), so the cap of MAX_DEPTH on either
\* stack rests on both stacks together never exceeding it.
HistoryBounded == Len(past) + Len(future) <= MaxDepth

\* Within a burst the next edit of the same field pushes nothing.  So it does not
\* clear the redo stack: there is nothing to redo, or a redo after that edit would
\* jump to a document it never led to.  And it is undone only through the snapshot
\* pushed when the burst began, which is still there.
BurstIsSound == burst # NoBurst => past # <<>> /\ future = <<>>

\* The autosave hook ignores every document change while hasUserEdited is
\* FALSE: no step to undo or redo may exist then, since undoing it would
\* change the document and save nothing.
StepsAreSaved == ~hasUserEdited => past = <<>> /\ future = <<>>

\* The stacks and the canvas are one line of documents the user moves along.
Line == INSTANCE Timeline WITH
            Limit <- MaxDepth,
            line <- past \o <<schema>> \o future,
            cursor <- Len(past) + 1

ImplementsTimeline == Line!TimelineSpec
=============================================================================
