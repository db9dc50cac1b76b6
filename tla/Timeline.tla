------------------------------ MODULE Timeline ------------------------------
(***************************************************************************)
(* What undo and redo promise, without saying how: the user moves along    *)
(* one line of documents.  line[cursor] is the document on the canvas,     *)
(* what is before it can be undone to and what is after it redone to.      *)
(* At most Limit documents can be undone to.                               *)
(***************************************************************************)
EXTENDS Naturals, Sequences

CONSTANTS
    Docs,   \* the documents a signature can be
    Limit   \* how many steps back the line remembers

VARIABLES line, cursor

timelineVars == <<line, cursor>>

TimelineInit ==
    /\ \E d \in Docs : line = <<d>>
    /\ cursor = 1

\* A user step: whatever lay ahead is gone, the new document is the tip, and
\* the oldest one is forgotten once there are more than Limit behind it.
Commit(d) ==
    LET kept == SubSeq(line, 1, cursor)
    IN  IF cursor > Limit
        THEN /\ line' = Append(Tail(kept), d)
             /\ cursor' = cursor
        ELSE /\ line' = Append(kept, d)
             /\ cursor' = cursor + 1

\* The rest of a burst of typing, or a write the user did not make: the
\* document on the canvas changes in place and no step is added or lost.
Amend(d) ==
    /\ line' = [line EXCEPT ![cursor] = d]
    /\ UNCHANGED cursor

Back ==
    /\ cursor > 1
    /\ cursor' = cursor - 1
    /\ UNCHANGED line

Forward ==
    /\ cursor < Len(line)
    /\ cursor' = cursor + 1
    /\ UNCHANGED line

\* Another document is opened: nothing to go back or forward to.
Restart(d) ==
    /\ line' = <<d>>
    /\ cursor' = 1

TimelineNext ==
    \/ \E d \in Docs : Commit(d) \/ Amend(d) \/ Restart(d)
    \/ Back
    \/ Forward

TimelineSpec == TimelineInit /\ [][TimelineNext]_timelineVars
=============================================================================
