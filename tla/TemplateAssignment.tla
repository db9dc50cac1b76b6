-------------------------- MODULE TemplateAssignment --------------------------
(***************************************************************************)
(* A template assigned to the members of a group, chunk by chunk           *)
(* (TemplateAssignmentService): the dialog of the console asks for one     *)
(* chunk after the other, every request resolves the members again and     *)
(* takes its slice of them, and comes to one user after the other: it      *)
(* looks up the signature this user has from the template, and then links  *)
(* that one again or creates one.  Requests die, answers get lost, the     *)
(* group changes, and the people assigned to work with their signatures    *)
(* meanwhile, between a lookup and its write too.  One dialog is used at a *)
(* time.  make_primary, the always_create of the older bulk endpoint, and  *)
(* a detached signature linked again by a member who may do that are left  *)
(* out.                                                                    *)
(***************************************************************************)
EXTENDS Naturals, FiniteSets, FiniteSetsExt

CONSTANTS
    Users,       \* user ids
    Chunk,       \* CHUNK
    MaxSubmits,  \* bound on the times the dialog is submitted
    MaxMoves,    \* bound on the changes of the group
    MaxOwnActs   \* bound on what the members do themselves

ASSUME TemplateAssignmentAssumption ==
    /\ Users \subseteq Nat \ {0} /\ IsFiniteSet(Users)
    /\ Chunk \in Nat \ {0} /\ {MaxSubmits, MaxMoves, MaxOwnActs} \subseteq Nat

VARIABLES
    members,   \* resolve_user_ids()
    moves,
    dialog,    \* the dialog: "form", "waits" for an answer, "done" or "error"; its mode, offset
    submits,
    slice,     \* the users the request at work has still to come to
    next,      \* its next_offset, 0 for null
    lookup,    \* the user it has looked up, what it found, and what that is now
    from,      \* the signatures of each user from this template
    ownActs,
    onTop,     \* those a user made while having one, or while being assigned one
    reached,   \* whom this submission has come to
    moved      \* the group changed since it was submitted

assignVars == <<members, moves, dialog, submits, slice, next, lookup, from, ownActs, onTop,
                reached, moved>>

\* No user is looked up: user ids begin at 1.
NoLookup == [user |-> 0, was |-> "none", now |-> "none"]

TemplateAssignmentInit ==
    /\ members \in SUBSET Users \ {{}} /\ moves = 0
    /\ dialog = [at |-> "form", mode |-> "linked", offset |-> 0] /\ submits = 0
    /\ slice = {} /\ next = 0 /\ lookup = NoLookup
    /\ from = [u \in Users |-> [linked |-> 0, detached |-> 0]] /\ ownActs = 0
    /\ onTop = [u \in Users |-> 0]
    /\ reached = {} /\ moved = FALSE

\* submit(), when no request given up is still at work.
Submit(mode) ==
    /\ dialog.at # "waits" /\ slice = {}
    /\ submits < MaxSubmits /\ submits' = submits + 1
    /\ dialog' = [at |-> "asks", mode |-> mode, offset |-> 0]
    /\ reached' = {} /\ moved' = FALSE
    /\ UNCHANGED <<members, moves, slice, next, lookup, from, ownActs, onTop>>

\* array_slice()
SliceAt(offset) ==
    {u \in members : LET before == Cardinality({v \in members : v < u})
                     IN  offset <= before /\ before < offset + Chunk}

\* Faulty: stops one chunk too early when it would have one user.
NextOffsetShort(offset) == IF offset + Chunk + 1 < Cardinality(members) THEN offset + Chunk ELSE 0

NextOffset(offset) == IF offset + Chunk < Cardinality(members) THEN offset + Chunk ELSE 0

\* assign() up to its loop; nobody to assign to is an error.
Begin ==
    /\ dialog.at = "asks"
    /\ IF members = {}
       THEN dialog' = [dialog EXCEPT !.at = "error"] /\ UNCHANGED <<slice, next>>
       ELSE /\ dialog' = [dialog EXCEPT !.at = "waits"]
            /\ slice' = SliceAt(dialog.offset)
            /\ next' = NextOffset(dialog.offset)
    /\ UNCHANGED <<members, moves, submits, lookup, from, ownActs, onTop, reached, moved>>

\* Faulty: finds a linked signature only.
LatestLinked(f) == IF f.linked > 0 THEN "linked" ELSE "none"

\* find_latest_by_user_and_template(): a linked one before a detached one.
Latest(f) == CASE f.linked > 0 -> "linked" [] f.detached > 0 -> "detached" [] OTHER -> "none"

\* assign_one() begins with the next user of the slice.
LookUp ==
    /\ slice # {} /\ lookup = NoLookup
    /\ LET u == Min(slice)
       IN  lookup' = [user |-> u, was |-> Latest(from[u]), now |-> Latest(from[u])]
    /\ UNCHANGED <<members, moves, dialog, submits, slice, next, from, ownActs, onTop, reached,
                   moved>>

\* assign_one() after its lookup: one is created where there was none, the one
\* found is linked again if it is still there, or left alone.
AssignOne(f, mode) ==
    CASE lookup.was = "none" /\ mode = "linked" -> [f EXCEPT !.linked = @ + 1]
      [] lookup.was = "none" /\ mode = "copy" -> [f EXCEPT !.detached = @ + 1]
      [] lookup.now = "detached" /\ mode = "linked" ->
            [linked |-> f.linked + 1, detached |-> f.detached - 1]
      [] OTHER -> f

\* One that fails is counted, no more.
Assign ==
    /\ lookup # NoLookup /\ lookup' = NoLookup
    /\ slice' = slice \ {lookup.user}
    /\ reached' = reached \cup {lookup.user}
    /\ \/ from' = [from EXCEPT ![lookup.user] = AssignOne(@, dialog.mode)]
       \/ UNCHANGED from
    /\ UNCHANGED <<members, moves, dialog, submits, next, ownActs, onTop, moved>>

\* The answer: the next chunk, or the end.
Answer ==
    /\ dialog.at = "waits" /\ slice = {}
    /\ dialog' = IF next = 0 THEN [dialog EXCEPT !.at = "done"]
                 ELSE [dialog EXCEPT !.at = "asks", !.offset = next]
    /\ UNCHANGED <<members, moves, submits, slice, next, lookup, from, ownActs, onTop, reached,
                   moved>>

\* The request dies, or is given up and goes on: the dialog stops and shows it.
Fail ==
    /\ dialog.at = "waits"
    /\ dialog' = [dialog EXCEPT !.at = "error"]
    /\ \/ slice' = {} /\ lookup' = NoLookup
       \/ UNCHANGED <<slice, lookup>>
    /\ UNCHANGED <<members, moves, submits, next, from, ownActs, onTop, reached, moved>>

\* Somebody joins or leaves the group.
MoveMember(u) ==
    /\ moves < MaxMoves /\ moves' = moves + 1
    /\ members' = IF u \in members THEN members \ {u} ELSE members \cup {u}
    /\ moved' = TRUE
    /\ UNCHANGED <<dialog, submits, slice, next, lookup, from, ownActs, onTop, reached>>

\* The row that was looked up is one of u's that are of this kind now.
LookedAt(u, kind) == lookup.user = u /\ lookup.now = kind

\* A signature of u of this kind becomes what "now" says: the one that was looked
\* up, or another one.
Becomes(u, kind, now) ==
    \/ LookedAt(u, kind) /\ lookup' = [lookup EXCEPT !.now = now]
    \/ from[u][kind] > (IF LookedAt(u, kind) THEN 1 ELSE 0) /\ UNCHANGED lookup

\* A signature is deleted, ...
TakesAway(u) ==
    /\ \/ /\ from[u].linked > 0 /\ Becomes(u, "linked", "gone")
          /\ from' = [from EXCEPT ![u].linked = @ - 1]
       \/ /\ from[u].detached > 0 /\ Becomes(u, "detached", "gone")
          /\ from' = [from EXCEPT ![u].detached = @ - 1]
    /\ UNCHANGED onTop

\* ... detached, ...
Unlinks(u) ==
    /\ from[u].linked > 0
    /\ from' = [from EXCEPT ![u] = [linked |-> @.linked - 1, detached |-> @.detached + 1]]
    /\ Becomes(u, "linked", "detached")
    /\ UNCHANGED onTop

\* ... or made from the template by the member, or as a copy of another, which stays linked.
MakesOwn(u) ==
    /\ \E kind \in {"linked", "detached"} : from' = [from EXCEPT ![u][kind] = @ + 1]
    /\ onTop' = IF from[u].linked + from[u].detached > 0
                   \/ (lookup.user = u /\ lookup.was = "none")
                THEN [onTop EXCEPT ![u] = @ + 1] ELSE onTop
    /\ UNCHANGED lookup

OwnAct(u) ==
    /\ ownActs < MaxOwnActs /\ ownActs' = ownActs + 1
    /\ TakesAway(u) \/ Unlinks(u) \/ MakesOwn(u)
    /\ UNCHANGED <<members, moves, dialog, submits, slice, next, reached, moved>>

TemplateAssignmentNext ==
    \/ \E mode \in {"linked", "copy"} : Submit(mode)
    \/ Begin \/ LookUp \/ Assign \/ Answer \/ Fail
    \/ \E u \in Users : MoveMember(u) \/ OwnAct(u)

TemplateAssignmentSpec == TemplateAssignmentInit /\ [][TemplateAssignmentNext]_assignVars

-----------------------------------------------------------------------------
TemplateAssignmentTypeOK ==
    /\ members \subseteq Users /\ moves \in 0..MaxMoves /\ submits \in 0..MaxSubmits
    /\ dialog \in [at : {"form", "asks", "waits", "done", "error"},
                   mode : {"linked", "copy"}, offset : Nat]
    /\ slice \subseteq Users /\ next \in Nat /\ ownActs \in 0..MaxOwnActs
    /\ lookup \in [user : {0} \cup Users, was : {"none", "linked", "detached"},
                   now : {"none", "linked", "detached", "gone"}]
    /\ from \in [Users -> [linked : Nat, detached : Nat]] /\ onTop \in [Users -> Nat]
    /\ reached \subseteq Users /\ moved \in BOOLEAN

\* When the dialog says it is done, it has come to every member of a group that
\* stayed the same, whatever number of chunks that took; and however often a failed
\* or finished assignment is repeated, nobody has the template more than once, but
\* for those the members made while they had one, or between the lookup of an
\* assignment and its write.
MembersAssigned ==
    /\ dialog.at = "done" /\ ~moved => reached = members
    /\ \A u \in Users : from[u].linked + from[u].detached <= 1 + onTop[u]
=============================================================================
