----------------------------- MODULE DocumentTree -----------------------------
(***************************************************************************)
(* The blocks of a signature as a tree (schemaStore, core/schema/tree,     *)
(* columns and locks): a block is at the top or in a column of a           *)
(* container.  Every structural operation of the store, with its limit on  *)
(* the nesting and with what the edit policy of the user refuses.  The     *)
(* order of the blocks in a list is left out, and with it the operations   *)
(* that only change that order; so are the widths of the columns, and the  *)
(* modes of a template in which all of it is refused (structureLocked).    *)
(***************************************************************************)
EXTENDS Naturals, Sequences, FiniteSets, FiniteSetsExt

CONSTANTS
    Blocks,     \* block ids; an id without a block is a fresh one
    MaxColumns, \* MAX_CONTAINER_COLUMNS
    MaxNesting, \* MAX_CONTAINER_NESTING
    MaxLocks    \* bound: how many blocks an administrator locks

ASSUME DocumentTreeAssumption ==
    /\ Blocks \subseteq Nat \ {0} /\ IsFiniteSet(Blocks)
    /\ {MaxColumns, MaxNesting} \subseteq Nat \ {0} /\ MaxLocks \in Nat

VARIABLES
    policy,  \* editPolicy(): "free", or "locks" when enforced
    place,   \* where each block is: the container, 0 for the top, and its column
    columns, \* how many columns each block has: 0 unless it is a container
    live,    \* the blocks of the document
    locked   \* the blocks with locked: true

treeVars == <<policy, place, columns, live, locked>>

Top == [in |-> 0, column |-> 1]

DocumentTreeInit ==
    /\ policy = "free"
    /\ place = [b \in Blocks |-> Top]
    /\ columns = [b \in Blocks |-> 0]
    /\ live = {} /\ locked = {}

-----------------------------------------------------------------------------
(* Walking the tree. *)

\* The containers around a block: one round for each level, and one more.
Around(b) ==
    LET up[n \in 0..MaxNesting] ==
            IF n = 0 THEN {place[b].in} \ {0}
            ELSE LET inner == up[n - 1]
                 IN  inner \cup ({place[c].in : c \in inner} \ {0})
    IN  up[MaxNesting]

\* BlockLocation.depth
Depth(b) == Cardinality(Around(b))

\* isDescendantOf()
IsDescendantOf(ancestor, b) == b # Top.in /\ ancestor \in Around(b)

Subtree(b) == {b} \cup {c \in live : IsDescendantOf(b, c)}
Containers == {b \in live : columns[b] > 0}

\* containerHeight()
ContainerHeight(b) ==
    Max({0} \cup {1 + Depth(c) - Depth(b) : c \in Subtree(b) \cap Containers})

\* canPlaceAtDepth()
CanPlaceAtDepth(height, depth) == depth + height <= MaxNesting

\* The lists of the document, and how many containers enclose each.
Lists == {Top} \cup {list \in [in : Containers, column : 1..MaxColumns] :
                        list.column <= columns[list.in]}
DepthOf(list) == IF list = Top THEN 0 ELSE Depth(list.in) + 1

-----------------------------------------------------------------------------
(* Locks. *)

\* lockedBlockIds()
LockedBlockIds == {b \in live : b \in locked \/ Around(b) \cap locked # {}}

\* allowStructure(): what is moved, and the list it lands in.
AllowStructure(ids, list) ==
    policy = "locks" => (ids \cup {list.in}) \cap LockedBlockIds = {}

SubtreeHasLock(b) == Subtree(b) \cap locked # {}

-----------------------------------------------------------------------------
(* Adding. *)

\* The k-th of a set of ids has k-1 before it.
Rank(b, ids) == Cardinality({c \in ids : c < b})

\* cloneBlockWithFreshIds(): the copy of the i-th block has the i-th fresh id.
Fresh(n) == {b \in Blocks \ live : Rank(b, Blocks \ live) < n}
Copied(ids, f) == CHOOSE b \in ids : Rank(b, ids) = Rank(f, Blocks \ live)
CopyOf(ids, b) == CHOOSE f \in Fresh(Cardinality(ids)) : Copied(ids, f) = b

\* addBlock(), insertBlockBefore(), insertBlockAfter(), addChildToColumn(),
\* pasteBlock(): a block, and perhaps one inside it, from the library or from
\* the clipboard; shape has their numbers of columns.
Insert(shape, list) ==
    /\ Cardinality(Blocks \ live) >= Len(shape)
    /\ CanPlaceAtDepth(Cardinality({i \in DOMAIN shape : shape[i] > 0}), DepthOf(list))
    /\ AllowStructure({}, list)
    /\ LET outer == Min(Blocks \ live)
           new   == Fresh(Len(shape))
       IN  /\ live' = live \cup new
           /\ place' = [b \in Blocks |->
                 IF b \notin new THEN place[b]
                 ELSE IF b = outer THEN list ELSE [in |-> outer, column |-> shape[1]]]
           /\ columns' = [b \in Blocks |->
                 IF b \notin new THEN columns[b] ELSE shape[IF b = outer THEN 1 ELSE 2]]
    /\ UNCHANGED <<policy, locked>>

\* Leaves, and containers with and without a child in their last column.
Shapes == {<<n>> : n \in 0..MaxColumns} \cup {<<m, n>> : m \in 1..MaxColumns, n \in {0, 1}}

\* duplicateBlock(): next to the original, locks and all.
Duplicate(b) ==
    /\ AllowStructure({b}, place[b])
    /\ LET ids == Subtree(b)
           new == Fresh(Cardinality(ids))
       IN  /\ Cardinality(Blocks \ live) >= Cardinality(ids)
           /\ live' = live \cup new
           /\ place' = [c \in Blocks |->
                 IF c \notin new THEN place[c]
                 ELSE IF Copied(ids, c) = b THEN place[b]
                 ELSE [place[Copied(ids, c)] EXCEPT !.in = CopyOf(ids, @)]]
           /\ columns' = [c \in Blocks |-> IF c \in new THEN columns[Copied(ids, c)] ELSE columns[c]]
           /\ locked' = locked \cup {c \in new : Copied(ids, c) \in locked}
    /\ UNCHANGED policy

-----------------------------------------------------------------------------
(* Removing and moving. *)

Without(ids) ==
    /\ live' = live \ ids /\ locked' = locked \ ids
    /\ place' = [b \in Blocks |-> IF b \in ids THEN Top ELSE place[b]]
    /\ columns' = [b \in Blocks |-> IF b \in ids THEN 0 ELSE columns[b]]
    /\ UNCHANGED policy

\* Faulty: does not look for locks further down.
DeleteAnyway(b) == AllowStructure({b}, Top) /\ Without(Subtree(b))

\* deleteBlock()
Delete(b) ==
    /\ AllowStructure({b}, Top)
    /\ policy # "free" => ~SubtreeHasLock(b)
    /\ Without(Subtree(b))

\* Faulty: a container may go into its own columns.
MoveAnywhere(b, list) ==
    /\ CanPlaceAtDepth(ContainerHeight(b), DepthOf(list))
    /\ AllowStructure({b}, list)
    /\ place' = [place EXCEPT ![b] = list]
    /\ UNCHANGED <<policy, columns, live, locked>>

\* moveBlock(), moveBlockToColumn()
Move(b, list) ==
    /\ list.in # b /\ ~IsDescendantOf(b, list.in)
    /\ CanPlaceAtDepth(ContainerHeight(b), DepthOf(list))
    /\ AllowStructure({b}, list)
    /\ place' = [place EXCEPT ![b] = list]
    /\ UNCHANGED <<policy, columns, live, locked>>

\* Moves the blocks of container c from column to column.
Renumber(c, to) ==
    place' = [b \in Blocks |-> IF b \in live /\ place[b].in = c
                               THEN [place[b] EXCEPT !.column = to[@]] ELSE place[b]]

\* setContainerColumns(), setContainerLayout(): setColumnCountInPlace() hands the
\* blocks of the columns it takes away to the last one it keeps.
SetColumns(c, count) ==
    /\ columns[c] # count
    /\ AllowStructure({c}, Top)
    /\ columns' = [columns EXCEPT ![c] = count]
    /\ Renumber(c, [i \in 1..MaxColumns |-> Min({i, count})])
    /\ UNCHANGED <<policy, live, locked>>

\* removeContainerColumn(): the blocks go to the column before, or after the first.
RemoveColumn(c, index) ==
    /\ columns[c] > 1 /\ index <= columns[c]
    /\ AllowStructure({c}, Top)
    /\ columns' = [columns EXCEPT ![c] = @ - 1]
    /\ Renumber(c, [i \in 1..MaxColumns |-> IF i < index \/ i = 1 THEN i ELSE i - 1])
    /\ UNCHANGED <<policy, live, locked>>

\* moveContainerColumn(): the two columns change places.
MoveColumn(c, index) ==
    /\ index < columns[c]
    /\ AllowStructure({c}, Top)
    /\ Renumber(c, [i \in 1..MaxColumns |->
          CASE i = index -> index + 1 [] i = index + 1 -> index [] OTHER -> i])
    /\ UNCHANGED <<policy, columns, live, locked>>

-----------------------------------------------------------------------------
(* Whose document it is. *)

\* A template manager, whom no policy binds, has locked these blocks, and the
\* editor of an employee opens the linked design: linkFromConfig().
Opens(ids) ==
    /\ policy = "free" /\ policy' = "locks"
    /\ locked' = ids
    /\ UNCHANGED <<place, columns, live>>

DocumentTreeNext ==
    \/ \E shape \in Shapes, list \in Lists : Insert(shape, list)
    \/ \E b \in live : \/ Duplicate(b) \/ Delete(b)
                       \/ \E list \in Lists : Move(b, list)
    \/ \E c \in Containers, n \in 1..MaxColumns :
          SetColumns(c, n) \/ RemoveColumn(c, n) \/ MoveColumn(c, n)
    \/ \E ids \in kSubset(MaxLocks, live) : Opens(ids)

DocumentTreeSpec == DocumentTreeInit /\ [][DocumentTreeNext]_treeVars

-----------------------------------------------------------------------------
\* Beyond the types: every block hangs below the top by containers of the
\* document, in a column its container has, and no container is nested deeper than
\* the limit; so nothing disappears from the canvas.
DocumentTreeTypeOK ==
    /\ policy \in {"free", "locks"}
    /\ live \subseteq Blocks /\ locked \subseteq live
    /\ place \in [Blocks -> [in : {0} \cup Blocks, column : 1..MaxColumns]]
    /\ columns \in [Blocks -> 0..MaxColumns]
    /\ \A b \in live :
          /\ b \notin Around(b)
          /\ Around(b) \subseteq Containers /\ place[b] \in Lists
          /\ Depth(b) + (IF columns[b] > 0 THEN 1 ELSE 0) <= MaxNesting

\* An employee whose design is locked in places leaves them as they are: a locked
\* block stays in its container, and a locked container keeps exactly the blocks
\* it has, whatever is done to the containers around it (locks.ts, "every mode").
LockedStay ==
    [][policy = "locks" /\ policy' = "locks"
         => /\ \A b \in LockedBlockIds : b \in live' /\ place'[b].in = place[b].in
            /\ \A c \in LockedBlockIds : {b \in live : place[b].in = c}
                                          = {b \in live' : place'[b].in = c}]_treeVars
=============================================================================
