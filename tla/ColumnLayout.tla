----------------------------- MODULE ColumnLayout -----------------------------
(***************************************************************************)
(* The columns of one container: their widths in percent and the order of  *)
(* the blocks in them (columns.ts, the container operations of             *)
(* schemaStore.ts, and the migration of stored containers, which PHP and   *)
(* TypeScript do alike).                                                   *)
(***************************************************************************)
EXTENDS Integers, Sequences, FiniteSets, SequencesExt

CONSTANTS
    FullWidth,   \* 100: what the widths of a container sum to
    MinWidth,    \* MIN_COLUMN_WIDTH
    MostColumns, \* MAX_CONTAINER_COLUMNS
    Children,    \* the blocks in the container, as numbers
    RawWidths    \* widths in stored documents and presets; 0 stands for none

ASSUME ColumnLayoutAssumption ==
    /\ {FullWidth, MinWidth, MostColumns} \subseteq Nat \ {0}
    /\ MinWidth * MostColumns <= FullWidth
    /\ Children \subseteq Nat /\ IsFiniteSet(Children) /\ RawWidths \subseteq Nat

VARIABLE columnList \* the columns: [width, children], the children in order

WidthsOf(c) == [i \in DOMAIN c |-> c[i].width]
WithWidths(c, w) == [i \in DOMAIN c |-> [c[i] EXCEPT !.width = w[i]]]
ReadingOrder(c) == FlattenSeq([i \in DOMAIN c |-> c[i].children])

-----------------------------------------------------------------------------
(* Widths. *)

\* One point more, or one less, for the widest column that can take it, the last
\* of several.
Point(w, grow) ==
    LET open   == {i \in DOMAIN w : grow \/ w[i] > MinWidth}
        widest == {i \in open : \A j \in open : w[j] < w[i] \/ (w[j] = w[i] /\ j <= i)}
    IN  [i \in DOMAIN w |-> IF i \notin widest THEN w[i]
                            ELSE IF grow THEN w[i] + 1 ELSE w[i] - 1]

\* normalizeWidths(): rounded shares of the whole, then the drift point by point.
\* A width that is no positive number counts as an even share, FullWidth / n.
NormalizeWidths(w) ==
    LET n     == Len(w)
        raw   == [i \in 1..n |-> IF w[i] > 0 THEN n * w[i] ELSE FullWidth]
        sum   == SumFunction(raw)
        out   == [i \in 1..n |-> Max({MinWidth, (2 * raw[i] * FullWidth + sum) \div (2 * sum)})]
        total == SumFunction(out)
        drift == IF total < FullWidth THEN FullWidth - total ELSE total - FullWidth
    IN  IF n <= 1 THEN [i \in 1..n |-> FullWidth]
        ELSE FoldLeft(LAMBDA o, k : Point(o, total < FullWidth), out, [k \in 1..drift |-> k])

\* The columns that give or take before column j when column i is resized: those
\* that follow i in order, then those before it, the nearest first.
AsksBefore(n, i, j) == IF j > i THEN (i + 1)..(j - 1) ELSE ((i + 1)..n) \cup ((j + 1)..(i - 1))

\* resizeColumn()
ResizeColumn(widths, i, next) ==
    LET n      == Len(widths)
        w      == NormalizeWidths(widths)
        target == Max({MinWidth, Min({FullWidth - MinWidth * (n - 1), next})})
        spare  == [j \in 1..n |-> w[j] - MinWidth]
        still(j) == target - w[i] - SumFunctionOnSet(spare, AsksBefore(n, i, j))
    IN  IF n <= 1 THEN <<FullWidth>>
        ELSE [j \in 1..n |->
                 IF j = i THEN target
                 ELSE IF target <= w[i]
                 THEN w[j] + (IF AsksBefore(n, i, j) = {} THEN w[i] - target ELSE 0)
                 ELSE w[j] - Max({0, Min({spare[j], still(j)})})]

-----------------------------------------------------------------------------
(* Columns. *)

\* Faulty: the blocks of the second column come first.
JoinSwapped(c, l) ==
    [j \in 1..(Len(c) - 1) |->
        IF j < l THEN c[j] ELSE IF j > l THEN c[j + 1]
        ELSE [width |-> c[l].width + c[l + 1].width,
              children |-> c[l + 1].children \o c[l].children]]

\* Columns l and l + 1 in one.
Join(c, l) ==
    [j \in 1..(Len(c) - 1) |->
        IF j < l THEN c[j] ELSE IF j > l THEN c[j + 1]
        ELSE [width |-> c[l].width + c[l + 1].width,
              children |-> c[l].children \o c[l + 1].children]]

\* removeColumnInPlace(): to the end of the column before, or to the start of the
\* next when the first goes.
WithoutColumn(c, i) ==
    LET rest == Join(c, IF i > 1 THEN i - 1 ELSE 1)
    IN  WithWidths(rest, NormalizeWidths(WidthsOf(rest)))

\* The last column joined to the one before until count are left.
Folded(c, count) ==
    FoldLeft(LAMBDA d, k : Join(d, Len(d) - 1), c, [k \in 1..(Len(c) - count) |-> k])

\* setColumnCountInPlace()
WithColumnCount(c, count, widths) ==
    LET kept == Folded(c, count)
    IN  WithWidths([j \in 1..count |-> IF j \in DOMAIN kept THEN kept[j]
                                       ELSE [width |-> 0, children |-> <<>>]],
                   NormalizeWidths(widths))

\* migrateContainerInPlace(), normalize_v2(): columns beyond the limit are folded
\* into the last one.
Migrated(c) ==
    LET kept == Folded(c, Min({Len(c), MostColumns}))
    IN  WithWidths(kept, NormalizeWidths(WidthsOf(kept)))

-----------------------------------------------------------------------------
\* The blocks of a set in the order of their numbers.
InOrder(blocks) ==
    CHOOSE list \in [1..Cardinality(blocks) -> blocks] :
       \A i, j \in 1..Cardinality(blocks) : i < j => list[i] < list[j]

\* The first preset, with all the blocks.
OneColumn == <<[width |-> FullWidth, children |-> InOrder(Children)]>>

WidthLists(n, w) == UNION {[1..m -> w] : m \in 1..n}

\* A stored document, with a column too many perhaps.
ColumnLayoutInit ==
    \E w \in WidthLists(MostColumns + 1, RawWidths) :
       \E at \in [Children -> DOMAIN w] :
          columnList = Migrated([i \in DOMAIN w |->
             [width |-> w[i], children |-> InOrder({b \in Children : at[b] = i})]])

\* The number fields: resizeColumn() and setColumnWidths().
ResizeTo(i, next) ==
    columnList' = WithWidths(columnList,
                     NormalizeWidths(ResizeColumn(WidthsOf(columnList), i, next)))

\* setContainerLayout() with a preset, setContainerColumns() with even widths; the
\* layout there is stays as it is.
SetLayout(w) ==
    /\ Len(w) # Len(columnList) \/ NormalizeWidths(WidthsOf(columnList)) # NormalizeWidths(w)
    /\ columnList' = WithColumnCount(columnList, Len(w), w)

\* removeContainerColumn()
DropColumn(i) ==
    /\ Len(columnList) > 1
    /\ columnList' = WithoutColumn(columnList, i)

\* moveContainerColumn()
SwapColumns(i) ==
    /\ i + 1 \in DOMAIN columnList
    /\ columnList' = [columnList EXCEPT ![i] = columnList[i + 1], ![i + 1] = columnList[i]]

\* moveBlockToColumn(): out of its list, then into that of column i at a position.
PutBlock(b, i, position) ==
    LET out  == [j \in DOMAIN columnList |->
                    [columnList[j] EXCEPT !.children = RemoveFirst(@, b)]]
        list == out[i].children
    IN  columnList' = [out EXCEPT ![i].children =
                          InsertAt(list, Min({position, Len(list) + 1}), b)]

ColumnLayoutNext ==
    \/ \E w \in WidthLists(MostColumns, RawWidths \ {0}) : SetLayout(w)
    \/ \E i \in DOMAIN columnList :
          \/ \E next \in 1..FullWidth : ResizeTo(i, next)
          \/ DropColumn(i) \/ SwapColumns(i)
          \/ \E b \in Children, position \in 1..(Cardinality(Children) + 1) :
                PutBlock(b, i, position)

ColumnLayoutSpec == ColumnLayoutInit /\ [][ColumnLayoutNext]_columnList

-----------------------------------------------------------------------------
\* "Widths are integer percentages that always sum to 100, each at least
\* MIN_COLUMN_WIDTH" (columns.ts), and no block is lost or doubled.
ColumnLayoutTypeOK ==
    /\ Len(columnList) \in 1..MostColumns
    /\ \A i \in DOMAIN columnList : columnList[i].width >= MinWidth
    /\ SumFunction(WidthsOf(columnList)) = FullWidth
    /\ Len(ReadingOrder(columnList)) = Cardinality(Children)
    /\ ToSet(ReadingOrder(columnList)) = Children

\* "Column-count changes that never lose blocks", in order: however the number of
\* columns changes, the blocks are read in the same order as before (columns.ts).
ReadingOrderKept ==
    [][Len(columnList') # Len(columnList)
         => ReadingOrder(columnList') = ReadingOrder(columnList)]_columnList
=============================================================================
