-------------------------- MODULE EditHistoryProofs --------------------------
(***************************************************************************)
(* Proofs about EditHistory for every set of documents, every set of edit  *)
(* targets and every depth of the history.                                 *)
(***************************************************************************)
EXTENDS EditHistory, SequenceTheorems, TLAPS

\* What slice(-n) returns: a sequence of the same elements, at most n long.
LEMMA NewestProperties ==
    ASSUME NEW s \in Seq(Docs), NEW n \in Nat
    PROVE  /\ Newest(s, n) \in Seq(Docs)
           /\ Len(Newest(s, n)) <= n
           /\ Len(Newest(s, n)) <= Len(s)
<1>1. CASE Len(s) <= n
  BY <1>1, LenProperties DEF Newest
<1>2. CASE ~(Len(s) <= n)
  <2>1. Len(s) \in Nat /\ Len(s) > n
    BY <1>2, LenProperties
  <2>2. Newest(s, n) = SubSeq(s, Len(s) - n + 1, Len(s))
    BY <1>2 DEF Newest
  <2>3. \A i \in (Len(s) - n + 1)..Len(s) : s[i] \in Docs
    BY <2>1, ElementOfSeq
  <2>4. /\ SubSeq(s, Len(s) - n + 1, Len(s)) \in Seq(Docs)
        /\ Len(SubSeq(s, Len(s) - n + 1, Len(s))) = n
    BY <2>1, <2>3
  <2> QED BY <2>1, <2>2, <2>4
<1> QED BY <1>1, <1>2

\* What slice(0, -1) returns: the sequence without its last element.
LEMMA FrontProperties ==
    ASSUME NEW s \in Seq(Docs), s # <<>>
    PROVE  /\ SubSeq(s, 1, Len(s) - 1) \in Seq(Docs)
           /\ Len(SubSeq(s, 1, Len(s) - 1)) = Len(s) - 1
           /\ \A i \in 1..(Len(s) - 1) : SubSeq(s, 1, Len(s) - 1)[i] = s[i]
<1>1. Len(s) \in Nat \ {0}
  BY EmptySeq
<1>2. PICK n \in Nat : n = Len(s) - 1
  BY <1>1
<1>3. Len(s) = n + 1
  BY <1>1, <1>2
<1>4. \A i \in 1..n : s[i] \in Docs
  BY <1>3, ElementOfSeq
<1>5. SubSeq(s, 1, n) \in Seq(Docs)
  BY <1>4, SubSeqProperties
<1>6. Len(SubSeq(s, 1, n)) = n
  <2>1. Len(SubSeq(s, 1, n)) = IF 1 <= n THEN n - 1 + 1 ELSE 0
    BY <1>4, SubSeqProperties
  <2> QED BY <2>1
<1>7. ASSUME NEW i \in 1..n PROVE SubSeq(s, 1, n)[i] = s[i]
  <2>1. i \in 1..(n - 1 + 1) /\ 1 + i - 1 = i
    OBVIOUS
  <2>2. SubSeq(s, 1, n)[i] = s[1 + i - 1]
    BY <1>4, <2>1, SubSeqProperties
  <2> QED BY <2>1, <2>2
<1> QED BY <1>2, <1>5, <1>6, <1>7

-----------------------------------------------------------------------------
(* Type correctness *)

\* A push stores a document and empties the redo stack.
LEMMA PushType ==
    ASSUME HistoryTypeOK, Push
    PROVE  /\ past' \in Seq(Docs)
           /\ future' \in Seq(Docs)
           /\ future' = <<>>
           /\ past' # <<>>
           /\ Len(past') <= MaxDepth
           /\ Len(past') + Len(future') <= MaxDepth
<1> DEFINE kept == Newest(past, MaxDepth - 1)
<1>1. MaxDepth - 1 \in Nat /\ MaxDepth \in Nat
  BY HistoryAssumption
<1>2. kept \in Seq(Docs) /\ Len(kept) <= MaxDepth - 1 /\ schema \in Docs
  BY <1>1, NewestProperties DEF HistoryTypeOK
<1>3. past' = Append(kept, schema) /\ future' = <<>>
  BY DEF Push
<1> HIDE DEF kept
<1>4. Append(kept, schema) \in Seq(Docs) /\ Len(Append(kept, schema)) = Len(kept) + 1
  BY <1>2
<1>5. Len(kept) \in Nat
  BY <1>2
<1> QED BY <1>1, <1>2, <1>3, <1>4, <1>5

\* What the invariant of the stacks needs besides the types: the three
\* properties hold together, each action keeping one by means of the others.
HistoryInv ==
    /\ HistoryTypeOK
    /\ HistoryBounded
    /\ BurstIsSound
    /\ StepsAreSaved

\* The history starts empty.
LEMMA InitHistory == Init => HistoryInv
<1> SUFFICES ASSUME Init PROVE HistoryInv
  OBVIOUS
<1>1. past = <<>> /\ future = <<>> /\ Len(past) = 0 /\ Len(future) = 0
  BY DEF Init
<1>2. HistoryTypeOK
  <2>1. past \in Seq(Docs) /\ future \in Seq(Docs)
    BY <1>1, EmptySeq
  <2> QED BY <2>1 DEF Init, HistoryTypeOK
<1>3. HistoryBounded
  BY <1>1, HistoryAssumption DEF HistoryBounded
<1>4. BurstIsSound /\ StepsAreSaved
  BY <1>1 DEF Init, BurstIsSound, StepsAreSaved
<1> QED BY <1>2, <1>3, <1>4 DEF HistoryInv

\* Every step of the document keeps the types and the shape of the stacks.
LEMMA StepHistory == HistoryInv /\ [Next]_vars => HistoryInv'
<1> SUFFICES ASSUME HistoryInv, [Next]_vars PROVE HistoryInv'
  OBVIOUS
<1> USE DEF HistoryInv
<1>0. MaxDepth \in Nat /\ MaxDepth >= 2 /\ NoBurst \notin Keys
  BY HistoryAssumption
<1>a. ASSUME Push, schema' \in Docs, hasUserEdited' = TRUE, burst' \in Keys \cup {NoBurst}
      PROVE  HistoryInv'
  <2>1. /\ past' \in Seq(Docs) /\ future' \in Seq(Docs)
        /\ future' = <<>> /\ past' # <<>> /\ Len(past') + Len(future') <= MaxDepth
    BY <1>a, PushType
  <2>2. HistoryTypeOK'
    BY <1>a, <2>1 DEF HistoryTypeOK
  <2> QED BY <1>a, <2>1, <2>2 DEF HistoryBounded, BurstIsSound, StepsAreSaved
<1>b. ASSUME Clear, schema' \in Docs, hasUserEdited' \in BOOLEAN, burst' = NoBurst
      PROVE  HistoryInv'
  <2>1. past' = <<>> /\ future' = <<>> /\ Len(past') = 0 /\ Len(future') = 0
    BY <1>b DEF Clear
  <2>2. HistoryTypeOK'
    BY <1>b, <2>1 DEF HistoryTypeOK
  <2> QED BY <1>0, <1>b, <2>1, <2>2 DEF HistoryBounded, BurstIsSound, StepsAreSaved
<1>c. ASSUME UNCHANGED <<past, future>>, schema' \in Docs, hasUserEdited' \in BOOLEAN,
             hasUserEdited => hasUserEdited', burst' \in {burst, NoBurst}
      PROVE  HistoryInv'
  BY <1>c DEF HistoryTypeOK, HistoryBounded, BurstIsSound, StepsAreSaved
<1>1. ASSUME NEW d \in Docs, SetSchema(d) PROVE HistoryInv'
  BY <1>1, <1>b DEF SetSchema
<1>2. ASSUME NEW d \in Docs, NEW undoable \in BOOLEAN, ReplaceSchema(d, undoable)
      PROVE  HistoryInv'
  <2>1. CASE undoable
    BY <1>2, <2>1, <1>a DEF ReplaceSchema, MarkEdited, PushSnapshot
  <2>2. CASE ~undoable
    BY <1>2, <2>2, <1>b DEF ReplaceSchema, MarkEdited
  <2> QED BY <2>1, <2>2
<1>3. ASSUME NEW d \in Docs, StructuralEdit(d) PROVE HistoryInv'
  BY <1>3, <1>a DEF StructuralEdit, MarkEdited, PushSnapshot
<1>4. ASSUME NEW d \in Docs, NEW k \in Keys, PropertyEdit(k, d) PROVE HistoryInv'
  <2>1. schema' \in Docs /\ hasUserEdited' = TRUE
    BY <1>4 DEF PropertyEdit, MarkEdited
  <2>2. CASE burst = k /\ UNCHANGED <<past, future, burst>>
    BY <2>1, <2>2, <1>c
  <2>3. CASE burst # k /\ Push /\ burst' = k
    BY <2>1, <2>3, <1>a
  <2> QED BY <1>4, <2>2, <2>3 DEF PropertyEdit, PushCoalescedSnapshot
<1>5. ASSUME NEW d \in Docs, DerivedWrite(d) PROVE HistoryInv'
  BY <1>5, <1>c DEF DerivedWrite, MarkEdited
<1>6. ASSUME NEW d \in Docs, Adopt(d) PROVE HistoryInv'
  BY <1>6, <1>c DEF Adopt, ReplaceSchemaForHistory, MarkEdited
<1>7. CASE Undo
  <2>1. /\ past \in Seq(Docs) /\ future \in Seq(Docs) /\ schema \in Docs
        /\ past # <<>> /\ Len(past) + Len(future) <= MaxDepth
    BY <1>7 DEF Undo, HistoryTypeOK, HistoryBounded
  <2>2. Len(past) \in Nat /\ Len(past) >= 1 /\ Len(future) \in Nat
    BY <2>1, EmptySeq
  <2>3. /\ past' = SubSeq(past, 1, Len(past) - 1)
        /\ future' = <<schema>> \o future
        /\ schema' = past[Len(past)] /\ hasUserEdited' = TRUE /\ burst' = NoBurst
    BY <1>7 DEF Undo, ReplaceSchemaForHistory, MarkEdited
  <2>4. schema' \in Docs
    BY <2>1, <2>2, <2>3, ElementOfSeq
  <2>5. past' \in Seq(Docs) /\ Len(past') = Len(past) - 1
    BY <2>1, <2>2, <2>3
  <2>6. <<schema>> \in Seq(Docs) /\ Len(<<schema>>) = 1
    BY <2>1
  <2>7. future' \in Seq(Docs) /\ Len(future') = Len(future) + 1
    BY <2>1, <2>3, <2>6, ConcatProperties
  <2>8. HistoryTypeOK'
    BY <2>3, <2>4, <2>5, <2>7 DEF HistoryTypeOK
  <2>9. HistoryBounded'
    BY <1>0, <2>1, <2>2, <2>5, <2>7 DEF HistoryBounded
  <2> QED BY <2>3, <2>8, <2>9 DEF BurstIsSound, StepsAreSaved
<1>8. CASE Redo
  <2>1. /\ past \in Seq(Docs) /\ future \in Seq(Docs) /\ schema \in Docs
        /\ future # <<>> /\ Len(past) + Len(future) <= MaxDepth
    BY <1>8 DEF Redo, HistoryTypeOK, HistoryBounded
  <2>2. Len(future) \in Nat /\ Len(future) >= 1 /\ Len(past) \in Nat
    BY <2>1, EmptySeq
  <2>3. /\ past' = Append(past, schema) /\ future' = Tail(future)
        /\ schema' = future[1] /\ hasUserEdited' = TRUE /\ burst' = NoBurst
    BY <1>8 DEF Redo, ReplaceSchemaForHistory, MarkEdited
  <2>4. schema' \in Docs
    BY <2>1, <2>2, <2>3, ElementOfSeq
  <2>5. past' \in Seq(Docs) /\ Len(past') = Len(past) + 1
    BY <2>1, <2>3
  <2>6. future' \in Seq(Docs) /\ Len(future') = Len(future) - 1
    BY <2>1, <2>3, HeadTailProperties
  <2>7. HistoryTypeOK'
    BY <2>3, <2>4, <2>5, <2>6 DEF HistoryTypeOK
  <2>8. HistoryBounded'
    BY <1>0, <2>1, <2>2, <2>5, <2>6 DEF HistoryBounded
  <2> QED BY <2>3, <2>7, <2>8 DEF BurstIsSound, StepsAreSaved
<1>9. CASE Pause
  BY <1>9, <1>c DEF Pause, HistoryTypeOK
<1>10. CASE UNCHANGED vars
  BY <1>10, <1>c DEF vars, HistoryTypeOK
<1> QED
  BY <1>1, <1>2, <1>3, <1>4, <1>5, <1>6, <1>7, <1>8, <1>9, <1>10 DEF Next

\* The inductive invariant holds in every state of every behaviour.
THEOREM HistoryInvariant == Spec => []HistoryInv
<1>1. Init => HistoryInv
  BY InitHistory
<1>2. HistoryInv /\ [Next]_vars => HistoryInv'
  BY StepHistory
<1> QED BY <1>1, <1>2, PTL DEF Spec

\* The canvas and both stacks only ever hold documents.
THEOREM HistoryTypeCorrect == Spec => []HistoryTypeOK
<1>1. HistoryInv => HistoryTypeOK
  BY DEF HistoryInv
<1> QED BY <1>1, HistoryInvariant, PTL

\* Both stacks together never hold more than MAX_DEPTH snapshots, although
\* only Push trims: MAX_DEPTH bounds the memory whatever the user does.
THEOREM HistoryIsBounded == Spec => []HistoryBounded
<1>1. HistoryInv => HistoryBounded
  BY DEF HistoryInv
<1> QED BY <1>1, HistoryInvariant, PTL

\* An edit that pushes nothing never leaves a redo stack behind, and never
\* lacks a snapshot to be undone to.
THEOREM BurstsAreSound == Spec => []BurstIsSound
<1>1. HistoryInv => BurstIsSound
  BY DEF HistoryInv
<1> QED BY <1>1, HistoryInvariant, PTL

\* Whatever can be undone or redone belongs to a document the autosave watches.
THEOREM UndoIsSaved == Spec => []StepsAreSaved
<1>1. HistoryInv => StepsAreSaved
  BY DEF HistoryInv
<1> QED BY <1>1, HistoryInvariant, PTL

-----------------------------------------------------------------------------
(* The stacks implement the timeline *)

\* The line of documents, the canvas between the two stacks.
LineOf(p, d, f) == p \o <<d>> \o f

\* Its length, and where each of its documents comes from.
LEMMA LineProperties ==
    ASSUME NEW p \in Seq(Docs), NEW d \in Docs, NEW f \in Seq(Docs)
    PROVE  /\ LineOf(p, d, f) \in Seq(Docs)
           /\ Len(LineOf(p, d, f)) = Len(p) + 1 + Len(f)
           /\ \A i \in 1..(Len(p) + 1 + Len(f)) :
                 LineOf(p, d, f)[i] = IF i <= Len(p) THEN p[i]
                                      ELSE IF i = Len(p) + 1 THEN d
                                      ELSE f[i - Len(p) - 1]
<1>1. <<d>> \in Seq(Docs) /\ Len(<<d>>) = 1 /\ <<d>>[1] = d
  OBVIOUS
<1>2. Len(p) \in Nat /\ Len(f) \in Nat
  BY LenProperties
<1>3. /\ p \o <<d>> \in Seq(Docs)
      /\ Len(p \o <<d>>) = Len(p) + 1
      /\ \A i \in 1..(Len(p) + 1) : (p \o <<d>>)[i] = IF i <= Len(p) THEN p[i] ELSE d
  BY <1>1, <1>2, ConcatProperties
<1>4. /\ (p \o <<d>>) \o f \in Seq(Docs)
      /\ Len((p \o <<d>>) \o f) = Len(p) + 1 + Len(f)
      /\ \A i \in 1..(Len(p) + 1 + Len(f)) :
            ((p \o <<d>>) \o f)[i] = IF i <= Len(p) + 1 THEN (p \o <<d>>)[i]
                                     ELSE f[i - (Len(p) + 1)]
  BY <1>2, <1>3, ConcatProperties
<1>5. \A i \in 1..(Len(p) + 1 + Len(f)) : i - (Len(p) + 1) = i - Len(p) - 1
  BY <1>2
<1> QED BY <1>2, <1>3, <1>4, <1>5 DEF LineOf

\* A push is a commit, on a history that is full and on one that is not.
LEMMA PushCommits ==
    ASSUME HistoryInv, Push, schema' \in Docs
    PROVE  Line!Commit(schema')
<1>1. HistoryTypeOK /\ Len(past) + Len(future) <= MaxDepth
  BY DEF HistoryInv, HistoryBounded
<1>2. /\ MaxDepth \in Nat /\ MaxDepth >= 2
      /\ past \in Seq(Docs) /\ future \in Seq(Docs) /\ schema \in Docs
      /\ Len(past) \in Nat /\ Len(future) \in Nat /\ Len(past) <= MaxDepth
  BY <1>1, HistoryAssumption, LenProperties DEF HistoryTypeOK
<1> DEFINE cur  == Len(past) + 1
           line == LineOf(past, schema, future)
           kept == SubSeq(line, 1, cur)
           next == LineOf(past', schema', future')
<1>3. /\ line \in Seq(Docs) /\ Len(line) = cur + Len(future)
      /\ \A i \in 1..cur : line[i] = IF i <= Len(past) THEN past[i] ELSE schema
  <2>1. /\ line \in Seq(Docs) /\ Len(line) = Len(past) + 1 + Len(future)
        /\ \A i \in 1..(Len(past) + 1 + Len(future)) :
              line[i] = IF i <= Len(past) THEN past[i]
                        ELSE IF i = Len(past) + 1 THEN schema
                        ELSE future[i - Len(past) - 1]
    BY <1>2, LineProperties
  <2> HIDE DEF line
  <2> QED BY <1>2, <2>1
<1>4. /\ kept \in Seq(Docs) /\ Len(kept) = cur
      /\ \A i \in 1..cur : kept[i] = IF i <= Len(past) THEN past[i] ELSE schema
  <2>1. \A i \in 1..cur : line[i] \in Docs
    BY <1>2, <1>3, ElementOfSeq
  <2> HIDE DEF line
  <2> QED BY <1>2, <1>3, <2>1
<1>5. /\ past' \in Seq(Docs) /\ future' = <<>> /\ future' \in Seq(Docs) /\ Len(future') = 0
  BY <1>1, PushType, EmptySeq
<1>6. /\ next \in Seq(Docs) /\ Len(next) = Len(past') + 1
      /\ \A i \in 1..(Len(past') + 1) :
            next[i] = IF i <= Len(past') THEN past'[i] ELSE schema'
  <2>1. Len(past') \in Nat
    BY <1>5, LenProperties
  <2>2. /\ next \in Seq(Docs) /\ Len(next) = Len(past') + 1 + Len(future')
        /\ \A i \in 1..(Len(past') + 1 + Len(future')) :
              next[i] = IF i <= Len(past') THEN past'[i]
                        ELSE IF i = Len(past') + 1 THEN schema'
                        ELSE future'[i - Len(past') - 1]
    <3>1. past' \in Seq(Docs) /\ schema' \in Docs /\ future' \in Seq(Docs)
      BY <1>5
    <3> QED BY <3>1, LineProperties
  <2> HIDE DEF next
  <2> QED BY <1>5, <2>1, <2>2
<1>7. past' = Append(Newest(past, MaxDepth - 1), schema)
  BY DEF Push
<1>8. CASE cur > MaxDepth
  <2>1. Len(past) = MaxDepth
    BY <1>2, <1>8
  <2>2. Newest(past, MaxDepth - 1) = SubSeq(past, 2, Len(past))
    <3>1. Len(past) - (MaxDepth - 1) + 1 = 2 /\ ~(Len(past) <= MaxDepth - 1)
      BY <1>2, <2>1
    <3> QED BY <3>1 DEF Newest
  <2>3. /\ SubSeq(past, 2, Len(past)) \in Seq(Docs)
        /\ Len(SubSeq(past, 2, Len(past))) = Len(past) - 1
        /\ \A i \in 1..(Len(past) - 1) : SubSeq(past, 2, Len(past))[i] = past[i + 1]
    <3>1. \A i \in 2..Len(past) : past[i] \in Docs
      BY <1>2, ElementOfSeq
    <3> QED BY <1>2, <2>1, <3>1
  <2>4. /\ Len(past') = Len(past)
        /\ \A i \in 1..Len(past) : past'[i] = IF i < Len(past) THEN past[i + 1] ELSE schema
    <3> DEFINE front == SubSeq(past, 2, Len(past))
    <3>1. past' = Append(front, schema)
      BY <1>7, <2>2
    <3> HIDE DEF front
    <3>2. /\ front \in Seq(Docs) /\ Len(front) = Len(past) - 1
          /\ \A i \in 1..(Len(past) - 1) : front[i] = past[i + 1]
      BY <2>3 DEF front
    <3> QED BY <1>2, <3>1, <3>2
  <2> DEFINE rest == Tail(kept)
             goal == Append(rest, schema')
  <2>5. /\ rest \in Seq(Docs) /\ Len(rest) = Len(past)
        /\ \A i \in 1..Len(past) : rest[i] = kept[i + 1]
    <3> HIDE DEF kept
    <3>1. kept # <<>>
      BY <1>2, <1>4, EmptySeq
    <3> QED BY <1>2, <1>4, <3>1, HeadTailProperties
  <2>6. /\ goal \in Seq(Docs) /\ Len(goal) = Len(past) + 1
        /\ \A i \in 1..(Len(past) + 1) : goal[i] = IF i <= Len(past) THEN rest[i] ELSE schema'
    <3> HIDE DEF rest
    <3> QED BY <1>2, <2>5
  <2>7. next = goal
    <3>1. Len(next) = Len(goal)
      BY <1>6, <2>4, <2>6
    <3>2. ASSUME NEW i \in 1..Len(next) PROVE next[i] = goal[i]
      <4>1. i \in 1..(Len(past) + 1) /\ i \in Nat
        BY <1>2, <1>6, <2>4
      <4>2. CASE i <= Len(past)
        <5>1. i + 1 \in 1..cur /\ i \in 1..Len(past)
          BY <1>2, <4>1, <4>2
        <5>2. goal[i] = IF i + 1 <= Len(past) THEN past[i + 1] ELSE schema
          BY <1>4, <2>5, <2>6, <4>1, <4>2, <5>1
        <5>3. next[i] = past'[i]
          BY <1>6, <2>4, <4>1, <4>2
        <5>4. past'[i] = IF i < Len(past) THEN past[i + 1] ELSE schema
          BY <2>4, <5>1
        <5>5. (i + 1 <= Len(past)) <=> (i < Len(past))
          BY <1>2, <4>1
        <5> HIDE DEF next, goal
        <5> QED BY <5>2, <5>3, <5>4, <5>5
      <4>3. CASE ~(i <= Len(past))
        BY <1>6, <2>4, <2>6, <4>1, <4>3
      <4> QED BY <4>2, <4>3
    <3> HIDE DEF next, goal
    <3> QED BY <1>6, <2>6, <3>1, <3>2, SeqEqual
  <2>8. Len(past') + 1 = cur
    BY <2>4
  <2> QED BY <1>8, <2>7, <2>8 DEF Line!Commit, LineOf
<1>9. CASE ~(cur > MaxDepth)
  <2>1. Newest(past, MaxDepth - 1) = past
    BY <1>2, <1>9 DEF Newest
  <2>2. /\ Len(past') = cur
        /\ \A i \in 1..cur : past'[i] = IF i <= Len(past) THEN past[i] ELSE schema
    BY <1>2, <1>7, <2>1
  <2> DEFINE goal == Append(kept, schema')
  <2>3. /\ goal \in Seq(Docs) /\ Len(goal) = cur + 1
        /\ \A i \in 1..(cur + 1) : goal[i] = IF i <= cur THEN kept[i] ELSE schema'
    <3> HIDE DEF kept
    <3> QED BY <1>2, <1>4
  <2>4. next = goal
    <3>1. Len(next) = Len(goal)
      BY <1>6, <2>2, <2>3
    <3>2. ASSUME NEW i \in 1..Len(next) PROVE next[i] = goal[i]
      <4>1. i \in 1..(cur + 1)
        BY <1>6, <2>2
      <4>2. CASE i <= cur
        <5>1. i \in 1..cur
          BY <1>2, <4>1, <4>2
        <5> HIDE DEF kept, next, goal
        <5> QED BY <1>4, <1>6, <2>2, <2>3, <4>1, <4>2, <5>1
      <4>3. CASE ~(i <= cur)
        BY <1>6, <2>2, <2>3, <4>1, <4>3
      <4> QED BY <4>2, <4>3
    <3> HIDE DEF next, goal
    <3> QED BY <1>6, <2>3, <3>1, <3>2, SeqEqual
  <2>5. Len(past') + 1 = cur + 1
    BY <2>2
  <2> QED BY <1>9, <2>4, <2>5 DEF Line!Commit, LineOf
<1> QED BY <1>8, <1>9

\* Opening another document, or replacing this one for good, restarts the line.
LEMMA ClearRestarts ==
    ASSUME Clear, schema' \in Docs
    PROVE  Line!Restart(schema')
<1>1. past' = <<>> /\ future' = <<>>
  BY DEF Clear
<1>2. /\ <<>> \o <<schema'>> \o <<>> = <<schema'>>
      /\ Len(<<>>) + 1 = 1
  BY ConcatEmptySeq
<1> QED BY <1>1, <1>2 DEF Line!Restart

\* A write that leaves the stacks alone amends the document in place.
LEMMA StillStacksAmend ==
    ASSUME HistoryTypeOK, UNCHANGED <<past, future>>, schema' \in Docs
    PROVE  Line!Amend(schema')
<1>1. /\ past \in Seq(Docs) /\ future \in Seq(Docs) /\ schema \in Docs
      /\ Len(past) \in Nat /\ Len(future) \in Nat
      /\ past' = past /\ future' = future
  BY LenProperties DEF HistoryTypeOK
<1> DEFINE n    == Len(past) + 1 + Len(future)
           line == LineOf(past, schema, future)
           next == LineOf(past, schema', future)
           goal == [line EXCEPT ![Len(past) + 1] = schema']
<1>2. /\ line \in Seq(Docs) /\ Len(line) = n
      /\ \A i \in 1..n : line[i] = IF i <= Len(past) THEN past[i]
                                  ELSE IF i = Len(past) + 1 THEN schema
                                  ELSE future[i - Len(past) - 1]
  BY <1>1, LineProperties
<1>3. /\ next \in Seq(Docs) /\ Len(next) = n
      /\ \A i \in 1..n : next[i] = IF i <= Len(past) THEN past[i]
                                  ELSE IF i = Len(past) + 1 THEN schema'
                                  ELSE future[i - Len(past) - 1]
  BY <1>1, LineProperties
<1>4. /\ goal \in Seq(Docs) /\ Len(goal) = n
      /\ \A i \in 1..n : goal[i] = IF i = Len(past) + 1 THEN schema' ELSE line[i]
  <2> HIDE DEF line
  <2>1. Len(past) + 1 \in 1..Len(line)
    BY <1>1, <1>2
  <2> QED BY <1>2, <2>1, ExceptSeq
<1>5. next = goal
  <2>1. ASSUME NEW i \in 1..n PROVE next[i] = goal[i]
    <3>1. i \in Nat /\ (i = Len(past) + 1 => ~(i <= Len(past)))
      BY <1>1
    <3> HIDE DEF line, next, goal
    <3>2. CASE i = Len(past) + 1
      BY <1>3, <1>4, <3>1, <3>2
    <3>3. CASE i # Len(past) + 1
      <4>1. goal[i] = line[i]
        BY <1>4, <3>3
      <4>2. next[i] = IF i <= Len(past) THEN past[i] ELSE future[i - Len(past) - 1]
        BY <1>3, <3>3
      <4>3. line[i] = IF i <= Len(past) THEN past[i] ELSE future[i - Len(past) - 1]
        BY <1>2, <3>3
      <4> QED BY <4>1, <4>2, <4>3
    <3> QED BY <3>2, <3>3
  <2> HIDE DEF line, next, goal
  <2> QED BY <1>3, <1>4, <2>1, SeqEqual
<1> QED BY <1>1, <1>5 DEF Line!Amend, LineOf

\* Undo moves the cursor one back along the same line, and redo one forward.
LEMMA UndoMovesBack ==
    ASSUME HistoryTypeOK, Undo
    PROVE  Line!Back
<1>1. /\ past \in Seq(Docs) /\ future \in Seq(Docs) /\ schema \in Docs
      /\ Len(past) \in Nat /\ Len(future) \in Nat /\ Len(past) >= 1
  BY LenProperties, EmptySeq DEF HistoryTypeOK, Undo
<1> DEFINE front == SubSeq(past, 1, Len(past) - 1)
           top   == past[Len(past)]
           ahead == <<schema>> \o future
           n     == Len(past) + 1 + Len(future)
           line  == LineOf(past, schema, future)
           next  == LineOf(front, top, ahead)
<1>2. past' = front /\ schema' = top /\ future' = ahead
  BY DEF Undo, ReplaceSchemaForHistory, MarkEdited
<1>3. /\ front \in Seq(Docs) /\ Len(front) = Len(past) - 1
      /\ \A i \in 1..(Len(past) - 1) : front[i] = past[i]
  <2>1. past # <<>>
    BY DEF Undo
  <2> QED BY <1>1, <2>1, FrontProperties
<1>4. top \in Docs
  BY <1>1, ElementOfSeq
<1>5. /\ ahead \in Seq(Docs) /\ Len(ahead) = Len(future) + 1
      /\ \A i \in 1..(Len(future) + 1) : ahead[i] = IF i = 1 THEN schema ELSE future[i - 1]
  <2>1. <<schema>> \in Seq(Docs) /\ Len(<<schema>>) = 1 /\ <<schema>>[1] = schema
    BY <1>1
  <2>2. /\ ahead \in Seq(Docs) /\ Len(ahead) = 1 + Len(future)
        /\ \A i \in 1..(1 + Len(future)) :
              ahead[i] = IF i <= 1 THEN <<schema>>[i] ELSE future[i - 1]
    BY <1>1, <2>1, ConcatProperties
  <2> HIDE DEF ahead
  <2> QED BY <1>1, <2>1, <2>2
<1>6. /\ line \in Seq(Docs) /\ Len(line) = n
      /\ \A i \in 1..n : line[i] = IF i <= Len(past) THEN past[i]
                                  ELSE IF i = Len(past) + 1 THEN schema
                                  ELSE future[i - Len(past) - 1]
  BY <1>1, LineProperties
<1>7. /\ next \in Seq(Docs) /\ Len(next) = Len(front) + 1 + Len(ahead)
      /\ \A i \in 1..(Len(front) + 1 + Len(ahead)) :
            next[i] = IF i <= Len(front) THEN front[i]
                      ELSE IF i = Len(front) + 1 THEN top
                      ELSE ahead[i - Len(front) - 1]
  <2>1. front \in Seq(Docs) /\ top \in Docs /\ ahead \in Seq(Docs)
    BY <1>3, <1>4, <1>5
  <2> HIDE DEF front, top, ahead
  <2> QED BY <2>1, LineProperties
<1>8. next = line
  <2>1. Len(next) = n
    <3> HIDE DEF next, front, ahead
    <3> QED BY <1>1, <1>3, <1>5, <1>7
  <2>2. ASSUME NEW i \in 1..n PROVE next[i] = line[i]
    <3>1. next[i] = IF i <= Len(past) - 1 THEN front[i]
                    ELSE IF i = Len(past) THEN top
                    ELSE ahead[i - Len(past)]
      <4> HIDE DEF next, front, top, ahead
      <4>1. i \in 1..(Len(front) + 1 + Len(ahead))
        BY <1>1, <1>3, <1>5
      <4>2. i - Len(front) - 1 = i - Len(past) /\ Len(front) + 1 = Len(past)
        BY <1>1, <1>3
      <4> QED BY <1>3, <1>7, <4>1, <4>2
    <3>2. CASE i <= Len(past) - 1
      <4>1. i \in 1..(Len(past) - 1) /\ i <= Len(past)
        BY <1>1, <3>2
      <4> HIDE DEF next, front, top, ahead, line
      <4> QED BY <1>3, <1>6, <3>1, <3>2, <4>1
    <3>3. CASE i = Len(past)
      <4>1. ~(i <= Len(past) - 1) /\ i <= Len(past)
        BY <1>1, <3>3
      <4>2. line[i] = past[i]
        BY <1>6, <4>1
      <4> HIDE DEF next, front, ahead, line
      <4> QED BY <3>1, <3>3, <4>1, <4>2
    <3>4. CASE i > Len(past)
      <4>1. /\ ~(i <= Len(past) - 1) /\ i # Len(past) /\ ~(i <= Len(past))
            /\ i - Len(past) \in 1..(Len(future) + 1)
            /\ (i - Len(past) = 1) <=> (i = Len(past) + 1)
            /\ (i - Len(past)) - 1 = i - Len(past) - 1
        BY <1>1, <3>4
      <4>2. next[i] = ahead[i - Len(past)]
        BY <3>1, <4>1
      <4>3. ahead[i - Len(past)] = IF i - Len(past) = 1 THEN schema
                                   ELSE future[(i - Len(past)) - 1]
        BY <1>5, <4>1
      <4>4. line[i] = IF i = Len(past) + 1 THEN schema ELSE future[i - Len(past) - 1]
        BY <1>6, <4>1
      <4> HIDE DEF next, front, top, ahead, line
      <4> QED BY <4>1, <4>2, <4>3, <4>4
    <3> QED BY <1>1, <3>2, <3>3, <3>4
  <2> HIDE DEF line, next
  <2> QED BY <1>6, <1>7, <2>1, <2>2, SeqEqual
<1>9. Len(front) + 1 = (Len(past) + 1) - 1 /\ Len(past) + 1 > 1
  BY <1>1, <1>3
<1> QED BY <1>2, <1>8, <1>9 DEF Line!Back, LineOf

\* Redo is one step forward on the line.
LEMMA RedoMovesForward ==
    ASSUME HistoryTypeOK, Redo
    PROVE  Line!Forward
<1>1. /\ past \in Seq(Docs) /\ future \in Seq(Docs) /\ schema \in Docs
      /\ Len(past) \in Nat /\ Len(future) \in Nat /\ Len(future) >= 1 /\ future # <<>>
  BY LenProperties, EmptySeq DEF HistoryTypeOK, Redo
<1> DEFINE behind == Append(past, schema)
           top    == future[1]
           rest   == Tail(future)
           n      == Len(past) + 1 + Len(future)
           line   == LineOf(past, schema, future)
           next   == LineOf(behind, top, rest)
<1>2. past' = behind /\ schema' = top /\ future' = rest
  BY DEF Redo, ReplaceSchemaForHistory, MarkEdited
<1>3. /\ behind \in Seq(Docs) /\ Len(behind) = Len(past) + 1
      /\ \A i \in 1..(Len(past) + 1) : behind[i] = IF i <= Len(past) THEN past[i] ELSE schema
  BY <1>1
<1>4. top \in Docs
  BY <1>1, ElementOfSeq
<1>5. /\ rest \in Seq(Docs) /\ Len(rest) = Len(future) - 1
      /\ \A i \in 1..(Len(future) - 1) : rest[i] = future[i + 1]
  BY <1>1, HeadTailProperties
<1>6. /\ line \in Seq(Docs) /\ Len(line) = n
      /\ \A i \in 1..n : line[i] = IF i <= Len(past) THEN past[i]
                                  ELSE IF i = Len(past) + 1 THEN schema
                                  ELSE future[i - Len(past) - 1]
  BY <1>1, LineProperties
<1> HIDE DEF behind, top, rest
<1>7. /\ next \in Seq(Docs) /\ Len(next) = Len(behind) + 1 + Len(rest)
      /\ \A i \in 1..(Len(behind) + 1 + Len(rest)) :
            next[i] = IF i <= Len(behind) THEN behind[i]
                      ELSE IF i = Len(behind) + 1 THEN top
                      ELSE rest[i - Len(behind) - 1]
  BY <1>3, <1>4, <1>5, LineProperties
<1> HIDE DEF line, next
<1>8. next = line
  <2>1. Len(next) = n
    BY <1>1, <1>3, <1>5, <1>7
  <2>2. ASSUME NEW i \in 1..n PROVE next[i] = line[i]
    <3>1. next[i] = IF i <= Len(past) + 1 THEN behind[i]
                    ELSE IF i = Len(past) + 2 THEN top
                    ELSE rest[i - Len(past) - 2]
      <4>1. i \in 1..(Len(behind) + 1 + Len(rest))
        BY <1>1, <1>3, <1>5
      <4>2. i - Len(behind) - 1 = i - Len(past) - 2 /\ Len(behind) + 1 = Len(past) + 2
        BY <1>1, <1>3
      <4> QED BY <1>3, <1>7, <4>1, <4>2
    <3>2. CASE i <= Len(past) + 1
      <4>1. i \in 1..(Len(past) + 1) /\ (~(i <= Len(past)) => i = Len(past) + 1)
        BY <1>1, <3>2
      <4> QED BY <1>3, <1>6, <3>1, <3>2, <4>1
    <3>3. CASE i = Len(past) + 2
      <4>1. /\ ~(i <= Len(past) + 1) /\ ~(i <= Len(past)) /\ i # Len(past) + 1
            /\ i - Len(past) - 1 = 1
        BY <1>1, <3>3
      <4> QED BY <1>6, <3>1, <3>3, <4>1 DEF top
    <3>4. CASE i > Len(past) + 2
      <4>1. /\ ~(i <= Len(past) + 1) /\ i # Len(past) + 2
            /\ ~(i <= Len(past)) /\ i # Len(past) + 1
            /\ i - Len(past) - 2 \in 1..(Len(future) - 1)
            /\ (i - Len(past) - 2) + 1 = i - Len(past) - 1
        BY <1>1, <3>4
      <4>2. next[i] = rest[i - Len(past) - 2]
        BY <3>1, <4>1
      <4>3. rest[i - Len(past) - 2] = future[(i - Len(past) - 2) + 1]
        BY <1>5, <4>1
      <4>4. line[i] = future[i - Len(past) - 1]
        BY <1>6, <4>1
      <4> QED BY <4>1, <4>2, <4>3, <4>4
    <3> QED BY <1>1, <3>2, <3>3, <3>4
  <2> QED BY <1>6, <1>7, <2>1, <2>2, SeqEqual
<1>9. /\ Len(behind) + 1 = (Len(past) + 1) + 1
      /\ Len(past) + 1 < Len(line)
  BY <1>1, <1>3, <1>6
<1> QED BY <1>2, <1>8, <1>9 DEF Line!Forward, LineOf, line, next

\* Every step of the editor is a step of the timeline, or leaves it alone.
LEMMA StepMovesLine ==
    HistoryInv /\ [Next]_vars => [Line!TimelineNext]_(Line!timelineVars)
<1> SUFFICES ASSUME HistoryInv, [Next]_vars
             PROVE  [Line!TimelineNext]_(Line!timelineVars)
  OBVIOUS
<1> USE DEF HistoryInv
<1>a. ASSUME schema' \in Docs, Line!Commit(schema') \/ Line!Amend(schema') \/ Line!Restart(schema')
      PROVE  Line!TimelineNext
  BY <1>a DEF Line!TimelineNext
<1>1. ASSUME NEW d \in Docs, SetSchema(d) PROVE Line!TimelineNext
  BY <1>1, <1>a, ClearRestarts DEF SetSchema
<1>2. ASSUME NEW d \in Docs, NEW undoable \in BOOLEAN, ReplaceSchema(d, undoable)
      PROVE  Line!TimelineNext
  <2>1. schema' \in Docs
    BY <1>2 DEF ReplaceSchema, MarkEdited
  <2>2. CASE undoable
    BY <1>2, <1>a, <2>1, <2>2, PushCommits DEF ReplaceSchema, PushSnapshot
  <2>3. CASE ~undoable
    BY <1>2, <1>a, <2>1, <2>3, ClearRestarts DEF ReplaceSchema
  <2> QED BY <2>2, <2>3
<1>3. ASSUME NEW d \in Docs, StructuralEdit(d) PROVE Line!TimelineNext
  BY <1>3, <1>a, PushCommits DEF StructuralEdit, PushSnapshot, MarkEdited
<1>4. ASSUME NEW d \in Docs, NEW k \in Keys, PropertyEdit(k, d) PROVE Line!TimelineNext
  <2>1. schema' \in Docs
    BY <1>4 DEF PropertyEdit, MarkEdited
  <2>2. CASE UNCHANGED <<past, future, burst>>
    BY <1>a, <2>1, <2>2, StillStacksAmend
  <2>3. CASE Push
    BY <1>a, <2>1, <2>3, PushCommits
  <2> QED BY <1>4, <2>2, <2>3 DEF PropertyEdit, PushCoalescedSnapshot
<1>5. ASSUME NEW d \in Docs, DerivedWrite(d) PROVE Line!TimelineNext
  BY <1>5, <1>a, StillStacksAmend DEF DerivedWrite, MarkEdited
<1>6. ASSUME NEW d \in Docs, Adopt(d) PROVE Line!TimelineNext
  BY <1>6, <1>a, StillStacksAmend DEF Adopt, ReplaceSchemaForHistory, MarkEdited
<1>7. CASE Undo
  BY <1>7, UndoMovesBack DEF Line!TimelineNext
<1>8. CASE Redo
  BY <1>8, RedoMovesForward DEF Line!TimelineNext
<1>9. CASE Pause
  BY <1>9 DEF Pause, Line!timelineVars
<1>10. CASE UNCHANGED vars
  BY <1>10 DEF vars, Line!timelineVars
<1> QED
  BY <1>1, <1>2, <1>3, <1>4, <1>5, <1>6, <1>7, <1>8, <1>9, <1>10 DEF Next

\* Coalescing, derived writes, the cap and the two stacks give the user
\* exactly one line of documents to move along, for every depth.
THEOREM HistoryImplementsTimeline == Spec => ImplementsTimeline
<1>1. Init => Line!TimelineInit
  <2> SUFFICES ASSUME Init PROVE Line!TimelineInit
    OBVIOUS
  <2>1. past = <<>> /\ future = <<>> /\ schema \in Docs
    BY DEF Init
  <2>2. <<>> \o <<schema>> \o <<>> = <<schema>> /\ Len(<<>>) + 1 = 1
    BY ConcatEmptySeq
  <2> QED BY <2>1, <2>2 DEF Line!TimelineInit
<1>2. HistoryInv /\ [Next]_vars => [Line!TimelineNext]_(Line!timelineVars)
  BY StepMovesLine
<1> QED BY <1>1, <1>2, HistoryInvariant, PTL DEF Spec, ImplementsTimeline, Line!TimelineSpec
=============================================================================
