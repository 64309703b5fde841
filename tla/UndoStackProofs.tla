-------------------------- MODULE UndoStackProofs --------------------------
(***************************************************************************)
(* Proofs about UndoStack, for every set of documents and every depth:     *)
(* the cursor never leaves the history, the document on screen is the one  *)
(* under the cursor once commits and restores have settled, and the stack   *)
(* implements the past/present/future history of module History.           *)
(***************************************************************************)
EXTENDS UndoStack, SequenceTheorems, TLAPS

LEMMA DepthAtLeastTwo == maxDepth \in Int /\ maxDepth >= 2
  BY DepthAssumption DEF maxDepth

\* What the sequences of a commit look like, element by element.
LEMMA KeptShape ==
  ASSUME TypeOK
  PROVE  /\ Kept \in Seq(Docs) /\ Len(Kept) = cursor + 1 /\ Kept # <<>>
         /\ \A i \in 1..(cursor + 1) : Kept[i] = snaps[i]
<1>1. \A i \in 1..(cursor + 1) : snaps[i] \in Docs
  BY ElementOfSeq DEF TypeOK
<1>2. /\ Kept \in Seq(Docs) /\ Len(Kept) = cursor + 1
      /\ \A i \in 1..(cursor + 1) : Kept[i] = snaps[i]
  BY <1>1, SubSeqProperties DEF Kept, TypeOK
<1> QED BY <1>2 DEF TypeOK

LEMMA RecordedShape ==
  ASSUME TypeOK
  PROVE  /\ Recorded \in Seq(Docs) /\ Len(Recorded) \in 1..maxDepth
         /\ Recorded[Len(Recorded)] = live
<1>1. /\ Append(Kept, live) \in Seq(Docs)
      /\ Len(Append(Kept, live)) = cursor + 2
      /\ Append(Kept, live)[cursor + 2] = live
  BY KeptShape, AppendProperties DEF TypeOK
<1>2. Tail(Kept) \in Seq(Docs) /\ Len(Tail(Kept)) = cursor
  BY KeptShape, HeadTailProperties DEF TypeOK
<1>3. /\ Append(Tail(Kept), live) \in Seq(Docs)
      /\ Len(Append(Tail(Kept), live)) = cursor + 1
      /\ Append(Tail(Kept), live)[cursor + 1] = live
  BY <1>2, AppendProperties DEF TypeOK
<1> QED BY <1>1, <1>3, DepthAtLeastTwo DEF Recorded, TypeOK

-----------------------------------------------------------------------------
LEMMA TypeStep == TypeOK /\ [Next]_vars => TypeOK'
<1> SUFFICES ASSUME TypeOK, [Next]_vars PROVE TypeOK'
  OBVIOUS
<1>1. ASSUME NEW d \in Docs, Edit(d) PROVE TypeOK'
  <2>1. timer' \in BOOLEAN /\ edited' \in BOOLEAN
    BY <1>1, Zenon DEF Edit
  <2> QED BY <1>1, <2>1 DEF Edit, TypeOK
<1>2. CASE TimerFires
  <2>1. timer' \in BOOLEAN /\ edited' \in BOOLEAN
    BY <1>2, Zenon DEF TimerFires, Commit, TypeOK
  <2>2. CASE applying
    BY <1>2, <2>1, <2>2 DEF TimerFires, Commit, TypeOK
  <2>3. CASE ~applying
    <3>1. snaps' = Recorded /\ cursor' = Len(Recorded) - 1
      BY <1>2, <2>3 DEF TimerFires, Commit, NewCursor
    <3>2. snaps' \in Seq(Docs) /\ Len(snaps') <= maxDepth /\ cursor' \in 0..(Len(snaps') - 1)
      BY <3>1, RecordedShape, DepthAtLeastTwo
    <3> QED BY <1>2, <2>1, <3>2 DEF TimerFires, TypeOK
  <2> QED BY <2>2, <2>3
<1>3. CASE Undo
  <2>1. applying' \in BOOLEAN
    BY <1>3, Zenon DEF Undo
  <2> QED BY <1>3, <2>1 DEF Undo, canUndo, TypeOK
<1>4. CASE Redo
  <2>1. applying' \in BOOLEAN
    BY <1>4, Zenon DEF Redo
  <2> QED BY <1>4, <2>1 DEF Redo, canRedo, TypeOK
<1>5. CASE Restored
  <2>1. applying' \in BOOLEAN /\ edited' \in BOOLEAN
    BY <1>5, Zenon DEF Restored
  <2>2. Target \in Docs
    BY ElementOfSeq DEF Target, TypeOK
  <2> QED BY <1>5, <2>1, <2>2 DEF Restored, TypeOK
<1>6. CASE UNCHANGED vars
  BY <1>6 DEF vars, TypeOK
<1> QED BY <1>1, <1>2, <1>3, <1>4, <1>5, <1>6 DEF Next

LEMMA TypeInit == Init => TypeOK
<1> SUFFICES ASSUME Init PROVE TypeOK
  OBVIOUS
<1>1. snaps \in Seq(Docs) /\ Len(snaps) = 1
  BY DEF Init
<1>2. applying \in BOOLEAN /\ timer \in BOOLEAN /\ edited \in BOOLEAN
  BY Zenon DEF Init
<1> QED BY <1>1, <1>2, DepthAtLeastTwo DEF Init, TypeOK

\* The cursor of UndoStack is always on an entry and the history never grows
\* past its depth.
THEOREM TypeCorrect == Spec => []TypeOK
BY TypeInit, TypeStep, PTL DEF Spec

-----------------------------------------------------------------------------
LEMMA SettledStep == TypeOK /\ SettledInv /\ [Next]_vars => SettledInv'
<1> SUFFICES ASSUME TypeOK, SettledInv, [Next]_vars PROVE SettledInv'
  OBVIOUS
<1> USE DEF SettledInv, OnlyEditsDiffer, EditIsDue
<1>1. ASSUME NEW d \in Docs, Edit(d) PROVE SettledInv'
  BY <1>1 DEF Edit
<1>2. CASE TimerFires
  <2>2. CASE applying
    BY <1>2, <2>2 DEF TimerFires, Commit
  <2>3. CASE ~applying
    <3>1. snaps' = Recorded /\ cursor' = Len(Recorded) - 1 /\ live' = live
      BY <1>2, <2>3 DEF TimerFires, Commit, NewCursor
    <3>2. Target' = live'
      BY <3>1, RecordedShape, DepthAtLeastTwo DEF Target
    <3> QED BY <1>2, <2>3, <3>2 DEF TimerFires, Commit
  <2> QED BY <2>2, <2>3
<1>3. CASE Undo
  BY <1>3 DEF Undo
<1>4. CASE Redo
  BY <1>4 DEF Redo
<1>5. CASE Restored
  BY <1>5 DEF Restored, Target
<1>6. CASE UNCHANGED vars
  BY <1>6 DEF vars, Target
<1> QED BY <1>1, <1>2, <1>3, <1>4, <1>5, <1>6 DEF Next

LEMMA SettledInit == Init => SettledInv
  BY DEF Init, SettledInv, OnlyEditsDiffer, EditIsDue, Target

\* When no commit is due and no restore is running, the document on screen is
\* the entry the cursor is on, whatever order timers, edits and undos came in.
THEOREM Settled == Spec => []SettledIsRecorded
<1>1. Spec => []SettledInv
  BY TypeCorrect, SettledInit, SettledStep, PTL DEF Spec
<1>2. SettledInv => SettledIsRecorded
  BY DEF SettledInv, SettledIsRecorded, OnlyEditsDiffer, EditIsDue
<1> QED BY <1>1, <1>2, PTL

-----------------------------------------------------------------------------
(* The refinement.  Past and Future are described element by element, and   *)
(* the sequences of each step are compared with SeqEqual.                   *)

LEMMA PrefixShape ==
  ASSUME NEW s \in Seq(Docs), NEW c \in 0..(Len(s) - 1)
  PROVE  /\ SubSeq(s, 1, c) \in Seq(Docs) /\ Len(SubSeq(s, 1, c)) = c
         /\ \A i \in 1..c : SubSeq(s, 1, c)[i] = s[i]
<1>1. \A i \in 1..c : s[i] \in Docs
  BY ElementOfSeq
<1> QED BY <1>1, SubSeqProperties

LEMMA SuffixShape ==
  ASSUME NEW s \in Seq(Docs), NEW c \in 0..(Len(s) - 1)
  PROVE  /\ SubSeq(s, c + 2, Len(s)) \in Seq(Docs)
         /\ Len(SubSeq(s, c + 2, Len(s))) = Len(s) - c - 1
         /\ \A i \in 1..(Len(s) - c - 1) : SubSeq(s, c + 2, Len(s))[i] = s[c + 1 + i]
<1>1. \A i \in (c + 2)..Len(s) : s[i] \in Docs
  BY ElementOfSeq
<1>2. /\ SubSeq(s, c + 2, Len(s)) \in Seq(Docs)
      /\ Len(SubSeq(s, c + 2, Len(s))) =
           IF c + 2 <= Len(s) THEN Len(s) - (c + 2) + 1 ELSE 0
      /\ \A i \in 1..(Len(s) - (c + 2) + 1) :
           SubSeq(s, c + 2, Len(s))[i] = s[(c + 2) + i - 1]
  BY <1>1, SubSeqProperties
<1> QED BY <1>2

LEMMA PastShape ==
  ASSUME TypeOK
  PROVE  /\ Past \in Seq(Docs) /\ Len(Past) = cursor
         /\ \A i \in 1..cursor : Past[i] = snaps[i]
  BY PrefixShape DEF Past, TypeOK

LEMMA PastShapeNext ==
  ASSUME TypeOK'
  PROVE  /\ Past' \in Seq(Docs) /\ Len(Past') = cursor'
         /\ \A i \in 1..cursor' : Past'[i] = snaps'[i]
  BY PrefixShape DEF Past, TypeOK

LEMMA FutureShape ==
  ASSUME TypeOK
  PROVE  /\ Future \in Seq(Docs) /\ Len(Future) = Len(snaps) - cursor - 1
         /\ \A i \in 1..(Len(snaps) - cursor - 1) : Future[i] = snaps[cursor + 1 + i]
  BY SuffixShape DEF Future, TypeOK

LEMMA FutureShapeNext ==
  ASSUME TypeOK'
  PROVE  /\ Future' \in Seq(Docs) /\ Len(Future') = Len(snaps') - cursor' - 1
         /\ \A i \in 1..(Len(snaps') - cursor' - 1) : Future'[i] = snaps'[cursor' + 1 + i]
  BY SuffixShape DEF Future, TypeOK

LEMMA TargetIsDoc == TypeOK => Target \in Docs
  BY ElementOfSeq DEF Target, TypeOK

\* A commit outside a restore records the live document.
LEMMA CommitRecords ==
  ASSUME TypeOK, TypeOK', TimerFires, ~applying
  PROVE  H!Record(live)
<1>1. snaps' = Recorded /\ cursor' = Len(Recorded) - 1
  BY DEF TimerFires, Commit, NewCursor
<1>2. Target' = live
  BY <1>1, RecordedShape, DepthAtLeastTwo DEF Target
<1>3. Future' = <<>>
  <2>1. Len(Future') = 0 /\ Future' \in Seq(Docs)
    BY <1>1, FutureShapeNext, RecordedShape
  <2> QED BY <2>1, EmptySeq
<1>4. CASE cursor + 2 > maxDepth
  <2>1. Recorded = Append(Tail(Kept), live)
    BY <1>4 DEF Recorded
  <2>2. /\ Tail(Kept) \in Seq(Docs) /\ Len(Tail(Kept)) = cursor
        /\ \A i \in 1..cursor : Tail(Kept)[i] = snaps[i + 1]
    BY KeptShape, HeadTailProperties DEF TypeOK
  <2>3. Past # <<>>
    BY <1>4, PastShape, DepthAtLeastTwo
  <2>4. /\ Tail(Past) \in Seq(Docs) /\ Len(Tail(Past)) = cursor - 1
        /\ \A i \in 1..(cursor - 1) : Tail(Past)[i] = snaps[i + 1]
    BY <2>3, PastShape, HeadTailProperties DEF TypeOK
  <2>5. /\ Append(Tail(Past), Target) \in Seq(Docs)
        /\ Len(Append(Tail(Past), Target)) = cursor
        /\ \A i \in 1..cursor : Append(Tail(Past), Target)[i] = snaps[i + 1]
    BY <2>4, TargetIsDoc, AppendProperties DEF Target, TypeOK
  <2>6. /\ Len(snaps') = cursor + 1 /\ cursor' = cursor
        /\ \A i \in 1..cursor : snaps'[i] = snaps[i + 1]
    BY <1>1, <2>1, <2>2, AppendProperties DEF TypeOK
  <2>7. /\ Past' \in Seq(Docs) /\ Len(Past') = cursor
        /\ \A i \in 1..cursor : Past'[i] = snaps[i + 1]
    BY <2>6, PastShapeNext
  <2>8. Past' = Append(Tail(Past), Target)
    BY <2>5, <2>7, SeqEqual
  <2> QED BY <1>2, <1>3, <1>4, <2>8, PastShape DEF H!Record
<1>5. CASE ~(cursor + 2 > maxDepth)
  <2>1. Recorded = Append(Kept, live)
    BY <1>5 DEF Recorded
  <2>2. /\ Append(Past, Target) \in Seq(Docs)
        /\ Len(Append(Past, Target)) = cursor + 1
        /\ \A i \in 1..(cursor + 1) : Append(Past, Target)[i] = snaps[i]
    BY PastShape, TargetIsDoc, AppendProperties DEF Target, TypeOK
  <2>3. /\ Len(snaps') = cursor + 2 /\ cursor' = cursor + 1
        /\ \A i \in 1..(cursor + 1) : snaps'[i] = snaps[i]
    BY <1>1, <2>1, KeptShape, AppendProperties DEF TypeOK
  <2>4. /\ Past' \in Seq(Docs) /\ Len(Past') = cursor + 1
        /\ \A i \in 1..(cursor + 1) : Past'[i] = snaps[i]
    BY <2>3, PastShapeNext
  <2>5. Past' = Append(Past, Target)
    BY <2>2, <2>4, SeqEqual
  <2> QED BY <1>2, <1>3, <1>5, <2>5, PastShape DEF H!Record
<1> QED BY <1>4, <1>5

LEMMA UndoMovesBack ==
  ASSUME TypeOK, TypeOK', Undo
  PROVE  H!Undo
<1>1. snaps' = snaps /\ cursor' = cursor - 1 /\ cursor > 0 /\ cursor \in Int
  BY DEF Undo, canUndo, TypeOK
<1>2. Past # <<>> /\ Target' = Past[Len(Past)]
  BY <1>1, PastShape, EmptySeq DEF Target
<1>3. Past' = SubSeq(Past, 1, Len(Past) - 1)
  <2>1. /\ SubSeq(Past, 1, cursor - 1) \in Seq(Docs)
        /\ Len(SubSeq(Past, 1, cursor - 1)) = cursor - 1
        /\ \A i \in 1..(cursor - 1) : SubSeq(Past, 1, cursor - 1)[i] = Past[i]
    BY <1>1, PastShape, PrefixShape
  <2>2. \A i \in 1..(cursor - 1) : SubSeq(Past, 1, cursor - 1)[i] = snaps[i]
    BY <1>1, <2>1, PastShape
  <2>3. /\ Past' \in Seq(Docs) /\ Len(Past') = cursor - 1
        /\ \A i \in 1..(cursor - 1) : Past'[i] = snaps[i]
    BY <1>1, PastShapeNext
  <2>4. Past' = SubSeq(Past, 1, cursor - 1)
    BY <2>1, <2>2, <2>3, SeqEqual
  <2> QED BY <2>4, PastShape
<1>4. Future' = <<Target>> \o Future
  <2>1. <<Target>> \in Seq(Docs) /\ Len(<<Target>>) = 1 /\ <<Target>>[1] = Target
    BY TargetIsDoc
  <2>2. /\ <<Target>> \o Future \in Seq(Docs)
        /\ Len(<<Target>> \o Future) = 1 + Len(Future)
        /\ \A i \in 1..(1 + Len(Future)) :
             (<<Target>> \o Future)[i] = IF i <= 1 THEN <<Target>>[i] ELSE Future[i - 1]
    BY <2>1, FutureShape, ConcatProperties
  <2>3. Len(Future) = Len(snaps) - cursor - 1 /\ Len(snaps) \in Nat
    BY FutureShape, LenProperties DEF TypeOK
  <2>4. \A i \in 1..(Len(snaps) - cursor) :
          (<<Target>> \o Future)[i] = snaps[cursor + i]
    BY <1>1, <2>1, <2>2, <2>3, FutureShape DEF Target
  <2>5. /\ Future' \in Seq(Docs) /\ Len(Future') = Len(snaps) - (cursor - 1) - 1
        /\ \A i \in 1..(Len(snaps) - (cursor - 1) - 1) :
             Future'[i] = snaps[(cursor - 1) + 1 + i]
    <3>1. /\ Future' \in Seq(Docs) /\ Len(Future') = Len(snaps') - cursor' - 1
          /\ \A i \in 1..(Len(snaps') - cursor' - 1) : Future'[i] = snaps'[cursor' + 1 + i]
      BY FutureShapeNext
    <3> QED BY <1>1, <3>1, Zenon
  <2>6. /\ Len(snaps) - (cursor - 1) - 1 = Len(snaps) - cursor
        /\ \A i \in Int : (cursor - 1) + 1 + i = cursor + i
    BY <1>1, <2>3
  <2>7. Len(Future') = Len(snaps) - cursor
    BY <2>5, <2>6
  <2>8. \A i \in 1..(Len(snaps) - cursor) : Future'[i] = snaps[cursor + i]
    BY <2>5, <2>6
  <2>9. Len(<<Target>> \o Future) = Len(snaps) - cursor
    BY <1>1, <2>2, <2>3
  <2>10. \A i \in 1..Len(Future') : Future'[i] = (<<Target>> \o Future)[i]
    BY <2>4, <2>7, <2>8
  <2> QED BY <2>2, <2>5, <2>7, <2>9, <2>10, SeqEqual
<1> QED BY <1>2, <1>3, <1>4 DEF H!Undo

LEMMA RedoMovesOn ==
  ASSUME TypeOK, TypeOK', Redo
  PROVE  H!Redo
<1>1. /\ snaps' = snaps /\ cursor' = cursor + 1 /\ cursor < Len(snaps) - 1
      /\ cursor \in Nat /\ Len(snaps) \in Nat
  BY LenProperties DEF Redo, canRedo, TypeOK
<1>2. /\ Future # <<>> /\ Target' = Future[1]
  BY <1>1, FutureShape, EmptySeq DEF Target
<1>3. Future' = Tail(Future)
  <2>1. /\ Tail(Future) \in Seq(Docs) /\ Len(Tail(Future)) = Len(snaps) - cursor - 2
        /\ \A i \in 1..(Len(snaps) - cursor - 2) : Tail(Future)[i] = Future[i + 1]
    BY <1>1, <1>2, FutureShape, HeadTailProperties
  <2>2. \A i \in 1..(Len(snaps) - cursor - 2) : Tail(Future)[i] = snaps[cursor + 2 + i]
    BY <1>1, <2>1, FutureShape
  <2>4. /\ Future' \in Seq(Docs) /\ Len(Future') = Len(snaps) - (cursor + 1) - 1
        /\ \A i \in 1..(Len(snaps) - (cursor + 1) - 1) :
             Future'[i] = snaps[(cursor + 1) + 1 + i]
    <3>1. /\ Future' \in Seq(Docs) /\ Len(Future') = Len(snaps') - cursor' - 1
          /\ \A i \in 1..(Len(snaps') - cursor' - 1) : Future'[i] = snaps'[cursor' + 1 + i]
      BY FutureShapeNext
    <3> QED BY <1>1, <3>1, Zenon
  <2>5. /\ Len(snaps) - (cursor + 1) - 1 = Len(snaps) - cursor - 2
        /\ \A i \in Int : (cursor + 1) + 1 + i = cursor + 2 + i
    BY <1>1
  <2>3. /\ Future' \in Seq(Docs) /\ Len(Future') = Len(snaps) - cursor - 2
        /\ \A i \in 1..(Len(snaps) - cursor - 2) : Future'[i] = snaps[cursor + 2 + i]
    BY <2>4, <2>5
  <2> QED BY <2>1, <2>2, <2>3, SeqEqual
<1>4. Past' = Append(Past, Target)
  <2>1. /\ Append(Past, Target) \in Seq(Docs)
        /\ Len(Append(Past, Target)) = cursor + 1
        /\ \A i \in 1..(cursor + 1) : Append(Past, Target)[i] = snaps[i]
    BY <1>1, PastShape, TargetIsDoc, AppendProperties DEF Target
  <2>2. /\ Past' \in Seq(Docs) /\ Len(Past') = cursor + 1
        /\ \A i \in 1..(cursor + 1) : Past'[i] = snaps[i]
    BY <1>1, PastShapeNext
  <2> QED BY <2>1, <2>2, SeqEqual
<1>5. Head(Future) = Future[1]
  BY <1>2, FutureShape
<1> QED BY <1>2, <1>3, <1>4, <1>5 DEF H!Redo

LEMMA RefinementInit == Init => H!Init
<1> SUFFICES ASSUME Init PROVE H!Init
  OBVIOUS
<1>1. TypeOK
  BY TypeInit
<1>2. Past \in Seq(Docs) /\ Len(Past) = 0
  BY <1>1, PastShape DEF Init
<1>3. Future \in Seq(Docs) /\ Len(Future) = 0
  <2>1. Len(snaps) = 1 /\ cursor = 0
    BY DEF Init
  <2> QED BY <1>1, <2>1, FutureShape
<1> QED BY <1>1, <1>2, <1>3, EmptySeq, TargetIsDoc DEF H!Init

LEMMA RefinementStep ==
  TypeOK /\ TypeOK' /\ [Next]_vars => [H!Next]_(H!vars)
<1> SUFFICES ASSUME TypeOK, TypeOK', [Next]_vars PROVE [H!Next]_(H!vars)
  OBVIOUS
<1>1. ASSUME snaps' = snaps, cursor' = cursor PROVE UNCHANGED H!vars
  BY <1>1 DEF H!vars, Past, Target, Future
<1>2. ASSUME NEW d \in Docs, Edit(d) PROVE UNCHANGED H!vars
  BY <1>1, <1>2 DEF Edit
<1>3. CASE TimerFires
  <2>1. CASE applying
    BY <1>1, <1>3, <2>1 DEF TimerFires, Commit
  <2>2. CASE ~applying
    BY <1>3, <2>2, CommitRecords DEF H!Next, TypeOK
  <2> QED BY <2>1, <2>2
<1>4. CASE Undo
  BY <1>4, UndoMovesBack DEF H!Next
<1>5. CASE Redo
  BY <1>5, RedoMovesOn DEF H!Next
<1>6. CASE Restored
  BY <1>1, <1>6 DEF Restored
<1>7. CASE UNCHANGED vars
  BY <1>1, <1>7 DEF vars
<1> QED BY <1>2, <1>3, <1>4, <1>5, <1>6, <1>7 DEF Next

\* UndoStack<Snap> with its commit timer implements the history a user expects:
\* a past, a present and a future that only Undo, Redo and a commit move.
THEOREM StackIsAHistory == Spec => ImplementsHistory
BY TypeCorrect, RefinementInit, RefinementStep, PTL DEF Spec, ImplementsHistory, H!Spec
=============================================================================
