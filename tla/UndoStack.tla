----------------------------- MODULE UndoStack -----------------------------
(***************************************************************************)
(* core::UndoStack<Snap> as the Recorder, the Analyser and the Converter   *)
(* drive it.  An edit changes the live document and arms a 0 ms            *)
(* single-shot commit timer; the timer records the live state.  Undo and   *)
(* Redo move the cursor and have the tool restore the snapshot there.      *)
(*                                                                         *)
(* Everything runs on the GUI thread, but not atomically: input that is     *)
(* already queued is served before the timer, and a restore that shows a    *)
(* message box runs a nested event loop in which the timer can expire.     *)
(***************************************************************************)
EXTENDS Integers, Sequences

CONSTANTS Docs,       \* the states a document can be in
          MaxDepth    \* the maxDepth argument of the constructor

ASSUME DepthAssumption == MaxDepth \in Int

\* maxDepth_(maxDepth < 2 ? 2 : maxDepth)
maxDepth == IF MaxDepth < 2 THEN 2 ELSE MaxDepth

VARIABLES
  live,       \* the document on screen
  snaps,      \* snaps_
  cursor,     \* cursor_ (counted from 0)
  applying,   \* applying_
  timer,      \* the commit timer is armed
  edited      \* history: live was edited since it was recorded or restored

vars == <<live, snaps, cursor, applying, timer, edited>>

\* The cursor is on an entry, so snaps_[cursor_] is never out of range, and the
\* history is bounded.
TypeOK ==
  /\ live \in Docs
  /\ snaps \in Seq(Docs) /\ Len(snaps) <= maxDepth
  /\ cursor \in 0..(Len(snaps) - 1)
  /\ applying \in BOOLEAN /\ timer \in BOOLEAN /\ edited \in BOOLEAN

\* The constructor of the tool: reset() seeds the baseline.
Init ==
  /\ live \in Docs
  /\ snaps = <<live>>
  /\ cursor = 0
  /\ applying = FALSE /\ timer = FALSE /\ edited = FALSE

-----------------------------------------------------------------------------
\* Every edit ends in scheduleCommit(): the timer is (re)started.
MutantEdit(d) ==
  /\ ~applying
  /\ live' = d
  /\ edited' = TRUE
  /\ UNCHANGED <<snaps, cursor, applying, timer>>
Edit(d) ==
  /\ ~applying
  /\ live' = d
  /\ edited' = TRUE
  /\ timer' = TRUE
  /\ UNCHANGED <<snaps, cursor, applying>>

\* snaps_ after a commit: the redo tail goes, the live state is appended and
\* the oldest entry is forgotten when there are too many.
Kept == SubSeq(snaps, 1, cursor + 1)
MutantRecordedTail ==
  IF Len(snaps) + 1 > maxDepth THEN Append(Tail(snaps), live)
                               ELSE Append(snaps, live)
MutantRecordedNewest == IF cursor + 2 > maxDepth THEN Kept ELSE Append(Kept, live)
Recorded == IF cursor + 2 > maxDepth THEN Append(Tail(Kept), live)
                                     ELSE Append(Kept, live)

\* cursor_ = snaps_.size() - 1
NewCursor == Len(Recorded) - 1

\* commit(): nothing while a restore is in progress.
Commit ==
  \/ /\ applying
     /\ UNCHANGED <<snaps, cursor, edited>>
  \/ /\ ~applying
     /\ snaps' = Recorded
     /\ cursor' = NewCursor
     /\ edited' = FALSE

TimerFires ==
  /\ timer
  /\ timer' = FALSE
  /\ Commit
  /\ UNCHANGED <<live, applying>>

canUndo == cursor > 0
canRedo == cursor >= 0 /\ cursor < Len(snaps) - 1

\* undo() and redo() up to the call of apply_.
Undo ==
  /\ ~applying /\ canUndo
  /\ cursor' = cursor - 1
  /\ applying' = TRUE
  /\ UNCHANGED <<live, snaps, timer, edited>>

Redo ==
  /\ ~applying /\ canRedo
  /\ cursor' = cursor + 1
  /\ applying' = TRUE
  /\ UNCHANGED <<live, snaps, timer, edited>>

\* The rest of applyCurrent(): the snapshot is on screen again.  The edits the
\* restore causes schedule nothing, as applying() holds.
Target == snaps[cursor + 1]
Restored ==
  /\ applying
  /\ live' = Target
  /\ applying' = FALSE
  /\ edited' = FALSE
  /\ UNCHANGED <<snaps, cursor, timer>>

Next == TimerFires \/ Undo \/ Redo \/ Restored \/ \E d \in Docs : Edit(d)

Spec == Init /\ [][Next]_vars

(* The event loop delivers an expired timer, and a restore returns.         *)
FairSpec == Spec /\ WF_vars(TimerFires) /\ WF_vars(Restored)

-----------------------------------------------------------------------------
(* Properties.                                                             *)

\* Once no commit is due and no restore is under way, the document on screen
\* is the entry under the cursor: what Undo and Redo step from.
SettledIsRecorded == ~timer /\ ~applying => live = Target

\* Why: only an edit makes the two differ, and an edit that is not recorded
\* has a commit due or is about to be overwritten by a restore.
OnlyEditsDiffer == ~applying /\ ~edited => live = Target
EditIsDue == edited => timer \/ applying
SettledInv == OnlyEditsDiffer /\ EditIsDue

\* The stack implements the past/present/future history.
Past   == SubSeq(snaps, 1, cursor)
Future == SubSeq(snaps, cursor + 2, Len(snaps))
H == INSTANCE History WITH Depth <- maxDepth, past <- Past, present <- Target,
                           future <- Future
ImplementsHistory == H!Spec

\* An edit is not forgotten: it is recorded, or the user undoes or redoes over
\* it.
EditSettles == edited ~> ~edited
=============================================================================
