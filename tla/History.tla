------------------------------ MODULE History ------------------------------
(***************************************************************************)
(* What an undo history promises its user: the states before the present   *)
(* one, oldest first, and the states that were undone, next one first.      *)
(* Undo and Redo move the present along that line; recording a new state   *)
(* makes it the present and abandons what was undone.  At most Depth       *)
(* states are remembered, and it is the oldest that are forgotten.          *)
(***************************************************************************)
EXTENDS Naturals, Sequences

CONSTANTS Docs,    \* the states a document can be in
          Depth    \* how many states are remembered

VARIABLES past, present, future

vars == <<past, present, future>>

Init == past = <<>> /\ present \in Docs /\ future = <<>>

Record(d) ==
  /\ present' = d
  /\ future' = <<>>
  /\ past' = IF Len(past) + 2 > Depth THEN Append(Tail(past), present)
                                      ELSE Append(past, present)

Undo ==
  /\ past # <<>>
  /\ present' = past[Len(past)]
  /\ past' = SubSeq(past, 1, Len(past) - 1)
  /\ future' = <<present>> \o future

Redo ==
  /\ future # <<>>
  /\ present' = Head(future)
  /\ past' = Append(past, present)
  /\ future' = Tail(future)

Next == Undo \/ Redo \/ \E d \in Docs : Record(d)

Spec == Init /\ [][Next]_vars
=============================================================================
