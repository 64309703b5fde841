--------------------------- MODULE FormulaEngine ---------------------------
(***************************************************************************)
(* The Analyser's formula channels: FormulaEngine's registry of formulas,  *)
(* the shared SignalStore its results go to, and the handlers and the 0 ms  *)
(* recompute timer of AnalyserPlot that keep the results up to date.        *)
(*                                                                         *)
(* An expression is the set of channels it refers to, none for a constant.  *)
(* It evaluates when all of them are in the store, to a function of their    *)
(* samples; the samples of a channel are one value of Nat.  recomputeAll()    *)
(* is one step per formula; the GUI thread does nothing else meanwhile.      *)
(***************************************************************************)
EXTENDS Naturals, Sequences, FiniteSets, SequencesExt, Functions

CONSTANTS
  Names,       \* channel names
  Compute(_),  \* samples of the operands |-> samples of the result
  MaxRefs,     \* bound: channels an expression refers to
  MaxEdits     \* bound: user operations

ASSUME BoundsAssumption == MaxRefs \in Nat /\ MaxEdits \in Nat

Exprs == {e \in SUBSET Names : IsFiniteSet(e) /\ Cardinality(e) <= MaxRefs}
NoSnap == [taken |-> FALSE, store |-> <<>>, formulas |-> <<>>]

VARIABLES
  edits,       \* user operations so far; also the samples of the next source
  store,       \* SignalStore: name |-> samples
  formulas,    \* Impl::formulas: name |-> expression
  order,       \* Impl::order
  recomputing, \* Impl::recomputing
  pending,     \* recomputeAll(): formulas left in this pass
  failed,      \* recomputeAll(): stillPending
  progress,    \* recomputeAll(): a formula succeeded in this pass
  due,         \* the recompute timer is armed
  snap,        \* an undo snapshot of the Analyser (store and layout)
  undone       \* history: the last user operation was an undo to snap

loopVars == <<pending, failed, progress>>
vars == <<edits, store, formulas, order, recomputing, loopVars, due, snap, undone>>

\* A registry of formulas and a store are finite maps; samples are opaque.
IsStore(s) == DOMAIN s \in SUBSET Names /\ s = [n \in DOMAIN s |-> s[n]]
IsRegistry(f) ==
  DOMAIN f \in SUBSET Names /\ IsFiniteSet(DOMAIN f) /\ f \in [DOMAIN f -> Exprs]

\* The order lists the registered formulas, and a snapshot has formulas only for
\* channels it has.
TypeOK ==
  /\ edits \in Nat
  /\ IsStore(store) /\ IsRegistry(formulas)
  /\ order \in Seq(Names) /\ ToSet(order) = DOMAIN formulas
  /\ pending \in Seq(Names) /\ failed \in Seq(Names)
  /\ recomputing \in BOOLEAN /\ progress \in BOOLEAN /\ due \in BOOLEAN
  /\ IsStore(snap.store) /\ IsRegistry(snap.formulas)
  /\ DOMAIN snap.formulas \subseteq DOMAIN snap.store
  /\ snap.taken \in BOOLEAN /\ undone \in BOOLEAN

Init ==
  /\ edits = 0
  /\ store = <<>> /\ formulas = <<>> /\ order = <<>>
  /\ recomputing = FALSE /\ pending = <<>> /\ failed = <<>> /\ progress = FALSE
  /\ due = FALSE
  /\ snap = NoSnap /\ undone = FALSE

-----------------------------------------------------------------------------
(* Helpers.                                                                *)

Without(f, S) == Restrict(f, DOMAIN f \ S)
With(f, n, v) == [m \in DOMAIN f \cup {n} |-> IF m = n THEN v ELSE f[m]]

\* QStringList::removeAll: the k-th entry of the result is the k-th kept one.
KeptAt(q, n) == {i \in 1..Len(q) : q[i] # n}
RankIn(K, i) == Cardinality({j \in K : j <= i})
RemoveAll(q, n) ==
  LET K == KeptAt(q, n)
  IN  [k \in 1..Cardinality(K) |-> q[CHOOSE i \in K : RankIn(K, i) = k]]

\* The samples an expression evaluates to, all its channels being there.
Evaluates(e) == e \subseteq DOMAIN store
Value(e) == Compute([m \in e |-> store[m]])

\* Impl::setFormula, and FormulaEngine::forget
SetFormula(n, e) ==
  /\ formulas' = With(formulas, n, e)
  /\ order' = Append(RemoveAll(order, n), n)
Forget(n) ==
  /\ formulas' = Without(formulas, {n})
  /\ order' = RemoveAll(order, n)

\* recomputeAll(): the passes start with a copy of order.
BeginRecompute(q) ==
  /\ recomputing' = TRUE
  /\ pending' = q /\ failed' = <<>> /\ progress' = FALSE

\* scheduleRecompute(), from the channelAdded of an add outside a recompute.
MutantScheduleRecompute == UNCHANGED due
ScheduleRecompute == due' = TRUE

Edit == ~recomputing /\ edits < MaxEdits /\ edits' = edits + 1
UserOp == Edit /\ undone' = FALSE

-----------------------------------------------------------------------------
(* Changes of the store by any tool; AnalyserPlot and the engine listen.    *)

\* SignalStore::add of a source.  On a replace, channelRemoved makes the engine
\* forget the formula of that name; channelAdded arms the recompute timer.
AddSource(n) ==
  /\ UserOp
  /\ store' = With(store, n, edits)
  /\ IF n \in DOMAIN store THEN Forget(n) ELSE UNCHANGED <<formulas, order>>
  /\ ScheduleRecompute
  /\ UNCHANGED <<recomputing, loopVars, snap>>

\* SignalStore::remove, and the engine's channelRemoved handler.
RemoveChannel(n) ==
  /\ UserOp /\ n \in DOMAIN store
  /\ store' = Without(store, {n})
  /\ Forget(n)
  /\ UNCHANGED <<recomputing, loopVars, due, snap>>

-----------------------------------------------------------------------------
(* The Analyser's operations.                                              *)

\* AddChannelDialog::onAccept with a new or the same name: evaluate().
Define(n, e) ==
  /\ UserOp /\ Evaluates(e)
  /\ store' = With(store, n, Value(e))
  /\ SetFormula(n, e)
  /\ ScheduleRecompute
  /\ UNCHANGED <<recomputing, loopVars, snap>>

\* AddChannelDialog::onAccept when the edited channel got another name: the
\* old channel is removed after the new one is evaluated.
Redefine(old, n, e) ==
  /\ UserOp /\ Evaluates(e)
  /\ old # n /\ old \in DOMAIN store /\ old \in DOMAIN formulas
  /\ store' = Without(With(store, n, Value(e)), {old})
  /\ formulas' = Without(With(formulas, n, e), {old})
  /\ order' = RemoveAll(Append(RemoveAll(order, n), n), old)
  /\ ScheduleRecompute
  /\ UNCHANGED <<recomputing, loopVars, snap>>

\* engine_.renameChannel: references are rewritten, and a formula keeps its
\* place in the order.
Rewritten(e, from, to) == IF from \in e THEN (e \ {from}) \cup {to} ELSE e
RenamedFormulas(from, to) ==
  LET f == [m \in DOMAIN formulas |-> Rewritten(formulas[m], from, to)]
  IN  IF from \in DOMAIN f THEN With(Without(f, {from}), to, f[from]) ELSE f
RenamedOrder(from, to) ==
  IF from \in DOMAIN formulas THEN ReplaceAll(order, from, to) ELSE order

\* AnalyserPlot::renameChannel, up to its recomputeAll().
Rename(from, to) ==
  /\ UserOp
  /\ from # to /\ from \in DOMAIN store /\ to \notin DOMAIN store
  /\ formulas' = RenamedFormulas(from, to)
  /\ order' = RenamedOrder(from, to)
  /\ store' = With(Without(store, {from}), to, store[from])
  /\ BeginRecompute(RenamedOrder(from, to))
  /\ UNCHANGED <<due, snap>>

\* applyLayout() of a layout file with one formula channel, Import formula or
\* a channel without data: rememberFormula(), then recomputeAll().
LoadFormula(n, e) ==
  /\ UserOp
  /\ SetFormula(n, e)
  /\ BeginRecompute(Append(RemoveAll(order, n), n))
  /\ UNCHANGED <<store, due, snap>>

\* applyLayout() with Import data only: a formula channel with data becomes a
\* plain one.
LoadDataOnly(n) ==
  /\ UserOp /\ n \in DOMAIN formulas \cap DOMAIN store
  /\ Forget(n)
  /\ BeginRecompute(RemoveAll(order, n))
  /\ UNCHANGED <<store, due, snap>>

\* redrawAll(), and the recompute timer.
Redraw ==
  /\ UserOp
  /\ BeginRecompute(order)
  /\ UNCHANGED <<store, formulas, order, due, snap>>
TimerFires ==
  /\ due /\ ~recomputing
  /\ due' = FALSE
  /\ BeginRecompute(order)
  /\ UNCHANGED <<edits, store, formulas, order, snap, undone>>

\* captureState(): the store, and currentLayout(), which lists the channels in
\* the store with their formulas.  (saveLayoutDialog() writes the same layout.)
\* The commit timer is armed after the recompute timer and so fires after it.
Capture ==
  /\ ~recomputing /\ ~due
  /\ snap' = [taken |-> TRUE, store |-> store,
              formulas |-> Restrict(formulas, DOMAIN formulas \cap DOMAIN store)]
  /\ snap' # snap
  /\ UNCHANGED <<edits, store, formulas, order, recomputing, loopVars, due, undone>>

\* restoreState(): forgetAll(), the store reconciled with the snapshot (each
\* channelAdded arms the timer), the formulas registered in the order the hash
\* table lists the channels, recomputeAll().
MutantRestoredFormulas == snap.formulas @@ formulas
RestoredFormulas == snap.formulas
Restore ==
  /\ Edit /\ snap.taken
  /\ undone' = TRUE
  /\ store' = snap.store
  /\ formulas' = RestoredFormulas
  /\ \E q \in SetToSeqs(DOMAIN RestoredFormulas) :
       order' = q /\ BeginRecompute(q)
  /\ due' = (due \/ DOMAIN snap.store # {})
  /\ UNCHANGED snap

-----------------------------------------------------------------------------
(* recomputeAll()                                                          *)

\* scheduleRecompute() ignores the channelAdded of a recompute.
MutantDueAfterRecompute == TRUE
DueAfterRecompute == due

\* One formula.  The store emits channelRemoved on the replace, which the
\* engine ignores now, and evaluate() records the formula again.
MutantRecordAgain(n) == Forget(n)
RecordAgain(n) == SetFormula(n, formulas[n])
EvaluateNext ==
  /\ recomputing /\ pending # <<>>
  /\ LET n == Head(pending) IN
     \/ /\ n \notin DOMAIN formulas       \* forgotten
        /\ UNCHANGED <<store, formulas, order, failed, progress, due>>
     \/ /\ n \in DOMAIN formulas /\ Evaluates(formulas[n])
        /\ store' = With(store, n, Value(formulas[n]))
        /\ RecordAgain(n)
        /\ progress' = TRUE
        /\ due' = DueAfterRecompute
        /\ UNCHANGED failed
     \/ /\ n \in DOMAIN formulas /\ ~Evaluates(formulas[n])
        /\ failed' = Append(failed, n)
        /\ UNCHANGED <<store, formulas, order, progress, due>>
  /\ pending' = Tail(pending)
  /\ UNCHANGED <<edits, recomputing, snap, undone>>

\* The end of a pass: while there was progress, what failed is tried again.
MutantAgain == FALSE
Again == progress /\ failed # <<>>
EndPass ==
  /\ recomputing /\ pending = <<>>
  /\ recomputing' = Again
  /\ pending' = IF Again THEN failed ELSE <<>>
  /\ failed' = <<>> /\ progress' = FALSE
  /\ UNCHANGED <<edits, store, formulas, order, due, snap, undone>>

Recompute == EvaluateNext \/ EndPass

Next ==
  \/ \E n \in Names : AddSource(n) \/ RemoveChannel(n) \/ LoadDataOnly(n)
  \/ \E n \in Names, e \in Exprs : Define(n, e) \/ LoadFormula(n, e)
  \/ \E old, n \in Names, e \in Exprs : Redefine(old, n, e)
  \/ \E from, to \in Names : Rename(from, to)
  \/ Redraw \/ Capture \/ Restore
  \/ TimerFires \/ Recompute

Spec == Init /\ [][Next]_vars

(* The event loop delivers the timer, and the recompute loop runs on.       *)
FairSpec == Spec /\ WF_vars(TimerFires) /\ WF_vars(Recompute)

-----------------------------------------------------------------------------
(* Properties.                                                             *)

\* Position of a formula in the order, and formulas ordered after the formulas
\* they refer to.
InOrder ==
  \A i, j \in DOMAIN order : order[j] \in formulas[order[i]] => j < i

Fresh(n) == Evaluates(formulas[n]) => n \in DOMAIN store /\ store[n] = Value(formulas[n])
Idle == ~recomputing /\ ~due

\* If the order is a dependency order, then once the timer and the recompute
\* are through every formula whose operands exist shows their current
\* samples, whatever was added, removed, renamed, loaded or undone before.
OrderedIsFresh == Idle /\ InOrder => \A n \in DOMAIN formulas : Fresh(n)

\* A formula is tried until nothing more succeeds: none whose operands exist
\* is left without a channel.
NoFormulaLeftOut ==
  Idle => \A n \in DOMAIN formulas : Evaluates(formulas[n]) => n \in DOMAIN store

\* Definitions are kept.  A recompute replaces store channels, for which the store
\* emits channelRemoved, without losing or changing a definition; and a rename
\* keeps a dependency order (FormulaEngine.cpp:674: "Keep the dependency order"),
\* unless the new name was one that formulas referred to.
Unused(n) == n \notin DOMAIN formulas /\ \A m \in DOMAIN formulas : n \notin formulas[m]
DefinitionsKept ==
  [][/\ recomputing => formulas' = formulas
     /\ \A from, to \in Names :
          Rename(from, to) /\ InOrder /\ Unused(to) => InOrder']_vars

\* AnalyserPlot.cpp:392-412: an undo gives back the channels and the samples of
\* the snapshot and its recomputes leave them alone, in whatever order they
\* run; nor do they bring back a channel that the undo removed.  The snapshot has
\* to be consistent: each of its formulas shows its operands' samples.  (That of
\* a formula which refers to itself never does: it moves on with every
\* recompute, undo included.)
SnapFresh ==
  \A n \in DOMAIN snap.formulas :
    LET e == snap.formulas[n] IN
    e \subseteq DOMAIN snap.store => snap.store[n] = Compute(Restrict(snap.store, e))
UndoRestoresValues == undone /\ SnapFresh => store = snap.store

\* What the three invariants above rest on.  The formula at place i of the order
\* has its operands and shows their samples, unless one of them comes after it.
Shows(i) ==
  LET n == order[i] IN
  /\ Evaluates(formulas[n]) /\ n \in DOMAIN store
  /\ \/ store[n] = Value(formulas[n])
     \/ \E j \in DOMAIN order : i <= j /\ order[j] \in formulas[n]

\* At rest every formula whose operands exist does.
SettledInv == Idle => \A i \in DOMAIN order : Evaluates(formulas[order[i]]) => Shows(i)

\* In recomputeAll() every formula is still to be tried in this pass, or failed
\* in it, for good unless there was progress, or was evaluated in this call.
LoopInv ==
  recomputing => \A i \in DOMAIN order :
    \/ order[i] \in ToSet(pending)
    \/ order[i] \in ToSet(failed) /\ (progress \/ ~Evaluates(formulas[order[i]]))
    \/ Shows(i)

\* After an undo the formulas that evaluate are those of the snapshot.
UndoInv ==
  undone /\ SnapFresh =>
    /\ store = snap.store
    /\ \A n \in DOMAIN formulas :
         \/ n \in DOMAIN snap.formulas /\ formulas[n] = snap.formulas[n]
         \/ ~Evaluates(formulas[n])

RecomputeInv == SettledInv /\ LoopInv /\ UndoInv

\* AnalyserPlot.cpp:376: recomputing must not reschedule itself ("that would
\* spin"): when the user pauses, the application comes to rest.
ComesToRest == <>[]Idle
=============================================================================
