---------------------------- MODULE LivePreview ----------------------------
(***************************************************************************)
(* The Recorder's live preview (LivePreviewPlot) on top of the plot widget:*)
(* a table row and a graph per channel of the recording store, the axis    *)
(* assignments a layout asks for, and the tick that follows a running      *)
(* recording.  A handler is one step with all the calls it makes: Record   *)
(* replaces the channels one by one in the store, each of which runs       *)
(* onChannelRemoved and onChannelAdded, then re-applies the layout.        *)
(***************************************************************************)
EXTENDS ScopePlot

CONSTANTS Channels, Unit,   \* Unit[c]: a label of Labels, or NoUnit
          NoUnit,
          MaxTime,          \* bound: timestamps
          WindowLen,        \* windowSeconds_
          Layouts,          \* layout files an earlier session left
          MaxOps            \* bound: user operations in a behaviour (modes are free)

ASSUME PreviewAssumption == /\ Unit \in [Channels -> Labels \cup {NoUnit}]
                            /\ NoUnit \notin Labels
                            /\ WindowLen \in Nat \ {0} /\ MaxTime \in Nat

\* A layout that a session saved: it names axes by their index.
IsLayout(l) == /\ l = [axes |-> l.axes, chans |-> l.chans]
               /\ l.axes \in Seq(Labels) /\ Len(l.axes) <= MaxAxes
               /\ DOMAIN l.chans \subseteq Channels
               /\ l.chans \in [DOMAIN l.chans -> AxisIds]

ASSUME LayoutsAssumption == \A l \in Layouts : IsLayout(l)

VARIABLES rows,        \* table_: channel -> checked, index in the axis combo
          sig,         \* recordStore_: channel -> first and last timestamp
          pending,     \* pendingAssignments_
          loaded,      \* loadedLayout_
          file,        \* the layout last saved
          recording, live,   \* recording_, and the channels of the session
          originSet, origin,
          ops          \* user operations so far

hostVars == <<rows, sig, pending, loaded, file, recording, live, originSet, origin>>
vars == <<plotVars, hostVars, ops>>

NoLayout == [axes |-> << >>, chans |-> << >>]
Without(f, S) == [x \in DOMAIN f \ S |-> f[x]]
Extend(f, g) == [x \in DOMAIN f \cup DOMAIN g |-> IF x \in DOMAIN g THEN g[x] ELSE f[x]]
Lesser(a, b) == IF a < b THEN a ELSE b
Larger(a, b) == IF a > b THEN a ELSE b

\* The first axis whose label names the unit, Y1 otherwise.
pickAxisForUnit(axs, u) ==
    IF u # NoUnit /\ \E i \in DOMAIN axs : axs[i].label = u
    THEN Min({i \in DOMAIN axs : axs[i].label = u}) ELSE 1

rebuildAxisCombos(rs, n) == [c \in DOMAIN rs |-> [rs[c] EXCEPT !.axis = Lesser(@, n)]]

Init == /\ PlotInit
        /\ rows = << >> /\ sig = << >> /\ pending = << >>
        /\ loaded = NoLayout /\ file \in Layouts
        /\ recording = FALSE /\ live = {} /\ originSet = FALSE /\ origin = 0
        /\ ops = 0

Edits == ops < MaxOps /\ ops' = ops + 1

-----------------------------------------------------------------------------
(* The axis list changes: yAxesChanged rebuilds every row's combo. *)

AddAxis == /\ mouse = "up" /\ Len(axes) < MaxAxes /\ Edits
           /\ addYAxis(DefaultLabel)
           /\ rows' = rebuildAxisCombos(rows, Len(axes) + 1)
           /\ UNCHANGED <<graph, xAxis, mouse, paused, measureVars,
                          sig, pending, loaded, file, recording, live, originSet, origin>>

RemoveAxis(i) == /\ mouse = "up" /\ removable(i) /\ Edits
                 /\ removeYAxis(i)
                 /\ rows' = rebuildAxisCombos(rows, Len(axes) - 1)
                 /\ UNCHANGED <<graph, xAxis, mouse, paused, measureMode, dragged,
                                sig, pending, loaded, file, recording, live, originSet, origin>>

RenameAxis(i, label) == /\ mouse = "up" /\ axes[i].label # label /\ Edits
                        /\ axes' = [axes EXCEPT ![i].label = label]
                        /\ UNCHANGED <<graph, xAxis, mouse, paused, measureVars, hostVars>>

-----------------------------------------------------------------------------
(* The channel table. *)

\* setGraphYAxis(): the pointer moves and every auto-fit axis is rescaled.
setGraphYAxis(gs, c, i) == [gs EXCEPT ![c].axis = axes[i].id]

onAxisComboChanged(c, i) ==
    /\ mouse = "up" /\ rows[c].axis # i /\ Edits
    /\ rows' = [rows EXCEPT ![c].axis = i]
    /\ graph' = setGraphYAxis(graph, c, i)
    /\ axes' = rescaleAllYAxes(axes, graph', {})
    /\ UNCHANGED <<xAxis, mouse, paused, measureVars,
                   sig, pending, loaded, file, recording, live, originSet, origin>>

onVisibilityChanged(c) ==
    /\ mouse = "up" /\ Edits
    /\ rows' = [rows EXCEPT ![c].vis = ~@]
    /\ graph' = [d \in DOMAIN graph |-> [graph[d] EXCEPT !.vis = rows'[d].vis]]
    /\ UNCHANGED <<axes, xAxis, mouse, paused, measureVars,
                   sig, pending, loaded, file, recording, live, originSet, origin>>

-----------------------------------------------------------------------------
(* Layouts. *)

\* currentPlotLayout(): the table's combos, not the graphs' axes.
SaveLayout == /\ mouse = "up" /\ Edits
              /\ file' = [axes |-> [i \in Indices |-> axes[i].label],
                          chans |-> [c \in DOMAIN rows |-> rows[c].axis]]
              /\ file' # file
              /\ UNCHANGED <<plotVars, rows, sig, pending, loaded, recording, live, originSet, origin>>

CombosMoveNoGraph(gs, old, new, axs) == gs

\* reapplyChannelAssignments() on the rows, the graphs and the axis list it
\* finds: QComboBox::setCurrentIndex is silent when the index stays the same,
\* and only its signal moves the graph.
Reassigned(rs, layout, n) ==
    [c \in DOMAIN rs |-> IF c \in DOMAIN layout.chans
                         THEN [rs[c] EXCEPT !.axis = Lesser(layout.chans[c], n)] ELSE rs[c]]
FollowCombos(gs, old, new, axs) ==
    [c \in DOMAIN gs |-> IF new[c].axis # old[c].axis
                         THEN [gs[c] EXCEPT !.axis = axs[new[c].axis].id] ELSE gs[c]]
Deferred(rs, layout) == Without(layout.chans, DOMAIN rs)

\* The axis list a layout leaves: Y1 keeps its pointer, the rest are new.
LaidOut(layout) ==
    LET free == SetToSeq(AxisIds \ {axes[1].id})
        lab(i) == IF i <= Len(layout.axes) THEN layout.axes[i] ELSE axes[1].label
    IN  [i \in 1 .. Larger(1, Len(layout.axes)) |->
            IF i = 1
            THEN [axes[1] EXCEPT !.label = lab(1),
                                 !.range = IF layout.axes = << >> THEN @ ELSE "user"]
            ELSE [NewAxis(free[i - 1], lab(i)) EXCEPT !.range = "user"]]

\* applyPlotLayout(): from a file, or from the Recorder's undo history.
applyPlotLayout(layout) ==
    /\ mouse = "up"
    /\ LET axs  == LaidOut(layout)
           gs   == [c \in DOMAIN graph |-> [graph[c] EXCEPT !.axis = axes[1].id]]
           base == rebuildAxisCombos(rows, 1)
           new  == Reassigned(base, layout, Len(axs))
       IN  /\ rows' = new
           /\ graph' = FollowCombos(gs, base, new, axs)
           /\ axes' = IF new # base THEN rescaleAllYAxes(axs, graph', {}) ELSE axs
           /\ pending' = Deferred(new, layout)
    /\ loaded' = layout
    /\ IF Len(axes) > 1 THEN clearMeasurement ELSE UNCHANGED <<measurements, panel>>
    /\ UNCHANGED <<xAxis, mouse, paused, measureMode, dragged,
                   sig, file, recording, live, originSet, origin>>

LoadLayout == Edits /\ (applyPlotLayout(file) \/ applyPlotLayout(NoLayout))

-----------------------------------------------------------------------------
(* Recording. *)

Relative(o, s) == IF s = << >> THEN << >> ELSE <<s[1] - o, s[2] - o>>
WithData == {c \in DOMAIN sig : sig[c] # << >>}
Newest == Max({sig[c][2] : c \in WithData})

OriginDrifts(o, isSet) == IF WithData = {} THEN o ELSE Min({sig[c][1] : c \in WithData})

\* refreshData(): the origin is fixed by the first samples seen.
originAt(o, isSet) == IF isSet \/ WithData = {} THEN o ELSE Min({sig[c][1] : c \in WithData})
refreshData == /\ origin' = originAt(origin, originSet)
               /\ originSet' = (originSet \/ WithData # {})

Reloaded(gs, o) == [c \in DOMAIN gs |-> [gs[c] EXCEPT !.data = Relative(o, sig[c])]]

\* onChannelAdded(): the graph's axis, from the deferred assignment or the unit.
GraphAxis(c) == LET i == IF c \in DOMAIN pending THEN pending[c]
                         ELSE pickAxisForUnit(axes, Unit[c])
                IN  axes[IF i > Len(axes) THEN 1 ELSE i].id

\* ... and the row rebuildTable() makes: one that was there keeps its state,
\* and the deferred assignment has been taken by the graph already.
RowAxis(c) == Lesser(pickAxisForUnit(axes, Unit[c]), Len(axes))

\* onStartClicked(): the channels of cs replace those of their names in the
\* store; ok tells whether the session then starts.
Start(cs, ok) ==
    /\ mouse = "up" /\ ~recording /\ Edits
    /\ LET old  == Extend([c \in cs |-> [vis |-> TRUE, axis |-> RowAxis(c)]], rows)
           gs   == Extend(graph, [c \in cs |-> [axis |-> GraphAxis(c), vis |-> TRUE,
                                                data |-> << >>]])
           new  == Reassigned(old, loaded, Len(axes))
           drawn == FollowCombos(gs, old, new, axes)
           axs  == IF new # old THEN rescaleAllYAxes(axes, drawn, {}) ELSE axes
       IN  /\ rows' = new /\ graph' = drawn
           /\ pending' = Deferred(new, loaded)
           /\ sig' = Extend(sig, [c \in cs |-> << >>])
           /\ IF ok THEN /\ axes' = FitAllAxes(axs, drawn, {})
                         /\ xAxis' = RescaledX(drawn)
                    ELSE axes' = axs /\ UNCHANGED xAxis
    /\ recording' = ok /\ live' = IF ok THEN cs ELSE {}
    /\ originSet' = (originSet /\ ~ok)
    /\ UNCHANGED <<mouse, paused, measureVars, loaded, file, origin>>

\* The session's drain appends to a channel of the running recording.
Sample(c, t) == /\ recording /\ c \in live
                /\ sig[c] # << >> => t > sig[c][2]
                /\ sig' = [sig EXCEPT ![c] = IF @ = << >> THEN <<t, t>> ELSE <<@[1], t>>]
                /\ UNCHANGED <<plotVars, rows, pending, loaded, file, recording, live,
                               originSet, origin, ops>>

\* The follow window of the tick.
FollowX(o) == LET maxX == Newest - o
                  lo   == Larger(0, maxX - WindowLen)
              IN  [fit |-> TRUE, by |-> "auto", lo |-> lo, hi |-> Larger(maxX, lo + WindowLen)]

onTick ==
    /\ ~paused /\ recording /\ DOMAIN graph # {}
    /\ refreshData
    /\ graph' = Reloaded(graph, origin')
    /\ IF originSet' /\ xAxis.fit /\ WithData # {}
       THEN LET x == FollowX(origin')
            IN  /\ xAxis' = [x EXCEPT !.fit = ~(mouse = "drag" /\ <<x.lo, x.hi>> # <<xAxis.lo, xAxis.hi>>)]
                /\ \E moved \in Moves :
                       axes' = rescaleYAxesToWindow(axes, graph', x.lo, x.hi, moved)
       ELSE UNCHANGED <<xAxis, axes>>
    /\ UNCHANGED <<mouse, paused, measureVars, rows, sig, pending, loaded, file,
                   recording, live, ops>>

\* onStopClicked(): the last samples are drawn and the whole capture fitted.
Stop == /\ mouse = "up" /\ recording /\ recording' = FALSE /\ live' = {}
        /\ IF DOMAIN graph # {}
           THEN /\ refreshData
                /\ graph' = Reloaded(graph, origin')
                /\ xAxis' = RescaledX(graph')
                /\ axes' = FitAllAxes(axes, graph', {})
           ELSE UNCHANGED <<originSet, origin, graph, xAxis, axes>>
        /\ UNCHANGED <<mouse, paused, measureVars, rows, sig, pending, loaded, file, ops>>

PlotGesture == Gesture /\ Edits /\ UNCHANGED hostVars
PlotMode    == Mode /\ UNCHANGED <<hostVars, ops>>

EditAxes  == \/ AddAxis
             \/ \E i \in Indices : RemoveAxis(i) \/ \E l \in Labels : RenameAxis(i, l)
EditTable == \E c \in DOMAIN rows : \/ onVisibilityChanged(c)
                                   \/ \E i \in Indices : onAxisComboChanged(c, i)
Record    == \E cs \in SUBSET Channels, ok \in BOOLEAN : Start(cs, ok)

Next ==
    \/ PlotGesture \/ PlotMode
    \/ EditAxes \/ EditTable \/ SaveLayout \/ LoadLayout \/ Record
    \/ \E c \in DOMAIN sig, t \in 0 .. MaxTime : Sample(c, t)
    \/ onTick \/ Stop

Spec == Init /\ [][Next]_vars
-----------------------------------------------------------------------------
(* Properties. *)

\* Every axis has an identity of its own.  (The numbers of the X range are left
\* open.)
Axis == [id : AxisIds, label : Labels, fit : BOOLEAN, range : {"auto", "user"}]
Measurement == [p1 : Seq(AxisIds), p2 : Seq(AxisIds), anchor : AxisIds]
Panel == [folded : BOOLEAN, userSized : BOOLEAN, unfoldedPx : Nat, height : Nat]
IsAxisList(axs) == /\ axs \in Seq(Axis) /\ Len(axs) \in 1 .. MaxAxes
                   /\ \A i, j \in DOMAIN axs : axs[i].id = axs[j].id => i = j
IsGraphs(gs) == gs \in [DOMAIN gs -> [axis : AxisIds, vis : BOOLEAN, data : Seq(Int)]]
IsRows(rs) == rs \in [DOMAIN rs -> [vis : BOOLEAN, axis : AxisIds]]
IsSignals(sg) == /\ DOMAIN sg \subseteq Channels
                 /\ sg \in [DOMAIN sg -> {<< >>} \cup {<<a, b>> : a, b \in 0 .. MaxTime}]
TypeOK ==
    /\ IsAxisList(axes) /\ IsGraphs(graph) /\ IsRows(rows) /\ IsSignals(sig)
    /\ mouse \in {"up", "drag", "region"} /\ paused \in BOOLEAN /\ measureMode \in BOOLEAN
    /\ measurements \in Seq(Measurement) /\ panel \in Panel /\ dragged \in Nat
    /\ IsLayout(loaded) /\ IsLayout(file)
    /\ recording \in BOOLEAN /\ live \subseteq Channels
    /\ originSet \in BOOLEAN /\ origin \in Int
    /\ ops \in Nat

\* No graph is ever left on an axis that was removed (removeYAxis refuses an
\* axis in use, applyPlotLayout moves the graphs off before it removes one).
GraphsOnLiveAxes == \A c \in DOMAIN graph : \E i \in Indices : axes[i].id = graph[c].axis

\* The rows are the channels of the store, each on an axis of the list.
RowsOnLiveAxes ==
    /\ DOMAIN rows = DOMAIN graph /\ DOMAIN rows = DOMAIN sig
    /\ \A c \in DOMAIN rows : rows[c].axis \in Indices

\* A measurement is read and drawn on the axis it was started on, whatever
\* axes were added or removed since ("both go stale the moment the axes are
\* renumbered under them", ScopePlot.cpp:1434).
MeasurementOnItsAxis ==
    \A k \in DOMAIN measurements :
        LET m == measurements[k]
        IN  \A p \in {m.p1, m.p2} \ {<< >>} :
                /\ m.anchor \in Indices \cap DOMAIN p
                /\ p[m.anchor] = axes[m.anchor].id

\* Graphs hold an axis by pointer, rows and measurements by index; through
\* every removal, layout and recording none of them is left on an axis that is
\* gone, or on another one than it was put on.
NothingOnARemovedAxis == GraphsOnLiveAxes /\ RowsOnLiveAxes /\ MeasurementOnItsAxis

\* The measurements and their table.  Only the newest measurement may be
\* half-placed (ScopePlot.cpp:337), and however often it is folded, refilled or
\* switched off, the open table has the height the user dragged it to
\* (ScopePlot.cpp:1338).
MeasurementTableSound ==
    /\ \A k \in DOMAIN measurements : measurements[k].p2 # << >> \/ k = Len(measurements)
    /\ ~panel.folded /\ panel.userSized => panel.height = dragged

\* The tick leaves the newest sample of the recording inside the X range, and
\* the origin of x does not move during a recording (LivePreviewPlot.cpp:249),
\* in whatever order the channels deliver their first samples.
FollowsTheRecording ==
    [][/\ onTick /\ xAxis.fit /\ WithData # {}
            => xAxis'.lo >= 0 /\ Newest - origin' \in xAxis'.lo .. xAxis'.hi
       /\ recording /\ recording' /\ originSet => originSet' /\ origin' = origin]_vars

\* Applying a layout leaves the table, the graphs and the axes in agreement,
\* on the axes the layout names, whatever they disagreed about before; and a
\* channel that first appears with a recording is drawn on the axis the loaded
\* layout asked for, and its row says so (RecorderWidget.cpp:447).
LayoutHonoured ==
    [][/\ LoadLayout =>
            /\ loaded'.axes # << >> => [i \in DOMAIN axes' |-> axes'[i].label] = loaded'.axes
            /\ \A c \in DOMAIN rows' :
                 /\ graphYAxisIndex(axes', graph'[c].axis) = rows'[c].axis
                 /\ c \in DOMAIN loaded'.chans /\ loaded'.chans[c] <= Len(axes')
                        => rows'[c].axis = loaded'.chans[c]
       /\ Record => \A c \in (DOMAIN rows' \ DOMAIN rows) \cap DOMAIN loaded.chans :
            loaded.chans[c] <= Len(axes) =>
                /\ rows'[c].axis = loaded.chans[c]
                /\ graphYAxisIndex(axes', graph'[c].axis) = loaded.chans[c]]_vars

\* What the user does to the table or the axis list never refits an axis
\* whose range was set by hand (rescaleAllYAxes skips manual axes).
HandRangeKept ==
    [][EditAxes \/ EditTable =>
        \A i \in DOMAIN axes, j \in DOMAIN axes' :
            axes[i].id = axes'[j].id /\ ~axes[i].fit /\ axes[i].range = "user"
                => axes'[j].range = "user"]_vars

\* What the properties above rest on.  A measurement starts with its first point.
PointsInv == \A k \in DOMAIN measurements : measurements[k].p1 # << >>

\* The height the user dragged the table to is put aside while it is folded.
PanelInv == /\ ~panel.userSized \/ ~panel.folded => panel.unfoldedPx = 0
            /\ panel.userSized =>
                 /\ dragged \in DragHeights
                 /\ (IF panel.unfoldedPx > 0 THEN panel.unfoldedPx ELSE panel.height) = dragged

\* What a layout says of a channel that is not there yet is kept for it.
DeferredInv == pending = Deferred(rows, loaded)

\* The recording goes on from its origin.
OriginInv == recording /\ originSet => \E c \in WithData : origin <= sig[c][2]
SpansInv == \A c \in WithData : sig[c][1] <= sig[c][2]

PreviewInv == /\ NothingOnARemovedAxis /\ MeasurementTableSound
              /\ PointsInv /\ PanelInv /\ DeferredInv /\ OriginInv /\ SpansInv
=============================================================================
