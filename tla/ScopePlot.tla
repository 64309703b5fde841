----------------------------- MODULE ScopePlot -----------------------------
(***************************************************************************)
(* The plot widget of src/plot (ScopePlot): its Y axes, the auto-fit flag  *)
(* of every axis, the mouse and keyboard gestures that move the view, and  *)
(* the two-point measurements with the table under the plot.               *)
(*                                                                         *)
(* A QCPAxis* is an identity, its position in the axis list an index: the  *)
(* graphs hold the pointer, the measurements and the channel tables hold   *)
(* the index, and removing an axis renumbers the second and not the first. *)
(* Indices are counted from 1 here.  What an axis shows is abstracted to   *)
(* who chose it: "auto" by a rescale, "user" by hand or by a layout.      *)
(***************************************************************************)
EXTENDS Integers, Sequences, FiniteSets, SequencesExt, FiniteSetsExt

CONSTANTS Labels,           \* axis labels, as far as units tell them apart
          DefaultLabel,     \* the "Y1", "Y2"... of an axis nobody named
          MaxAxes,          \* bound: axes at one time
          MaxMeasurements,  \* bound: measurements on the plot
          DragHeights       \* panel heights the divider can be dragged to

ASSUME PlotAssumption == /\ DefaultLabel \in Labels
                         /\ MaxAxes \in Nat \ {0}
                         /\ DragHeights \subseteq Nat \ {0, 1, 2}

VARIABLES axes,          \* impl_->yAxes with label, auto-fit flag and range
          graph,         \* plottables: channel -> axis pointer, visible, data
          xAxis,         \* the X axis: auto-fit flag and range
          mouse,         \* "up", "drag" (leftButtonDown), "region" (regionDragging)
          paused, measureMode,
          measurements,  \* points are the axis list they were read on
          panel,         \* the measurement table's folding and height
          dragged        \* history: the height the user dragged the table to

plotVars == <<axes, graph, xAxis, mouse, paused, measureMode,
              measurements, panel, dragged>>
viewVars == <<axes, graph, xAxis>>
measureVars == <<measureMode, measurements, panel, dragged>>

AxisIds == 1 .. MaxAxes
HeadPx  == 1               \* the folded panel: its header strip
HugPx   == 2               \* the height that hugs the rows
Indices == 1 .. Len(axes)

\* The axis a QCPAxis pointer denotes, 1 (Y1) when it is in no list.
graphYAxisIndex(axs, ptr) ==
    IF \E i \in DOMAIN axs : axs[i].id = ptr
    THEN CHOOSE i \in DOMAIN axs : axs[i].id = ptr ELSE 1

NewAxis(id, label) == [id |-> id, label |-> label, fit |-> TRUE, range |-> "auto"]

PlotInit ==
    /\ axes = <<NewAxis(1, DefaultLabel)>>
    /\ graph = << >>
    /\ xAxis = [fit |-> TRUE, by |-> "auto", lo |-> 0, hi |-> 0]
    /\ mouse = "up" /\ paused = FALSE
    /\ measureMode = FALSE /\ measurements = << >>
    /\ panel = [folded |-> FALSE, userSized |-> FALSE, unfoldedPx |-> 0, height |-> HugPx]
    /\ dragged = 0

-----------------------------------------------------------------------------
(* Ranges and the auto-fit flag.  QCPAxis::rangeChanged fires when a range *)
(* really changes, and its handler takes any change under a held left      *)
(* button for a pan: moved is the set of axes whose numbers do change.     *)

Moves == IF mouse = "drag" THEN SUBSET AxisIds ELSE {{}}

Ranged(ax, who, moved) ==
    [ax EXCEPT !.range = who, !.fit = @ /\ ~(mouse = "drag" /\ ax.id \in moved)]

ShowsData(gs, ax) ==
    \E c \in DOMAIN gs : gs[c].axis = ax.id /\ gs[c].vis /\ gs[c].data # << >>

RescaleManualToo(axs, gs, moved) ==
    [i \in DOMAIN axs |-> IF ShowsData(gs, axs[i])
                          THEN Ranged(axs[i], "auto", moved) ELSE axs[i]]
rescaleAllYAxes(axs, gs, moved) ==
    [i \in DOMAIN axs |-> IF axs[i].fit /\ ShowsData(gs, axs[i])
                          THEN Ranged(axs[i], "auto", moved) ELSE axs[i]]

\* Unlike rescaleAllYAxes, this one does not look at the auto-fit flag.
rescaleYAxesToWindow(axs, gs, lo, hi, moved) ==
    LET inside(ax) == \E c \in DOMAIN gs :
            /\ gs[c].axis = ax.id /\ gs[c].vis /\ gs[c].data # << >>
            /\ gs[c].data[1] <= hi /\ gs[c].data[2] >= lo
    IN  [i \in DOMAIN axs |-> IF lo < hi /\ inside(axs[i])
                              THEN Ranged(axs[i], "auto", moved) ELSE axs[i]]

RescaledX(gs) ==
    IF \E c \in DOMAIN gs : gs[c].data # << >>
    THEN [fit |-> TRUE, by |-> "auto",
          lo |-> Min({gs[c].data[1] : c \in {d \in DOMAIN gs : gs[d].data # << >>}}),
          hi |-> Max({gs[c].data[2] : c \in {d \in DOMAIN gs : gs[d].data # << >>}})]
    ELSE [xAxis EXCEPT !.fit = TRUE]

\* fitAll() sets the X flag after moving X, but the Y flags before moving Y.
FitAllAxes(axs, gs, moved) ==
    rescaleAllYAxes([i \in DOMAIN axs |-> [axs[i] EXCEPT !.fit = TRUE]], gs, moved)

fitAll == /\ xAxis' = RescaledX(graph)
          /\ \E moved \in Moves : axes' = FitAllAxes(axes, graph, moved)
          /\ UNCHANGED <<graph, mouse, paused, measureVars>>

\* The "fit Y to the window" button: the flags stay as they are.
fitWindow == /\ mouse = "up"
             /\ axes' = rescaleYAxesToWindow(axes, graph, xAxis.lo, xAxis.hi, {})
             /\ axes' # axes
             /\ UNCHANGED <<graph, xAxis, mouse, paused, measureVars>>

ByHand(axs, S) == [i \in DOMAIN axs |-> IF i \in S
                       THEN [axs[i] EXCEPT !.fit = FALSE, !.range = "user"] ELSE axs[i]]
XByHand == [xAxis EXCEPT !.fit = FALSE, !.by = "user"]

\* zoomXBy, zoomYBy, zoomBothBy, zoomAt: X or not, and a set of Y axes.
Zoomed(x, ys) == /\ xAxis' = IF x THEN XByHand ELSE xAxis
                 /\ axes' = ByHand(axes, ys)
                 /\ UNCHANGED graph

zoomX    == Zoomed(TRUE, {})
zoomY(i) == Zoomed(FALSE, IF i = 0 THEN Indices ELSE {i})   \* 0: the code's -1, all
panBy    == Zoomed(TRUE, Indices)

\* The wheel, the toolbar and the keys.  The modifiers and the cursor choose
\* X, one Y axis, all Y axes, or both; with an arrow key held the wheel pans.
\* Steps and their acceleration are not modelled, only which axes they move.
Wheel == /\ zoomX \/ panBy \/ \E i \in 0 .. Len(axes) : zoomY(i)
         /\ UNCHANGED <<mouse, paused, measureVars>>

-----------------------------------------------------------------------------
(* The mouse on the plot. *)

\* Ctrl+left starts a region, left alone may pan; measuring takes both.
MousePress == /\ mouse = "up" /\ ~measureMode
              /\ mouse' \in {"drag", "region"}
              /\ UNCHANGED <<viewVars, paused, measureVars>>

\* QCustomPlot's range drag moves X and the first Y axis.
MouseDrag == /\ mouse = "drag"
             /\ Zoomed(TRUE, {1})
             /\ UNCHANGED <<mouse, paused, measureVars>>

endRegionZoom(large) == IF large THEN panBy ELSE UNCHANGED viewVars

MouseRelease ==
    /\ mouse # "up" /\ mouse' = "up"
    /\ IF mouse = "region" THEN \E large \in BOOLEAN : endRegionZoom(large)
                           ELSE UNCHANGED viewVars
    /\ UNCHANGED <<paused, measureVars>>

togglePause == /\ mouse = "up" /\ paused' = ~paused
               /\ UNCHANGED <<viewVars, mouse, measureVars>>

-----------------------------------------------------------------------------
(* Measurements. *)

FoldForgetsHeight(p) ==
    IF p.folded THEN [p EXCEPT !.height = HeadPx]
    ELSE IF ~p.userSized THEN [p EXCEPT !.height = HugPx] ELSE p

\* updateMeasurePanel(): folding wins over a drag and hands the height back.
updateMeasurePanel(p) ==
    IF p.folded
    THEN [p EXCEPT !.height = HeadPx,
                   !.unfoldedPx = IF p.userSized /\ @ = 0 THEN p.height ELSE @]
    ELSE IF ~p.userSized THEN [p EXCEPT !.height = HugPx]
    ELSE IF p.unfoldedPx = 0 THEN p
    ELSE [p EXCEPT !.height = p.unfoldedPx, !.unfoldedPx = 0]

Complete(m) == m.p1 # << >> /\ m.p2 # << >>
Blank == [p1 |-> << >>, p2 |-> << >>, anchor |-> 1]

\* One y per axis of the moment: a point is the axes it was read on.
pointAt(axs) == [i \in DOMAIN axs |-> axs[i].id]

clearMeasurement == /\ measurements' = << >>
                    /\ panel' = updateMeasurePanel(panel)

setMeasureMode == /\ mouse = "up"
                  /\ measureMode' = ~measureMode
                  /\ IF measureMode THEN clearMeasurement
                     ELSE /\ panel' = updateMeasurePanel(panel)
                          /\ UNCHANGED measurements
                  /\ UNCHANGED <<viewVars, mouse, paused, dragged>>

\* snapped: the index of the axis of the sample the click snapped to, or 0.
placeMeasurePoint(snapped) ==
    /\ measureMode /\ mouse = "up"
    /\ snapped = 0 \/ \E c \in DOMAIN graph : /\ graph[c].vis /\ graph[c].data # << >>
                                              /\ graphYAxisIndex(axes, graph[c].axis) = snapped
    /\ LET fresh == measurements = << >> \/ Complete(Last(measurements))
           m     == IF fresh THEN Blank ELSE Last(measurements)
           kept  == IF fresh THEN measurements ELSE Front(measurements)
       IN  /\ Len(kept) < MaxMeasurements
           /\ measurements' = Append(kept,
                IF m.p1 = << >>
                THEN [m EXCEPT !.p1 = pointAt(axes), !.anchor = IF snapped = 0 THEN 1 ELSE snapped]
                ELSE [m EXCEPT !.p2 = pointAt(axes)])
    /\ panel' = updateMeasurePanel(panel)
    /\ UNCHANGED <<viewVars, mouse, paused, measureMode, dragged>>

\* Right-click: the measurement under the cursor, or all of them.
removeMeasurement ==
    /\ measureMode /\ mouse = "up"
    /\ \/ clearMeasurement
       \/ \E i \in DOMAIN measurements : /\ measurements' = RemoveAt(measurements, i)
                                         /\ panel' = updateMeasurePanel(panel)
    /\ UNCHANGED <<viewVars, mouse, paused, measureMode, dragged>>

foldPanel == /\ measureMode /\ mouse = "up"
             /\ panel' = updateMeasurePanel([panel EXCEPT !.folded = ~@])
             /\ UNCHANGED <<viewVars, mouse, paused, measureMode, measurements, dragged>>

\* A drag of the folded strip does not replace the height put aside.
dragDivider(h) ==
    /\ measureMode /\ mouse = "up"
    /\ panel' = [panel EXCEPT !.userSized = TRUE, !.height = h]
    /\ dragged' = IF panel.folded /\ panel.unfoldedPx > 0 THEN dragged ELSE h
    /\ UNCHANGED <<viewVars, mouse, paused, measureMode, measurements>>

\* afterReplot: the table follows channels that came, went or were hidden.
afterReplot == /\ measureMode /\ panel' = updateMeasurePanel(panel) /\ panel' # panel
               /\ UNCHANGED <<viewVars, mouse, paused, measureMode, measurements, dragged>>

-----------------------------------------------------------------------------
(* The axis list. *)

FreeId == Min(AxisIds \ {axes[i].id : i \in Indices})

addYAxis(label) == axes' = Append(axes, NewAxis(FreeId, label))

RemovalKeepsMeasurements(i) == /\ axes' = RemoveAt(axes, i)
                               /\ UNCHANGED <<measurements, panel>>

\* removeYAxis(): Y1 stays, and so does an axis a graph is drawn on.
removable(i) == i # 1 /\ \A c \in DOMAIN graph : graph[c].axis # axes[i].id

removeYAxis(i) == /\ axes' = RemoveAt(axes, i)
                  /\ clearMeasurement

\* The context menu of one axis: "Set range" and "Auto-scale this axis".
setAxisRange(i) == /\ mouse = "up" /\ axes' = ByHand(axes, {i})
                   /\ UNCHANGED <<graph, xAxis, mouse, paused, measureVars>>
autoScaleAxis(i) ==
    /\ mouse = "up" /\ ~axes[i].fit
    /\ axes' = [axes EXCEPT ![i].fit = TRUE,
                            ![i].range = IF ShowsData(graph, axes[i]) THEN "auto" ELSE @]
    /\ UNCHANGED <<graph, xAxis, mouse, paused, measureVars>>

\* Everything the widget does by itself, without its host's tables.
Gesture ==
    \/ fitAll \/ fitWindow \/ Wheel \/ togglePause \/ MousePress \/ MouseDrag
    \/ (\E s \in 0 .. Len(axes) : placeMeasurePoint(s)) \/ removeMeasurement
    \/ foldPanel \/ (\E h \in DragHeights : dragDivider(h))
    \/ \E i \in Indices : setAxisRange(i) \/ autoScaleAxis(i)
Mode == MouseRelease \/ setMeasureMode \/ afterReplot
=============================================================================
