--------------------------- MODULE AnalyserViews ---------------------------
(***************************************************************************)
(* The Analyser's three views of one signal store (AnalyserPlot).  The     *)
(* Time and Frequency domains each own a set of Y axes and a placement     *)
(* (visible, axis) per channel; the XY view borrows the domain of its X    *)
(* channel.  Only one domain is on screen, in the plot's axes and the      *)
(* table's widgets; the other waits in stateByDomain_.  A third copy, the  *)
(* sticky savedRowState_, survives rebuilds of the table.  Layouts, undo   *)
(* snapshots and exported pages are all read from these copies.            *)
(*                                                                         *)
(* `w' is the widget: the fields are the members of AnalyserPlot, and each *)
(* private method is an operator from widget to widget, composed by the    *)
(* handlers in the order the code calls them.  Formulas are modelled in    *)
(* FormulaEngine, the axes' ranges and the gestures in ScopePlot.          *)
(***************************************************************************)
EXTENDS Naturals, Sequences, SequencesExt

CONSTANTS Names,        \* channel names
          Order,        \* the store's (sorted) order of the names
          Kinds,        \* Kinds[n]: the domains a channel called n may have
          CopyOf,       \* CopyOf[n]: the name "n (2)"
          Unit,         \* Unit[n]: the unit of n, as the label that contains it
          NoUnit,
          NoName,       \* the empty X channel
          Labels,       \* axis labels
          Y1,           \* the label of the first axis
          Stores,       \* the stores the window may be opened on
          MaxAxes,      \* bound on the axes the user adds
          MaxOps        \* bound on the user's operations

\* The maps from some of K to V.
MapsTo(K, V) == UNION {[S -> V] : S \in SUBSET K}
Domains == {"time", "frequency"}
Views == {"time", "frequency", "xy"}

ASSUME OrderAssumption == /\ Order \in Seq(Names)
                          /\ Names = {Order[i] : i \in 1 .. Len(Order)}
                          /\ \A i, j \in 1 .. Len(Order) : Order[i] = Order[j] => i = j
                          /\ CopyOf \in [Names -> Names]
                          /\ NoName \notin Names
ASSUME LabelAssumption == Y1 \in Labels
ASSUME BoundAssumption == MaxAxes \in Nat /\ MaxOps \in Nat
ASSUME StoresAssumption == Stores \subseteq MapsTo(Names, Domains)

VARIABLES w,            \* the widget and the store it shows
          due,          \* the zero-interval commit timer is running
          snap,         \* a snapshot of the undo history
          disk,         \* the chart or layout file (one is written at most)
          ops

vars == <<w, due, snap, disk, ops>>

\* Finite maps: of one entry, one over another, one entry more, and the value
\* at a key or a default.
Only(k, v) == [j \in {k} |-> v]
Over(f, g) == [k \in DOMAIN f \cup DOMAIN g |-> IF k \in DOMAIN f THEN f[k] ELSE g[k]]
Put(f, k, v) == Over(Only(k, v), f)
Get(f, k, v) == IF k \in DOMAIN f THEN f[k] ELSE v
Least(i, j) == IF i <= j THEN i ELSE j
Empty == <<>>

----------------------------------------------------------------------------
(* The private methods.                                                    *)

\* activeDomain(): the XY view has the domain of its X channel, and Time
\* when there is none.
activeDomain(u) == IF u.view = "xy" THEN Get(u.chans, u.x, "time") ELSE u.view

\* pickAxisForUnit(): the first axis whose label names the unit, else Y1.
pickAxisForUnit(u, n) ==
    LET hits == {i \in DOMAIN u.axes : u.axes[i] = Unit[n] /\ Unit[n] # NoUnit}
    IN  IF hits = {} THEN 1 ELSE CHOOSE i \in hits : \A j \in hits : i <= j

\* The channels the table lists in this view.
Listed(u) ==
    {n \in DOMAIN u.chans :
        IF u.view = "xy" THEN u.x \in DOMAIN u.chans /\ n # u.x /\ u.chans[n] = u.chans[u.x]
        ELSE u.chans[n] = u.view}

RowFromPending(u, n) == [vis |-> TRUE, axis |-> Get(u.pending, n, pickAxisForUnit(u, n))]

\* The row of n: its sticky state, else the axis a loaded layout asked for,
\* else the axis of its unit; everything is checked while nothing is sticky.
Row(u, n) ==
    LET r == IF n \in DOMAIN u.saved THEN u.saved[n] ELSE RowFromPending(u, n)
    IN  [vis |-> u.saved = Empty \/ r.vis, axis |-> Least(r.axis, Len(u.axes))]

rebuildTable(u) ==
    [u EXCEPT !.rows = [n \in Listed(u) |-> Row(u, n)],
              !.pending = [n \in DOMAIN u.pending \ (Listed(u) \ DOMAIN u.saved) |-> u.pending[n]]]

\* rebuildAxisCombos(): every combo keeps its index, or the last axis.
rebuildAxisCombos(u) ==
    [u EXCEPT !.rows = [n \in DOMAIN u.rows |-> [u.rows[n] EXCEPT !.axis = Least(@, Len(u.axes))]]]

\* activeChannels() and redrawForActiveChannels(): one trace per checked row,
\* on the axis of the row.
activeChannels(u) == {n \in DOMAIN u.rows : u.rows[n].vis}
redrawForActiveChannels(u) ==
    [u EXCEPT !.plotted = [n \in activeChannels(u) |-> u.rows[n].axis]]

\* rebuildXyXCombo(): the combo's own entry wins over xyChannel_, and both
\* become empty when the store does not hold it.
rebuildXyXCombo(u) ==
    LET prev == IF u.combo = NoName THEN u.x ELSE u.combo
        next == IF prev \in DOMAIN u.chans THEN prev ELSE NoName
    IN  [u EXCEPT !.combo = next, !.x = next]

clearAllPlottables(u) == [u EXCEPT !.plotted = Empty]

\* snapshotIntoDomain(): the axes on screen, and the sticky rows after the
\* table's widgets were copied into them.
snapshotIntoDomain(u, d) ==
    LET rows == Over(u.rows, u.saved)
    IN  [u EXCEPT !.saved = rows, !.by[d] = [axes |-> u.axes, rows |-> rows]]

\* applyFromDomain(): the axes of d replace the ones on screen; a domain
\* that has none yet starts with the first axis as it is.  `on' records
\* whose axes are on screen.
applyFromDomain(u, d) ==
    rebuildAxisCombos(
        [u EXCEPT !.axes = IF u.by[d].axes = Empty THEN <<u.axes[1]>> ELSE u.by[d].axes,
                  !.saved = u.by[d].rows,
                  !.on = d])

Refreshed(u) == redrawForActiveChannels(rebuildTable(u))

----------------------------------------------------------------------------
(* Layouts and their JSON text.                                            *)

\* The channels of one domain of a layout, with the axis of each.
LayoutChannels(u, d) ==
    [n \in {c \in DOMAIN u.chans : u.chans[c] = d} |->
        Get(u.by[d].rows, n, [vis |-> TRUE, axis |-> 1]).axis]

\* currentLayout(), of a widget whose active domain was just snapshot.
LayoutOf(u) ==
    [view |-> u.view, x |-> u.x,
     axesBy  |-> [d \in Domains |-> u.by[d].axes],
     chansBy |-> [d \in Domains |-> LayoutChannels(u, d)]]

\* layoutToJson(): the maps, and the flat lists of the view's domain for
\* readers of version 1 (an XY view counts as Time there).
layoutToJson(l) ==
    LET flat == IF l.view = "frequency" THEN "frequency" ELSE "time"
    IN  [view |-> l.view, x |-> l.x,
         axes |-> Get(l.axesBy, flat, Empty), chans |-> Get(l.chansBy, flat, Empty),
         axesBy |-> l.axesBy, chansBy |-> l.chansBy]

\* layoutFromJson(): flat lists without the maps are the Time domain's.
layoutFromJson(j) ==
    [view |-> j.view, x |-> j.x,
     axesBy  |-> IF j.axesBy = Empty /\ j.axes # Empty THEN Only("time", j.axes) ELSE j.axesBy,
     chansBy |-> IF j.chansBy = Empty /\ j.chans # Empty THEN Only("time", j.chans) ELSE j.chansBy]

\* A file of version 1 has the flat lists only.
VersionOne(j) == [j EXCEPT !.axesBy = Empty, !.chansBy = Empty]

\* restrictedToDomain(): one domain, and the XY view only with its X channel.
restrictedToDomain(l, d) ==
    LET keepXy == l.view = "xy" /\ l.x \in DOMAIN Get(l.chansBy, d, Empty)
    IN  [view |-> IF keepXy THEN "xy" ELSE d, x |-> IF keepXy THEN l.x ELSE NoName,
         axesBy |-> Only(d, Get(l.axesBy, d, Empty)), chansBy |-> Only(d, Get(l.chansBy, d, Empty))]

\* stripLayout(): no axes, every channel on the first one, the Time view.
stripLayout(l) ==
    [view |-> "time", x |-> NoName, axesBy |-> Empty,
     chansBy |-> [d \in DOMAIN l.chansBy |-> [n \in DOMAIN l.chansBy[d] |-> 1]]]

\* remapLayoutChannelNames(): the names the channels got in the store.
remapLayoutChannelNames(l, renamed) ==
    LET New(n) == Get(renamed, n, n)
        Moved(f) == [m \in {New(n) : n \in DOMAIN f} |-> f[CHOOSE n \in DOMAIN f : New(n) = m]]
    IN  [l EXCEPT !.x = New(@), !.chansBy = [d \in DOMAIN @ |-> Moved(@[d])]]

ReplaceKeepsAxes(st, axes, chans) ==
    [axes |-> IF st.axes = Empty THEN axes ELSE st.axes,
     rows |-> [n \in DOMAIN chans |-> [vis |-> TRUE, axis |-> chans[n]]]]

\* applyLayout(Replace): a domain becomes what the layout says of it.
ReplaceDomain(st, axes, chans) ==
    [axes |-> axes, rows |-> [n \in DOMAIN chans |-> [vis |-> TRUE, axis |-> chans[n]]]]

MergeWithoutRemap(st, axes, chans) ==
    [axes |-> st.axes \o SelectSeq(axes, LAMBDA a : a \notin {st.axes[i] : i \in DOMAIN st.axes}),
     rows |-> Over([n \in DOMAIN chans |-> [vis |-> TRUE, axis |-> chans[n]]], st.rows)]

\* Each incoming axis in turn is the existing one with its label, or is appended.
Appended(have, a) == IF \E i \in DOMAIN have : have[i] = a THEN have ELSE Append(have, a)
MergedAxes(have, axes) ==
    LET merged[i \in 0 .. Len(axes)] ==
            IF i = 0 THEN have ELSE Appended(merged[i - 1], axes[i])
    IN  merged[Len(axes)]

\* applyLayout(Merge): the axes are merged, and the incoming indices follow.
MergeDomain(st, axes, chans) ==
    LET merged == MergedAxes(st.axes, axes)
        Remap(i) == IF i \in DOMAIN axes
                    THEN CHOOSE j \in DOMAIN merged : /\ merged[j] = axes[i]
                                                      /\ \A k \in 1 .. j - 1 : merged[k] # axes[i]
                    ELSE 1
    IN  [axes |-> merged,
         rows |-> Over([n \in DOMAIN chans |-> [vis |-> TRUE, axis |-> Remap(chans[n])]], st.rows)]

Hydrated(u, l, Load(_, _, _)) ==
    [u EXCEPT !.by = [d \in Domains |->
                        Load(@[d], Get(l.axesBy, d, Empty), Get(l.chansBy, d, Empty))]]

AllLayoutChans(l) == UNION {{<<n, l.chansBy[d][n]>> : n \in DOMAIN l.chansBy[d]} : d \in DOMAIN l.chansBy}

\* pendingAssignments_: the channels of the layout the store does not hold.
Pending(u, l) ==
    LET late == {p \in AllLayoutChans(l) : p[1] \notin DOMAIN u.chans}
    IN  [n \in {p[1] : p \in late} |-> (CHOOSE p \in late : p[1] = n)[2]]

\* The rest of applyLayout(): view, X channel, then the axes and the table.
Applied(u, l) ==
    LET shown == [u EXCEPT !.pending = Pending(u, l), !.view = l.view, !.x = l.x]
        chosen == IF l.view = "xy" THEN rebuildXyXCombo(shown) ELSE shown
    IN  Refreshed(applyFromDomain(clearAllPlottables(chosen), activeDomain(chosen)))

ApplyReplacing(u, l) == Applied(Hydrated(u, l, ReplaceDomain), l)
ApplyMerging(u, l) ==
    Applied(Hydrated(snapshotIntoDomain(u, activeDomain(u)), l, MergeDomain), l)

----------------------------------------------------------------------------
(* The handlers of the store's signals.                                    *)

onChannelAdded(u) == Refreshed(rebuildXyXCombo(u))

onChannelRemoved(u, n) ==
    LET dropped == [u EXCEPT !.plotted = [c \in DOMAIN @ \ {n} |-> @[c]],
                             !.x = IF @ = n THEN NoName ELSE @]
    IN  Refreshed(rebuildXyXCombo(dropped))

\* SignalStore::add(): the store holds the new signal before it announces
\* the removal of the one it replaced.
StoreAdd(u, n, d) ==
    LET held == [u EXCEPT !.chans = Put(@, n, d)]
    IN  onChannelAdded(IF n \in DOMAIN u.chans THEN onChannelRemoved(held, n) ELSE held)

StoreRemove(u, n) ==
    onChannelRemoved([u EXCEPT !.chans = [c \in DOMAIN @ \ {n} |-> @[c]]], n)

\* A loop over the channels of a map or a set takes them in the store's order.
StoreAddAll(u, chans) ==
    LET after[i \in 0 .. Len(Order)] ==
            IF i = 0 THEN u
            ELSE IF Order[i] \in DOMAIN chans THEN StoreAdd(after[i - 1], Order[i], chans[Order[i]])
            ELSE after[i - 1]
    IN  after[Len(Order)]
StoreRemoveAll(u, S) ==
    LET after[i \in 0 .. Len(Order)] ==
            IF i = 0 THEN u
            ELSE IF Order[i] \in S THEN StoreRemove(after[i - 1], Order[i])
            ELSE after[i - 1]
    IN  after[Len(Order)]

\* remapLocalChannelNames(): every copy of the widget's state is re-keyed.
Rekeyed(f, from, to) ==
    IF from \in DOMAIN f THEN Put([n \in DOMAIN f \ {from} |-> f[n]], to, f[from]) ELSE f
remapLocalChannelNames(u, from, to) ==
    [u EXCEPT !.saved = Rekeyed(@, from, to), !.pending = Rekeyed(@, from, to),
              !.plotted = Rekeyed(@, from, to), !.x = IF @ = from THEN to ELSE @,
              !.by = [d \in Domains |-> [axes |-> @[d].axes, rows |-> Rekeyed(@[d].rows, from, to)]]]

RekeyStore(u, from, to) ==
    [u EXCEPT !.chans = [n \in (DOMAIN @ \ {from}) \cup {to} |-> @[IF n = to THEN from ELSE n]]]

----------------------------------------------------------------------------
(* What is read from the widget: undo snapshots and exported pages.        *)

\* captureState(); like every reader it refreshes the active domain first.
captureState(u) ==
    LET s == snapshotIntoDomain(u, activeDomain(u)) IN [layout |-> LayoutOf(s), chans |-> s.chans]

\* restoreState(): the store becomes the snapshot's, then its layout is
\* applied over whatever is there.
restoreState(u, s) ==
    LET kept == StoreRemoveAll(u, DOMAIN u.chans \ DOMAIN s.chans)
    IN  ApplyReplacing(StoreAddAll(kept, s.chans), s.layout)

\* Plausible slip: the snapshot of the active domain is not freshened first.
ExportStale(u, sampled) ==
    [d \in Domains |->
        LET axes == IF u.by[d].axes = Empty THEN <<Y1>> ELSE u.by[d].axes
        IN  [axes |-> axes,
             chans |-> [n \in {c \in sampled : u.chans[c] = d} |->
                          LET r == Get(u.by[d].rows, n, [vis |-> TRUE, axis |-> 1])
                          IN  [visible |-> r.vis, axisIndex |-> Least(r.axis, Len(axes))]]]]

\* htmlExportView(): the page's axes and channels, per domain.  Of the store's
\* channels only those that have samples are on the page.
htmlExportView(u, sampled) ==
    LET s == snapshotIntoDomain(u, activeDomain(u))
        axesOf(d) == IF s.by[d].axes = Empty THEN <<Y1>> ELSE s.by[d].axes
    IN  [d \in Domains |->
            [axes |-> axesOf(d),
             chans |-> [n \in {c \in sampled : s.chans[c] = d} |->
                          LET r == Get(s.by[d].rows, n, [vis |-> TRUE, axis |-> 1])
                          IN  [visible |-> r.vis, axisIndex |-> Least(r.axis, Len(axesOf(d)))]]]]

----------------------------------------------------------------------------
NoRows == [axes |-> Empty, rows |-> Empty]
Blank == [chans |-> Empty, view |-> "time", x |-> NoName, combo |-> NoName, axes |-> <<Y1>>,
          saved |-> Empty, by |-> [d \in Domains |-> NoRows], pending |-> Empty,
          rows |-> Empty, plotted |-> Empty, on |-> "time"]
NoFile == [chans |-> Empty, json |-> layoutToJson(LayoutOf(Blank))]

\* The constructor lists the store and seeds the undo history with it.
Init == /\ \E chans \in Stores :
              LET u == Refreshed(rebuildXyXCombo([Blank EXCEPT !.chans = chans]))
              IN  w = snapshotIntoDomain(u, "time") /\ snap = captureState(u)
        /\ due = FALSE /\ disk = NoFile /\ ops = 0

\* A user operation that edits the document: the commit timer is started.
Edit(u) == /\ ops < MaxOps /\ ops' = ops + 1
           /\ w' = u /\ due' = TRUE /\ UNCHANGED <<snap, disk>>

AddChannel(n, d) == d \in Kinds[n] /\ Edit(StoreAdd(w, n, d))
RemoveChannel(n) == n \in DOMAIN w.chans /\ Edit(StoreRemove(w, n))
RenameChannel(from, to) ==
    /\ from \in DOMAIN w.chans /\ to \notin DOMAIN w.chans
    /\ w.chans[from] \in Kinds[to]
    /\ Edit(Refreshed(rebuildXyXCombo(remapLocalChannelNames(RekeyStore(w, from, to), from, to))))

SnapshotIntoNewDomain(old, u) ==
    LET bare == clearAllPlottables(u)
    IN  Refreshed(IF old # activeDomain(u)
                  THEN applyFromDomain(snapshotIntoDomain(bare, activeDomain(u)), activeDomain(u))
                  ELSE bare)

\* The common part of the View and the X combo: when the domain changes, the
\* axes and rows of the old one are put away and the new one's taken out.
SwapDomain(old, u) ==
    LET bare == clearAllPlottables(u)
    IN  Refreshed(IF old # activeDomain(u)
                  THEN applyFromDomain(snapshotIntoDomain(bare, old), activeDomain(u))
                  ELSE bare)

SetView(v) ==
    LET u == [w EXCEPT !.view = v]
    IN  v # w.view /\ Edit(SwapDomain(activeDomain(w), IF v = "xy" THEN rebuildXyXCombo(u) ELSE u))

PickX(n) == /\ w.view = "xy" /\ n # w.combo /\ n \in DOMAIN w.chans \cup {NoName}
            /\ Edit(SwapDomain(activeDomain(w), [w EXCEPT !.x = n, !.combo = n]))

\* The axes are edited in the plot; yAxesChanged() refreshes the combos.
AddAxis(label) == /\ Len(w.axes) < MaxAxes
                  /\ Edit(rebuildAxisCombos([w EXCEPT !.axes = Append(@, label)]))
RenameAxis(i, label) == w.axes[i] # label /\ Edit([w EXCEPT !.axes[i] = label])

\* Only graphs hold an axis back; the curve of an XY view loses it (0).
RemoveAxis(i) ==
    /\ i # 1 /\ (w.view = "xy" \/ \A n \in DOMAIN w.plotted : w.plotted[n] # i)
    /\ Edit(rebuildAxisCombos(
               [w EXCEPT !.axes = RemoveAt(@, i),
                         !.plotted = [n \in DOMAIN @ |-> IF @[n] = i THEN 0
                                                         ELSE IF @[n] > i THEN @[n] - 1 ELSE @[n]]]))

\* onAxisComboChanged(): a row without sticky state gets a default pair,
\* whose visibility is false.
onAxisComboChanged(n, i) ==
    /\ n \in DOMAIN w.rows /\ i \in DOMAIN w.axes /\ w.rows[n].axis # i
    /\ Edit([w EXCEPT !.rows[n].axis = i,
                      !.saved = Put(@, n, [Get(@, n, [vis |-> FALSE, axis |-> 1]) EXCEPT !.axis = i]),
                      !.plotted = [c \in DOMAIN @ |-> IF c = n THEN i ELSE @[c]]])

\* onVisibilityChanged(): not a document edit, so no commit.
onVisibilityChanged(n) ==
    LET vis == ~w.rows[n].vis
    IN  /\ n \in DOMAIN w.rows /\ ops < MaxOps /\ ops' = ops + 1
        /\ w' = redrawForActiveChannels(
                  [w EXCEPT !.rows[n].vis = vis,
                            !.saved = Put(@, n, [Get(@, n, [vis |-> FALSE, axis |-> 1]) EXCEPT !.vis = vis])])
        /\ UNCHANGED <<due, snap, disk>>

\* The timer: undo_->commit() captures the document; any captured document
\* may later be the one undo or redo restores.
Commit == /\ due /\ due' = FALSE
          /\ w' = snapshotIntoDomain(w, activeDomain(w))
          /\ snap' \in {snap, captureState(w)}
          /\ UNCHANGED <<disk, ops>>

Undo == /\ ops < MaxOps /\ ops' = ops + 1
        /\ w' = restoreState(w, snap) /\ UNCHANGED <<due, snap, disk>>

Write(chans, l) == /\ disk = NoFile /\ ops < MaxOps /\ ops' = ops + 1
                   /\ w' = snapshotIntoDomain(w, activeDomain(w))
                   /\ disk' = [chans |-> chans, json |-> l]
                   /\ UNCHANGED <<due, snap>>

\* saveLayoutDialog(), and the same file as version 1 of the program wrote it.
SaveLayout == LET l == layoutToJson(captureState(w).layout)
              IN  Write(Empty, l) \/ Write(Empty, VersionOne(l))

\* saveChartDialog(): the channels with the layout embedded, without it, or
\* one domain only.  The channels saved are taken to have samples: one that has
\* none stays in the layout and is left out of the file.
SaveChart ==
    LET l == captureState(w).layout
        Of(d) == [n \in {c \in DOMAIN w.chans : w.chans[c] = d} |-> d]
    IN  /\ w.chans # Empty
        /\ \/ Write(w.chans, layoutToJson(l))
           \/ Write(w.chans, layoutToJson(stripLayout(l)))
           \/ \E d \in Domains : Of(d) # Empty /\ Write(Of(d), layoutToJson(restrictedToDomain(l, d)))

LoadLayout == Edit(ApplyReplacing(w, layoutFromJson(disk.json)))

uniqueStoreName(n) == IF n \in DOMAIN w.chans THEN CopyOf[n] ELSE n
Renamed == [n \in DOMAIN disk.chans |-> uniqueStoreName(n)]

\* openChartDialog(): the channels under free names, then the layout merged.
OpenChart ==
    LET names == {Renamed[n] : n \in DOMAIN disk.chans}
        fresh == [m \in names |-> disk.chans[CHOOSE n \in DOMAIN disk.chans : Renamed[n] = m]]
    IN  /\ disk.chans # Empty
        /\ names \cap DOMAIN w.chans = {}
        /\ \A n, m \in DOMAIN disk.chans : Renamed[n] = Renamed[m] => n = m
        /\ Edit(ApplyMerging(StoreAddAll(w, fresh),
                             remapLayoutChannelNames(layoutFromJson(disk.json), Renamed)))

Next ==
    \/ \E n \in Names : \/ \E d \in Domains : AddChannel(n, d)
                        \/ RemoveChannel(n) \/ onVisibilityChanged(n)
                        \/ \E m \in Names : RenameChannel(n, m)
                        \/ \E i \in 1 .. MaxAxes : onAxisComboChanged(n, i)
    \/ \E v \in Views : SetView(v)
    \/ \E n \in Names \cup {NoName} : PickX(n)
    \/ \E l \in Labels : AddAxis(l) \/ \E i \in DOMAIN w.axes : RenameAxis(i, l)
    \/ \E i \in DOMAIN w.axes : RemoveAxis(i)
    \/ Commit \/ Undo \/ SaveLayout \/ SaveChart \/ LoadLayout \/ OpenChart

Spec == Init /\ [][Next]_vars

----------------------------------------------------------------------------
(* What the steps keep.                                                    *)

\* The table lists the channels of the view, each on an axis of the plot; the
\* chart draws the checked rows; the X combo holds a channel of the store, which
\* is the X channel in the XY view.
TableSound(u) == /\ DOMAIN u.rows = Listed(u)
                 /\ \A n \in DOMAIN u.rows : u.rows[n].axis \in DOMAIN u.axes
                 /\ DOMAIN u.plotted = activeChannels(u)
ComboSound(u) == /\ u.combo \in DOMAIN u.chans \cup {NoName}
                 /\ u.view = "xy" => u.x = u.combo

\* Every row has its place in the sticky copy.
Settled(u) == \A n \in DOMAIN u.rows : /\ n \in DOMAIN u.saved
                                       /\ u.rows[n].axis = Least(u.saved[n].axis, Len(u.axes))

ChannelsOf(chans, d) == {n \in DOMAIN chans : chans[n] = d}

\* A snapshot places every channel it holds, in its own domain.
SnapshotWhole == /\ DOMAIN snap.layout.axesBy = Domains /\ DOMAIN snap.layout.chansBy = Domains
                 /\ \A d \in Domains : DOMAIN snap.layout.chansBy[d] = ChannelsOf(snap.chans, d)

\* A file's flat lists repeat its maps; a chart places no channels but its own,
\* each in its domain; and a file of one domain has a view that shows it.
FileWhole ==
    LET j == disk.json
        flat == IF j.view = "frequency" THEN "frequency" ELSE "time"
    IN  /\ j.axesBy # Empty => /\ j.axes = Get(j.axesBy, flat, Empty)
                               /\ j.chans = Get(j.chansBy, flat, Empty)
        /\ (j.axesBy = Empty /\ j.chansBy # Empty) => j.axes = Empty
        /\ disk.chans # Empty =>
              /\ j.chansBy # Empty
              /\ \A d \in DOMAIN j.chansBy : DOMAIN j.chansBy[d] \subseteq ChannelsOf(disk.chans, d)
        /\ \A d \in Domains : (disk.chans # Empty /\ DOMAIN j.axesBy = {d}) =>
              j.view = d \/ (j.view = "xy" /\ j.x \in ChannelsOf(disk.chans, d))

ViewsInv == /\ TableSound(w) /\ ComboSound(w) /\ (~due => Settled(w))
            /\ SnapshotWhole /\ FileWhole

----------------------------------------------------------------------------
(* Properties.                                                             *)

\* The document: the axes of each domain, wherever they are kept, and the
\* label of the axis each channel of the store is on.
AxesOf(u, d) == IF d = u.on THEN u.axes ELSE u.by[d].axes
AxisOf(u, d, n) ==
    LET fresh == [vis |-> TRUE, axis |-> 1]
    IN  IF d # u.on THEN Get(u.by[d].rows, n, fresh).axis
        ELSE IF n \in DOMAIN u.rows THEN u.rows[n].axis ELSE Get(u.saved, n, fresh).axis
LabelOn(axes, i) == IF axes = Empty THEN Y1 ELSE axes[Least(i, Len(axes))]
LabelOf(u, d, n) == LabelOn(AxesOf(u, d), AxisOf(u, d, n))
Visited(u, d) == AxesOf(u, d) # Empty

\* A channel of domain d with a place: a row on screen or a sticky one.
Placed(u, d) ==
    {n \in DOMAIN u.chans : /\ u.chans[n] = d
                            /\ n \in IF d = u.on THEN DOMAIN u.rows \cup DOMAIN u.saved
                                                  ELSE DOMAIN u.by[d].rows}

\* The axes on screen belong to the domain the view shows.
InStep(u) == u.on = activeDomain(u)

\* The table, the chart and an exported page agree.  Every row is of a channel of
\* the store and names an axis on screen; the X channel's combo holds a channel
\* of the store; the chart draws exactly the checked rows (every handler that
\* changes the table reaches redrawForActiveChannels()); and a page has the
\* table's axes and, whichever channels have samples, shows exactly those rows,
\* each as the table does (htmlExportView() freshens the snapshot first).
ScreenAgrees ==
    /\ DOMAIN w.rows \subseteq DOMAIN w.chans
    /\ \A n \in DOMAIN w.rows : w.rows[n].axis \in DOMAIN w.axes
    /\ w.combo \in DOMAIN w.chans \cup {NoName}
    /\ DOMAIN w.plotted = activeChannels(w)
    /\ \A sampled \in SUBSET DOMAIN w.chans :
          LET page == htmlExportView(w, sampled)[activeDomain(w)]
          IN  /\ page.axes = w.axes
              /\ DOMAIN w.rows \cap DOMAIN page.chans = DOMAIN w.rows \cap sampled
              /\ \A n \in DOMAIN w.rows \cap sampled :
                    /\ page.chans[n].visible = w.rows[n].vis
                    /\ page.chans[n].axisIndex = w.rows[n].axis

\* Looking at the document does not change it: switching the view or the X
\* channel, hiding a channel, and adding or removing another one keep the axes
\* of both domains and the axis of every channel that was there, once the
\* commit timer of the edit before has fired.
DocumentKept ==
    [][(/\ InStep(w) /\ ~due
        /\ \/ \E v \in Views : SetView(v)
           \/ \E n \in Names \cup {NoName} : PickX(n)
           \/ \E n \in Names : \/ onVisibilityChanged(n) \/ RemoveChannel(n)
                               \/ \E d \in Domains : AddChannel(n, d))
       => \A d \in Domains : Visited(w, d) =>
             /\ AxesOf(w', d) = AxesOf(w, d)
             /\ \A n \in Placed(w, d) : Get(w'.chans, n, "") = d
                                         => LabelOf(w', d, n) = LabelOf(w, d, n)]_vars

\* Opening a chart next to another leaves the channels that were there on
\* their axes, once the commit timer of the edit before has fired (a row that was
\* never put away is dealt again by its unit), and puts the opened ones on the
\* axes the file names.
MergeKeepsPlacement ==
    OpenChart =>
         LET l == layoutFromJson(disk.json)
         IN  /\ (InStep(w) /\ ~due) =>
                   \A d \in Domains : \A n \in Placed(w, d) :
                      AxisOf(w, d, n) \in DOMAIN AxesOf(w, d)
                        => LabelOf(w', d, n) = LabelOf(w, d, n)
             /\ \A d \in DOMAIN l.axesBy : \A n \in DOMAIN Get(l.chansBy, d, Empty) :
                   (n \in DOMAIN disk.chans /\ l.chansBy[d][n] \in DOMAIN l.axesBy[d])
                     => LabelOf(w', d, Renamed[n]) = l.axesBy[d][l.chansBy[d][n]]

\* A layout file gives back what it was written from, also when version 1
\* wrote it: every channel it lists is on the axis it names.
LoadHonoursFile ==
    LoadLayout =>
         LET j == disk.json
             flat == IF j.view = "frequency" /\ j.axesBy # Empty THEN "frequency" ELSE "time"
         IN  \A n \in DOMAIN j.chans :
               j.chans[n] \in DOMAIN j.axes => LabelOf(w', flat, n) = j.axes[j.chans[n]]

\* A file saved for one domain alone opens in a view that can show it, unless
\* an X channel chosen before, in the combo or by a layout, wins over the X
\* channel of the file.
SplitFileShowsItsDomain ==
    \A d \in Domains :
        (OpenChart /\ w.combo = NoName /\ w.x = NoName /\ DOMAIN disk.json.axesBy = {d})
            => activeDomain(w') = d

\* A file is honoured: merged next to other channels, loaded as a layout, or
\* written for one domain alone.
FileAxesHonoured ==
    [][MergeKeepsPlacement /\ LoadHonoursFile /\ SplitFileShowsItsDomain]_vars

\* Undo and redo put back the channels, the view, the axes of each domain and
\* the axis of every channel.  (Not the X channel of an XY view: the X combo's
\* own entry wins over the snapshot's.)
UndoRestoresDocument ==
    [][Undo =>
         /\ w'.view = snap.layout.view /\ w'.chans = snap.chans
         /\ snap.layout.view # "xy" => w'.x = snap.layout.x
         /\ \A d \in Domains : snap.layout.axesBy[d] # Empty =>
               /\ AxesOf(w', d) = snap.layout.axesBy[d]
               /\ \A n \in DOMAIN snap.layout.chansBy[d] :
                     LabelOf(w', d, n) = LabelOn(snap.layout.axesBy[d], snap.layout.chansBy[d][n])]_vars

\* What the comment on the per-domain machinery says (AnalyserPlot.h:124): each
\* domain has its own axes, so the axes on screen, which the next snapshot puts
\* away, are always those of the domain the view shows.
EachDomainKeepsItsAxes == w.on = activeDomain(w)
=============================================================================
