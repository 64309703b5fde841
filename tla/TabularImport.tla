---------------------------- MODULE TabularImport ----------------------------
(***************************************************************************)
(* The Converter's import: a file opened for mapping becomes a grid of     *)
(* cells (CsvSource, JsonSource), a profile says which column is what      *)
(* (ConverterProfile.cpp detects, saves and loads it, the mapping panel    *)
(* edits it) and TabularSource::apply turns the two into channels.         *)
(*                                                                         *)
(* Rows and columns are numbered from 0 in the code; here a column is its  *)
(* 1-based index and a row keeps its 0-based number (Row(g, r)).  A sample *)
(* rate is kept as its period dt in nanoseconds, 0 for a rate of 0.        *)
(***************************************************************************)
EXTENDS ChartFiles

CONSTANTS Edits,        \* what is changed in the channel dialog: [role, change]
          Additions,    \* the channels that may be added: [col, role, name, unit]
          Delimiters,   \* what the delimiter box offers
          HeaderRows,   \* what the header-row box may be set to
          MaxColumns,   \* bound on the rows of the panel that are edited
          RateDefault   \* the period the dialog starts with (1 ms)

VARIABLES panel,       \* the active file or NoPanel: its path and grid, the profile
                       \* stored with it and the one the mapping panel shows
          profileFile, \* the .scaconv file on disk, as JSON, or NoProfile
          imported,    \* channels of the last Apply that produced any
          applyError,  \* the message of the last Apply
          due          \* the 0 ms commit timer is running

importVars == <<panel, profileFile, imported, applyError, due>>
allVars == <<fileVars, importVars, edits>>

NoPanel == [path |-> "none"]
NoProfile == [columns |-> <<>>, headerRow |-> 0]

Column(col, role, name, unit, xSource) ==
    [col |-> col, role |-> role, name |-> name, unit |-> unit, xSource |-> xSource,
     rowStart |-> -1, rowEnd |-> -1, useRate |-> FALSE, dt |-> 0, reset |-> FALSE,
     offset |-> 0, dup |-> "None", plateau |-> "None"]
Profile(header, sep, columns) ==
    [headerRow |-> header, sep |-> sep, useRate |-> FALSE, dt |-> 0, columns |-> columns]
EmptyProfile == Profile(1, ",", <<>>)

XRoles == {"XTime", "XFrequency"}
XRole(domain) == IF domain = "frequency" THEN "XFrequency" ELSE "XTime"

-----------------------------------------------------------------------------
(* Sources *)

TextRow(n) == [i \in 1..n |-> Text]
Row(g, r) == g[r + 1]

\* A line split at the wrong delimiter is one cell of text.
CsvSource(f, sep) ==
    LET lines == IF f.kind = "scope" /\ f.header # <<>>
                 THEN <<TextRow(Len(f.header))>> \o f.rows ELSE f.rows
    IN  IF sep = f.sep THEN lines ELSE [i \in DOMAIN lines |-> <<Text>>]

\* null (a NaN sample) becomes an empty cell; a short column is padded.
JsonSource(f) ==
    IF f.kind = "scope"
    THEN <<TextRow(2 * Len(f.signals))>>
         \o [r \in 1..Max({Len(c.x) : c \in Range(f.signals)}) |->
                FlattenSeq([k \in DOMAIN f.signals |->
                    IF r <= Len(f.signals[k].x)
                    THEN <<f.signals[k].x[r], Cell(f.signals[k].v[r])>>
                    ELSE <<Blank, Blank>>])]
    ELSE LET keys == SetToSeq(UNION {DOMAIN rec : rec \in Range(f.records)})
         IN  <<TextRow(Len(keys))>>
             \o [r \in DOMAIN f.records |-> [i \in DOMAIN keys |->
                    IF keys[i] \in DOMAIN f.records[r] THEN Cell(f.records[r][keys[i]])
                                                       ELSE Blank]]

Source(f, sep) == IF f.fmt = "json" THEN JsonSource(f) ELSE CsvSource(f, sep)

-----------------------------------------------------------------------------
(* Profiles *)

\* Roles and modes as the words of the metadata line and of a .scaconv file;
\* a word that is not known reads as Ignore or None.
RoleWord == [XTime |-> "x_time", XFrequency |-> "x_frequency",
             Signal |-> "signal", Ignore |-> "ignore"]
DupWord == [First |-> "first", Last |-> "last", Mean |-> "mean", None |-> "none"]
PlateauWord == [KeepFirst |-> "first", KeepLast |-> "last", None |-> "none"]
FromWord(words, w, default) ==
    IF w \in Range(words) THEN CHOOSE r \in DOMAIN words : words[r] = w ELSE default

\* Each signal names its X column; the metadata line always implies ",".
profileFromScopeMetadata(f) ==
    Profile(1, ",", [i \in DOMAIN f.meta |->
        Column(i, FromWord(RoleWord, f.meta[i].role, "Ignore"), f.meta[i].name, f.meta[i].unit, f.meta[i].refX)])

profileFromScopeJson(f) ==
    Profile(1, ",", FlattenSeq([k \in DOMAIN f.signals |->
        LET c == f.signals[k] IN
        <<Column(2 * k - 1, XRole(c.domain), "",
                 IF c.domain = "frequency" THEN "Hz" ELSE "ns", 0),
          Column(2 * k, "Signal", c.name, c.unit, 2 * k - 1)>>]))

\* Every X column of the header once, then each signal pinned to its X.
profileFromCsvHeader(f) ==
    LET targets == HeaderTargets(f.header)
        NewX(k) == \A j \in 1..(k - 1) : targets[j].tCol # targets[k].tCol
    IN  Profile(1, f.sep, FlattenSeq([k \in DOMAIN targets |->
            (IF NewX(k) THEN <<Column(targets[k].tCol, XRole(targets[k].domain), "",
                                      targets[k].xUnit, 0)>> ELSE <<>>)
            \o <<Column(targets[k].vCol, "Signal", targets[k].name, targets[k].unit,
                        targets[k].tCol)>>]))

\* Both columns of a TwinCAT channel are pinned to the first data row.
profileFromTwinCatScope(f) ==
    LET start == TwinCatDataStart(f) - 1
        chans == detectTwinCatScopeCsv(f)
    IN  Profile(start, f.sep, FlattenSeq([k \in DOMAIN chans |->
            <<[Column(chans[k].tCol, "XTime", "", "ms", 0) EXCEPT !.rowStart = start],
              [Column(chans[k].vCol, "Signal", chans[k].name, chans[k].unit,
                      chans[k].tCol) EXCEPT !.rowStart = start]>>]))

\* The detectors the panel offers for a CSV; a CSV with metadata prefers it.
Detected(f) ==
    IF f.fmt = "json"
    THEN IF f.kind = "scope" THEN profileFromScopeJson(f) ELSE EmptyProfile
    ELSE IF f.kind = "twincat" THEN profileFromTwinCatScope(f)
    ELSE IF f.meta # <<>> THEN profileFromScopeMetadata(f)
    ELSE profileFromCsvHeader(f)

saveToFile(p) == [p EXCEPT !.columns = [k \in DOMAIN @ |->
    [@[k] EXCEPT !.role = RoleWord[@], !.dup = DupWord[@], !.plateau = PlateauWord[@]]]]
loadFromFile(j) == [j EXCEPT !.columns = [k \in DOMAIN @ |->
    [@[k] EXCEPT !.role = FromWord(RoleWord, @, "Ignore"),
                 !.dup = FromWord(DupWord, @, "None"),
                 !.plateau = FromWord(PlateauWord, @, "None")]]]

-----------------------------------------------------------------------------
(* TabularSource::apply *)

XColumns(p) == SelectSeq(p.columns, LAMBDA c : c.role \in XRoles)
YColumns(p) == SelectSeq(p.columns, LAMBDA c : c.role = "Signal")
firstXLabel(p) == IF XColumns(p) = <<>> THEN 0 ELSE XColumns(p)[1].col

\* Time and frequency X columns together: every signal must name its own.
Ambiguous(p) ==
    /\ XRoles \subseteq {c.role : c \in Range(XColumns(p))}
    /\ \E y \in Range(YColumns(p)) : y.xSource = 0 /\ ~y.useRate

XLabel(p, y) == IF y.xSource # 0 THEN y.xSource ELSE firstXLabel(p)
Rated(p, y) == y.useRate \/ (XLabel(p, y) = 0 /\ p.useRate)
Resolved(p, y) == Rated(p, y) \/ \E c \in Range(XColumns(p)) : c.col = XLabel(p, y)
XColumnOf(p, y) == CHOOSE c \in Range(XColumns(p)) : c.col = XLabel(p, y)

resolveRange(m, p, g) ==
    [lo |-> Max({IF m.rowStart < 0 THEN Max({0, p.headerRow}) ELSE m.rowStart, 0}),
     hi |-> Min({IF m.rowEnd < 0 THEN Len(g) - 1 ELSE m.rowEnd, Len(g) - 1})]

tryVal(cell) == IF IsNumber(cell) THEN cell ELSE 0
XValue(cell, m) ==
    IF m.role = "XTime" /\ m.unit = "ns" THEN tryVal(cell) ELSE Trunc(tryVal(cell))

\* Plausible slip: a row with a blank X is taken at time 0.
SamplesWithBlanks(p, g, y, m) ==
    LET yr == resolveRange(y, p, g)
        rows == SelectSeq([i \in 1..Len(g) |-> i - 1], LAMBDA r :
                   /\ r >= yr.lo /\ r <= yr.hi
                   /\ y.col <= Len(Row(g, r)) /\ m.col <= Len(Row(g, r)))
    IN  [x |-> [i \in DOMAIN rows |-> XValue(Row(g, rows[i])[m.col], m)],
         v |-> [i \in DOMAIN rows |-> tryVal(Row(g, rows[i])[y.col])]]

\* The rows of signal y in X column m: where both ranges overlap, the row is
\* long enough and X is not blank.  A blank value is read as 0.
Samples(p, g, y, m) ==
    LET yr == resolveRange(y, p, g)
        xr == IF m.rowStart >= 0 \/ m.rowEnd >= 0 THEN resolveRange(m, p, g) ELSE yr
        rows == SelectSeq([i \in 1..Len(g) |-> i - 1], LAMBDA r :
                   /\ r >= Max({xr.lo, yr.lo}) /\ r <= Min({xr.hi, yr.hi})
                   /\ y.col <= Len(Row(g, r)) /\ m.col <= Len(Row(g, r))
                   /\ Row(g, r)[m.col] # Blank)
    IN  [x |-> [i \in DOMAIN rows |-> XValue(Row(g, rows[i])[m.col], m)],
         v |-> [i \in DOMAIN rows |-> tryVal(Row(g, rows[i])[y.col])]]

\* Without an X column the row number in the range gives the time.
RatedSamples(p, g, y) ==
    LET yr == resolveRange(y, p, g)
        dt == IF y.useRate THEN y.dt ELSE p.dt
        rows == SelectSeq([i \in 1..Len(g) |-> i - 1], LAMBDA r :
                   r >= yr.lo /\ r <= yr.hi /\ y.col <= Len(Row(g, r)))
    IN  [x |-> [i \in DOMAIN rows |-> (rows[i] - yr.lo) * dt],
         v |-> [i \in DOMAIN rows |-> tryVal(Row(g, rows[i])[y.col])]]

\* Reset to zero first, then the offset.
Shifted(s, y) ==
    LET t0 == IF y.reset /\ s.x # <<>> THEN s.x[1] ELSE 0
    IN  [s EXCEPT !.x = [i \in DOMAIN @ |-> @[i] - t0 + y.offset]]

\* First index of each run of equal neighbours, and the last of the run of i.
Heads(q) == SelectSeq([i \in DOMAIN q |-> i], LAMBDA i : i = 1 \/ q[i] # q[i - 1])
RunEnd(q, i) == Max({j \in i..Len(q) : \A k \in i..j : q[k] = q[i]})

collapseDuplicates(s, mode) ==
    LET heads == Heads(s.x)
        Value(i) == LET j == RunEnd(s.x, i) IN
            CASE mode = "First" -> s.v[i]
              [] mode = "Last"  -> s.v[j]
              [] mode = "Mean"  -> FoldLeft(+, 0, SubSeq(s.v, i, j)) \div (j - i + 1)
    IN  IF mode = "None" THEN s
        ELSE [x |-> [k \in DOMAIN heads |-> s.x[heads[k]]],
              v |-> [k \in DOMAIN heads |-> Value(heads[k])]]

\* Plausible slip: the head of the next run is kept with the old value.
collapseValuePlateausLate(s, mode) ==
    LET heads == Heads(s.v)
    IN  IF mode = "None" THEN s
        ELSE [x |-> [k \in DOMAIN heads |-> s.x[RunEnd(s.v, heads[k])]],
              v |-> [k \in DOMAIN heads |-> s.v[heads[k]]]]

collapseValuePlateaus(s, mode) ==
    LET heads == Heads(s.v)
    IN  IF mode = "None" THEN s
        ELSE [x |-> [k \in DOMAIN heads |->
                      IF mode = "KeepLast" THEN s.x[RunEnd(s.v, heads[k])]
                                       ELSE s.x[heads[k]]],
              v |-> [k \in DOMAIN heads |-> s.v[heads[k]]]]

Imported(p, g, y) ==
    LET rated == Rated(p, y)
        raw == IF rated THEN RatedSamples(p, g, y) ELSE Samples(p, g, y, XColumnOf(p, y))
        s == collapseValuePlateaus(
                 collapseDuplicates(Shifted(raw, y), y.dup), y.plateau)
    IN  FromColumns(y.name, y.unit,
            IF ~rated /\ XColumnOf(p, y).role = "XFrequency" THEN "frequency" ELSE "time",
            s.x, s.v)

\* A signal whose row range is empty is passed over.
ySpecs(p, g) == SelectSeq(YColumns(p), LAMBDA y :
                    resolveRange(y, p, g).lo <= resolveRange(y, p, g).hi)

\* Any signal without an X refuses the whole import.
refusal(p, g) ==
    IF YColumns(p) = <<>> THEN "noSignals"
    ELSE IF Ambiguous(p) THEN "mustPin"
    ELSE IF \E y \in Range(ySpecs(p, g)) : ~Resolved(p, y) THEN "noX" ELSE ""

apply(p, g) ==
    IF refusal(p, g) # "" THEN <<>>
    ELSE [k \in DOMAIN ySpecs(p, g) |-> Imported(p, g, ySpecs(p, g)[k])]

-----------------------------------------------------------------------------
(* The mapping panel and its channel dialog *)

\* What the panel keeps of a profile it is given: no profile-level rate.
buildProfile(p) == [p EXCEPT !.useRate = FALSE, !.dt = 0]

AvailableX(p, k) ==
    LET rows == SelectSeq([i \in DOMAIN p.columns |-> i],
                          LAMBDA i : i # k /\ p.columns[i].role \in XRoles)
    IN  [i \in DOMAIN rows |-> p.columns[rows[i]].col]
FirstOf(cols) == IF cols = <<>> THEN 0 ELSE cols[1]

\* Plausible slip: the X column box is left at its first entry.
setMappingAtFirst(m, avail) ==
    LET rated == m.useRate \/ (m.xSource = 0 /\ m.dt > 0)
    IN  [m EXCEPT !.useRate = rated, !.xSource = FirstOf(avail),
                  !.dt = IF rated /\ @ > 0 THEN @ ELSE RateDefault]
\* The dialog's widgets for column m; an X column it cannot find stays at the
\* first one on offer, and a rate of 0 leaves the default in the box.
setMapping(m, avail) ==
    LET rated == m.useRate \/ (m.xSource = 0 /\ m.dt > 0)
    IN  [m EXCEPT !.useRate = rated,
                  !.xSource = IF ~rated /\ @ \in Range(avail) THEN @ ELSE FirstOf(avail),
                  !.dt = IF rated /\ @ > 0 THEN @ ELSE RateDefault]

\* What OK takes from the widgets: a channel has either an X column or a rate,
\* and an X column has none of a channel's settings.
getMapping(w) ==
    IF w.role \in XRoles
    THEN [Column(w.col, w.role, w.name, w.unit, 0) EXCEPT !.rowStart = w.rowStart,
                                                          !.rowEnd = w.rowEnd]
    ELSE IF w.useRate THEN [w EXCEPT !.xSource = 0, !.reset = FALSE]
    ELSE [w EXCEPT !.dt = 0]

Overlay(w, change) == [f \in DOMAIN w |-> IF f \in DOMAIN change THEN change[f] ELSE w[f]]
\* OK refuses a row range that ends before it starts.
parseRowRange(w) == w.rowStart < 0 \/ w.rowEnd < 0 \/ w.rowStart <= w.rowEnd

-----------------------------------------------------------------------------
(* The window's handlers *)

Opened(path, profile) ==
    [path |-> path, profile |-> profile, shown |-> buildProfile(profile),
     grid |-> Source(disk[path], profile.sep)]

\* scheduleCommit(): starting the timer again while it runs changes nothing.
scheduleCommit == due' = TRUE

saveActiveState == panel' = [panel EXCEPT !.profile = panel.shown]

\* Plausible slip: the commit is taken without saveActiveState.
CommitWithoutFlush ==
    /\ due /\ due' = FALSE
    /\ UNCHANGED <<fileVars, panel, profileFile, imported, applyError, edits>>
\* The timer brings the stored profile up to date with the panel and takes
\* it into the undo history (whose walks are the subject of UndoStack).
CommitFires ==
    /\ due /\ due' = FALSE
    /\ saveActiveState
    /\ UNCHANGED <<fileVars, profileFile, imported, applyError, edits>>

\* Open: a CSV is pre-filled only from its metadata line, JSON when native.
openForMapping(path) ==
    LET f == disk[path]
        prefilled == f.fmt = "json" \/ (f.kind = "scope" /\ f.meta # <<>>)
    IN  /\ f.fmt \in {"csv", "json"}
        /\ panel = NoPanel /\ saves + edits < MaxWork
        /\ panel' = Opened(path, IF prefilled THEN Detected(f) ELSE EmptyProfile)
        /\ scheduleCommit
        /\ UNCHANGED <<fileVars, profileFile, imported, applyError, edits>>

\* Auto-detect replaces the mapping and parses the file again.
autoDetect ==
    /\ panel # NoPanel
    /\ LET f == disk[panel.path] IN
       /\ f.fmt = "csv"
       /\ f.kind = "scope" => f.meta \o f.header # <<>>
       /\ panel' = Opened(panel.path, Detected(f))
    /\ UNCHANGED <<fileVars, profileFile, imported, applyError, due, edits>>

PanelEdit(shown) ==
    /\ saves + edits < MaxWork
    /\ panel' = [panel EXCEPT !.shown = shown]
    /\ edits' = edits + 1
    /\ UNCHANGED <<fileVars, profileFile, imported, applyError>>

\* Adding, editing and removing a channel emit mappingChanged, so the timer
\* takes the edit into the stored profile.
mappingChanged(shown) == PanelEdit(shown) /\ scheduleCommit

onAddChannel(a) ==
    /\ panel # NoPanel
    /\ LET avail == AvailableX(panel.shown, 0)
           w == [Column(a.col, a.role, a.name, a.unit, FirstOf(avail)) EXCEPT
                    !.useRate = (avail = <<>>), !.dt = RateDefault]
       IN  mappingChanged([panel.shown EXCEPT !.columns = Append(@, getMapping(w))])

onEditChannel(k, e) ==
    /\ panel # NoPanel
    /\ k \in DOMAIN panel.shown.columns
    /\ panel.shown.columns[k].role = e.role
    /\ LET avail == AvailableX(panel.shown, k)
           w == Overlay(setMapping(panel.shown.columns[k], avail), e.change)
       IN  /\ parseRowRange(w)
           /\ "xSource" \in DOMAIN e.change => w.xSource \in Range(avail)
           /\ mappingChanged([panel.shown EXCEPT !.columns[k] = getMapping(w)])

onRemoveChannel(k) ==
    /\ panel # NoPanel
    /\ k \in DOMAIN panel.shown.columns
    /\ mappingChanged([panel.shown EXCEPT !.columns = RemoveAt(@, k)])

\* "Apply to all": every channel, rated ones too.  It emits nothing, so no
\* commit is scheduled.
bulkApply(relative, offset) ==
    /\ panel # NoPanel
    /\ PanelEdit([panel.shown EXCEPT !.columns = [k \in DOMAIN @ |->
          IF @[k].role = "Signal"
          THEN [@[k] EXCEPT !.reset = relative, !.offset = offset] ELSE @[k]]])
    /\ UNCHANGED due

\* The delimiter box or the header-row box.  Unless the stored profile already
\* has the delimiter shown, the file is parsed again and a commit scheduled;
\* otherwise the handler returns early and does neither.
ParseOptions == [sep : Delimiters] \union [headerRow : HeaderRows]
parseOptionsChanged(change) ==
    /\ panel # NoPanel /\ disk[panel.path].fmt = "csv"
    /\ LET shown == Overlay(panel.shown, change)
           grid == IF shown.sep = panel.profile.sep THEN panel.grid
                   ELSE CsvSource(disk[panel.path], shown.sep)
       IN  /\ shown # panel.shown /\ saves + edits < MaxWork
           /\ panel' = [panel EXCEPT !.shown = shown, !.grid = grid]
           /\ IF shown.sep = panel.profile.sep THEN UNCHANGED due ELSE scheduleCommit
    /\ edits' = edits + 1
    /\ UNCHANGED <<fileVars, profileFile, imported, applyError>>

saveProfile ==
    /\ panel # NoPanel /\ saves + edits < MaxWork
    /\ profileFile' = saveToFile(panel.shown)
    /\ edits' = edits + 1
    /\ UNCHANGED <<fileVars, panel, imported, applyError, due>>

\* Loading a profile parses a CSV again with its delimiter.
loadProfile ==
    /\ panel # NoPanel /\ profileFile # NoProfile
    /\ LET p == loadFromFile(profileFile)
           f == disk[panel.path]
       IN  panel' = [panel EXCEPT !.profile = p, !.shown = buildProfile(p),
                         !.grid = IF f.fmt = "csv" THEN CsvSource(f, p.sep) ELSE @]
    /\ UNCHANGED <<fileVars, profileFile, imported, applyError, due, edits>>

\* Apply stores what the panel shows; nothing is replaced when the import
\* produced nothing.
applyActive ==
    /\ panel # NoPanel
    /\ panel' = [panel EXCEPT !.profile = panel.shown]
    /\ LET sigs == apply(panel.shown, panel.grid)
           err == refusal(panel.shown, panel.grid)
       IN  /\ applyError' = IF sigs = <<>> /\ err = "" THEN "empty" ELSE err
           /\ imported' = IF sigs # <<>> THEN sigs ELSE imported
           /\ IF sigs # <<>> THEN scheduleCommit ELSE UNCHANGED due
    /\ UNCHANGED <<fileVars, profileFile, edits>>

ImportInit ==
    /\ panel = NoPanel /\ imported = <<>> /\ applyError = "" /\ due = FALSE

Init == ImportInit /\ \E s \in Sessions : FilesInit(s) /\ profileFile = s.profile

Next ==
    \/ panel = NoPanel /\ FilesNext /\ UNCHANGED <<importVars, edits>>
    \/ \E p \in Paths : openForMapping(p)
    \/ autoDetect
    \/ \E a \in Additions : onAddChannel(a)
    \/ \E k \in 1..MaxColumns, e \in Edits : onEditChannel(k, e)
    \/ \E k \in 1..MaxColumns : onRemoveChannel(k)
    \/ \E relative \in BOOLEAN : bulkApply(relative, 10)
    \/ \E change \in ParseOptions : parseOptionsChanged(change)
    \/ CommitFires
    \/ saveProfile
    \/ loadProfile
    \/ applyActive

Spec == Init /\ [][Next]_allVars

-----------------------------------------------------------------------------
(* Properties *)

TargetsOf(f) ==
    IF f.kind = "twincat" THEN detectTwinCatScopeCsv(f)
    ELSE IF f.meta # <<>> THEN MetaTargets(f.meta) ELSE HeaderTargets(f.header)
\* The file with a 0 in each blank value cell whose X is there.
ZeroFilled(f) ==
    LET Missing(row, i) == /\ row[i] = Blank
                           /\ \E tg \in Range(TargetsOf(f)) :
                                 tg.vCol = i /\ IsNumber(row[tg.tCol])
    IN  [f EXCEPT !.rows = [r \in DOMAIN @ |-> [i \in DOMAIN @[r] |->
            IF Missing(@[r], i) THEN 0 ELSE @[r][i]]]]
\* What the Analyser would open, seen through the Converter's grid.
AnalyserView(f) ==
    IF f.fmt = "csv" THEN loadCsvChart(ZeroFilled(f))
    ELSE [k \in DOMAIN f.signals |->
            [f.signals[k] EXCEPT
                !.v = [i \in DOMAIN @ |-> tryVal(Cell(@[i]))],
                !.x = [i \in DOMAIN @ |->
                         IF f.signals[k].domain = "time" THEN @[i] ELSE Trunc(@[i])]]]

\* The program's two readers agree: what Auto-detect and Apply import from a
\* saved chart or a TwinCAT export is what Open chart reads from it, except that
\* a blank value, which the Analyser skips, is imported as 0.  (A metadata line
\* implies a comma, so a file with another delimiter is left out.)
ConverterReadsTheSame ==
    \A f \in Range(disk) :
        \/ f.fmt = "csv" /\ (f.kind = "twincat" \/
               (f.header # <<>> /\ (f.meta = <<>> \/ f.sep = ",")))
        \/ f.fmt = "json" /\ f.kind = "scope"
        => LET got == apply(Detected(f), Source(f, Detected(f).sep))
           IN  SelectSeq(Contents(got), LAMBDA c : c.x # <<>>) = Contents(AnalyserView(f))

\* However a table is read, it says the same: from the metadata or from the
\* headers, by the Analyser or by the Converter, record by record.
ReadersAgree == HeadersTellTheSame /\ ForeignRowsStayAligned /\ ConverterReadsTheSame

Ascending(xs) == \A i \in 1..(Len(xs) - 1) : xs[i] <= xs[i + 1]
Strict(xs) == \A i \in 1..(Len(xs) - 1) : xs[i] < xs[i + 1]

\* Collapsing keeps the curve.  Collapsed duplicates leave one sample per
\* instant of an ascending X; collapsed plateaus leave no two equal neighbours,
\* and the value in force at every original sample can still be read off: from
\* the kept sample before it (KeepFirst) or after it (KeepLast).
CollapseKeepsTheCurve ==
    [][applyActive /\ applyError' = "" =>
        LET p == panel.shown  g == panel.grid IN
        \A k \in DOMAIN imported' :
            LET y == ySpecs(p, g)[k]
                c == imported'[k]
                raw == Imported(p, g, [y EXCEPT !.dup = "None", !.plateau = "None"])
                flat == Imported(p, g, [y EXCEPT !.plateau = "None"])
                Before(t) == {j \in DOMAIN c.x : c.x[j] <= t}
                After(t) == {j \in DOMAIN c.x : c.x[j] >= t}
            IN  /\ Len(c.x) = Len(c.v)
                /\ y.dup # "None" /\ Ascending(raw.x) =>
                      Strict(flat.x) /\ Instants(flat) = Instants(raw)
                /\ y.plateau # "None" => \A i \in 1..(Len(c.v) - 1) : c.v[i] # c.v[i + 1]
                /\ y.plateau = "KeepFirst" /\ Strict(flat.x) => \A i \in DOMAIN flat.x :
                      Before(flat.x[i]) # {} /\ c.v[Max(Before(flat.x[i]))] = flat.v[i]
                /\ y.plateau = "KeepLast" /\ Strict(flat.x) => \A i \in DOMAIN flat.x :
                      After(flat.x[i]) # {} /\ c.v[Min(After(flat.x[i]))] = flat.v[i]]_allVars

\* A mapping that is saved as a profile and loaded again is the same mapping.
ProfileReloadsWhole ==
    panel # NoPanel => loadFromFile(saveToFile(panel.shown)) = panel.shown

XOf(p, y) == IF Rated(p, y) THEN <<"rate", IF y.useRate THEN y.dt ELSE p.dt>>
             ELSE <<"column", XLabel(p, y)>>

\* The mapping survives a stored profile, and the dialog.
\* Editing a channel in the dialog leaves alone what was not edited: it keeps
\* the X it was read on (the dialog pins a channel without an X of its own to
\* the very column Apply would have taken), and a mapping that Apply accepted
\* is still accepted.  (A rate of 0 is left out: the dialog shows the default.)
EditsKeepTheRest ==
    [][panel # NoPanel => ProfileReloadsWhole /\ \A k \in DOMAIN panel.shown.columns, e \in Edits :
        onEditChannel(k, e) =>
          LET old == panel.shown  new == panel'.shown
              y == old.columns[k]
          IN  /\ /\ y.role = "Signal" /\ Resolved(old, y) /\ (y.useRate => y.dt > 0)
                 /\ DOMAIN e.change \cap {"useRate", "xSource", "dt"} = {}
                 => XOf(new, new.columns[k]) = XOf(old, y)
              /\ refusal(old, panel.grid) = "" => refusal(new, panel.grid) = ""
       ]_allVars

\* What is read is what is shown.  Whether a change of the delimiter parses the
\* file again is decided from the stored profile, which follows the panel only
\* through the commit timer; so with no commit pending, whatever was edited,
\* loaded, detected or applied before, the grid after a change is the file cut at
\* the delimiter chosen.  (A second change before the 0 ms timer is left out.)
GridFollowsTheBox ==
    [][~due => \A change \in ParseOptions :
          "sep" \in DOMAIN change /\ parseOptionsChanged(change)
          => panel'.grid = CsvSource(disk[panel.path], change.sep)]_allVars

\* What the panel shows is what is there: a mapping is kept by the profile it is
\* stored in and by the dialog that edits it, and the grid it is applied to
\* follows the delimiter shown.
MappingKept == EditsKeepTheRest /\ GridFollowsTheBox

\* ConverterWidget.cpp:459-460: the button undoes "the last change to the file
\* list, mapping, or imported channels".  The history gets its entries from the
\* commit timer alone, so whatever changes the mapping of an open file leaves a
\* commit pending.
EveryMappingIsUndoable ==
    [][panel # NoPanel /\ panel'.shown.columns # panel.shown.columns => due']_allVars
=============================================================================
