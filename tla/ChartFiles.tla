----------------------------- MODULE ChartFiles -----------------------------
(***************************************************************************)
(* Saving a chart and opening it again: saveChartFromStore, saveFile and   *)
(* loadFile (SignalIO.cpp), writeCsv (CsvWriter.cpp), the MDF4 session     *)
(* (Mdf4Session.cpp) and the readers of TwinCAT and foreign JSON files.    *)
(*                                                                         *)
(* A channel is a record [name, unit, domain, src, x, v]: x holds the      *)
(* int64 X field (nanoseconds, or Hz x 1e9 for a spectrum), v the samples, *)
(* which are integers or NaN.  A table cell is an integer, Blank or Text.  *)
(* An X cell stands for its exact value in the same unit as x; what is not *)
(* exact is reading it back through a double, x := (int64)(d * 1e9), which *)
(* truncates: the values in `slip` come back one nanosecond early.         *)
(*                                                                         *)
(* Not modelled: number formatting beyond that truncation, decimal commas, *)
(* the HTML format, and names that end in a bracketed unit.                *)
(***************************************************************************)
EXTENDS Integers, Sequences, FiniteSets, SequencesExt, FiniteSetsExt, Functions

CONSTANTS NaN, Blank, Text, \* values and cells that are not numbers
          Sessions,         \* where a session may start: [store, foreign, profile]
          Requests,         \* what the save dialog may be asked for
          Lead,             \* how a channel's name begins, as a column header
          Slips,            \* the sets of X values a double may truncate
          MdfGrain,         \* spacing of MDF4's seconds at epoch time
          MaxWork           \* bound on the saves and mapping edits of a behaviour

VARIABLES store,  \* the channels of the signal store, in order
          disk,   \* path -> file or NoFile
          slip,   \* the X values that truncation moves (fixed by the FPU)
          result, \* what the last save reported
          asked,  \* the request of the last save
          saves,  \* number of saves so far (bounds the model)
          edits   \* mapping edits and saved profiles so far (bounds the model)

fileVars == <<store, disk, slip, result, asked, saves>>

NoFile == [fmt |-> "none"]
Paths == {"chart", "chart_time", "chart_frequency", "foreign"}

\* What the properties read back: a channel without where it came from.
Content(c) == [name |-> c.name, unit |-> c.unit, domain |-> c.domain,
               x |-> c.x, v |-> c.v]
Contents(chs) == [i \in DOMAIN chs |-> Content(chs[i])]

InDomain(chs, d) == SelectSeq(chs, LAMBDA c : c.domain = d)
IsNumber(cell) == cell \notin {Blank, Text}
Instants(c) == Range(c.x)

-----------------------------------------------------------------------------
(* The CSV writer *)

Cell(v) == IF v = NaN THEN Blank ELSE v

\* Plausible slip: the last sample of a repeated instant is taken.
linearInterpTakingLast(c, t) ==
    LET n == Len(c.x) IN
    IF n = 0 \/ t < c.x[1] \/ t > c.x[n] THEN NaN
    ELSE LET lo == Max({i \in 1..n : c.x[i] <= t})
             hi == lo + 1
         IN  IF c.x[lo] = t THEN c.v[lo]
             ELSE IF NaN \in {c.v[lo], c.v[hi]} THEN NaN
             ELSE c.v[lo] + ((t - c.x[lo]) * (c.v[hi] - c.v[lo]))
                                \div (c.x[hi] - c.x[lo])
\* The value of channel c at time t; x is in ascending order.
linearInterp(c, t) ==
    LET n == Len(c.x) IN
    IF n = 0 \/ t < c.x[1] \/ t > c.x[n] THEN NaN
    ELSE LET hi == Min({i \in 1..n : c.x[i] >= t})
             lo == hi - 1
         IN  IF c.x[hi] = t THEN c.v[hi]
             ELSE IF NaN \in {c.v[lo], c.v[hi]} THEN NaN
             ELSE c.v[lo] + ((t - c.x[lo]) * (c.v[hi] - c.v[lo]))
                                \div (c.x[hi] - c.x[lo])

timeOriginNs(chs) ==
    LET firsts == {c.x[1] : c \in {d \in Range(chs) : d.domain = "time" /\ d.x # <<>>}}
    IN  IF firsts = {} THEN 0 ELSE Min(firsts)

XCell(c, t, chs, req) ==
    IF c.domain = "time" /\ req.axis = "relative" THEN t - timeOriginNs(chs) ELSE t

XColumn(d, req) ==
    [role |-> IF d = "time" THEN "x_time" ELSE "x_frequency",
     unit |-> IF d = "frequency" THEN "Hz"
              ELSE IF req.axis = "epoch" THEN "ns" ELSE "s",
     name |-> "", refX |-> 0]
SignalColumn(c, xCol) ==
    [role |-> "signal", unit |-> c.unit, name |-> c.name, refX |-> xCol]

\* One shared X column per domain, then its signals; `at` columns precede.
SharedBlock(chs, d, at, req) ==
    IF InDomain(chs, d) = <<>> THEN <<>>
    ELSE <<XColumn(d, req)>>
         \o [i \in DOMAIN InDomain(chs, d) |->
                SignalColumn(InDomain(chs, d)[i], at + 1)]

Columns(chs, req) ==
    IF req.mode = "shared"
    THEN LET t == SharedBlock(chs, "time", 0, req)
         IN  t \o SharedBlock(chs, "frequency", Len(t), req)
    ELSE FlattenSeq([i \in DOMAIN chs |->
            <<XColumn(chs[i].domain, req), SignalColumn(chs[i], 2 * i - 1)>>])

\* The text of a header cell: how it begins, its name and its unit.
HeaderCell(cols, i, req) ==
    LET c == cols[i]
        freq == c.role = "x_frequency"
        axis == IF freq THEN "f" ELSE "t"
    IN  IF c.role = "signal"
        THEN [lead |-> Lead[c.name], name |-> c.name, unit |-> c.unit]
        ELSE IF req.mode = "shared"
        THEN [lead |-> axis, name |-> axis, unit |-> c.unit]
        ELSE [lead |-> IF freq THEN "f_" ELSE "t_", name |-> "", unit |-> c.unit]

Grid(chs) == SetToSortSeq(UNION {Instants(c) : c \in Range(chs)}, <)

\* Row r of one domain's block; past its grid the block is padded.
SharedCells(blockChs, all, r, req) ==
    IF blockChs = <<>> THEN <<>>
    ELSE IF r <= Len(Grid(blockChs))
    THEN LET t == Grid(blockChs)[r]
         IN  <<XCell(blockChs[1], t, all, req)>>
             \o [i \in DOMAIN blockChs |-> Cell(linearInterp(blockChs[i], t))]
    ELSE [i \in 1..(Len(blockChs) + 1) |-> Blank]

SharedRows(chs, req) ==
    LET t == InDomain(chs, "time")
        f == InDomain(chs, "frequency")
    IN  [r \in 1..Max({Len(Grid(t)), Len(Grid(f))}) |->
            SharedCells(t, chs, r, req) \o SharedCells(f, chs, r, req)]

PerSignalRows(chs, req) ==
    [r \in 1..Max({Len(c.x) : c \in Range(chs)}) |->
        FlattenSeq([i \in DOMAIN chs |->
            IF r <= Len(chs[i].x)
            THEN <<XCell(chs[i], chs[i].x[r], chs, req), Cell(chs[i].v[r])>>
            ELSE <<Blank, Blank>>])]

writeCsv(chs, req, layout) ==
    LET cols == Columns(chs, req)
    IN  [fmt    |-> "csv", kind |-> "scope", sep |-> req.sep,
         meta   |-> IF req.metadata THEN cols ELSE <<>>,
         layout |-> IF req.metadata THEN layout ELSE "none",
         header |-> IF req.header
                    THEN [i \in DOMAIN cols |-> HeaderCell(cols, i, req)]
                    ELSE <<>>,
         rows   |-> IF req.mode = "shared" THEN SharedRows(chs, req)
                                           ELSE PerSignalRows(chs, req)]

\* What the save dialog warns a shared column will not hold.
scanRepeatedTimestamps(chs) ==
    FoldLeft(+, 0, [k \in DOMAIN chs |->
        Cardinality({i \in 2..Len(chs[k].x) : chs[k].x[i] = chs[k].x[i - 1]})])

-----------------------------------------------------------------------------
(* JSON, HDF5 and MDF4 writers *)

\* Timestamps verbatim; a NaN becomes null, which reads back as NaN.
writeJson(chs, layout) == [fmt |-> "json", kind |-> "scope", layout |-> layout,
                           signals |-> chs]

\* A session file: an MDF4 session takes channels and the layout only until
\* the first sample starts its measurement.
NewSession(fmt) == [fmt |-> fmt, started |-> FALSE, layout |-> "none", signals |-> <<>>]
Closed(s) == s.fmt = "mf4" /\ s.started
addChannel(s, c) ==
    IF Closed(s) THEN s
    ELSE [s EXCEPT !.signals = Append(@, [c EXCEPT !.x = <<>>, !.v = <<>>])]
appendSamples(s, c) ==
    IF c.x = <<>> \/ c.name \notin {d.name : d \in Range(s.signals)} THEN s
    ELSE [s EXCEPT !.started = TRUE,
                   !.signals = [k \in DOMAIN @ |->
                       IF @[k].name = c.name
                       THEN [@[k] EXCEPT !.x = @ \o c.x, !.v = @ \o c.v]
                       ELSE @[k]]]
writeLayout(s, layout) == IF Closed(s) THEN s ELSE [s EXCEPT !.layout = layout]

writeHdf5(chs, layout) ==
    LET registered == FoldLeft(addChannel, NewSession("h5"), chs)
    IN  writeLayout(FoldLeft(appendSamples, registered, chs), layout)

\* Plausible slip: each channel is registered and filled in one loop.
writeMdf4Interleaved(chs, layout) ==
    FoldLeft(LAMBDA s, c : appendSamples(addChannel(s, c), c),
             writeLayout(NewSession("mf4"), layout), chs)
writeMdf4(chs, layout) ==
    LET registered == writeLayout(FoldLeft(addChannel, NewSession("mf4"), chs), layout)
    IN  FoldLeft(appendSamples, registered, chs)

saveFile(chs, req, layout) ==
    CASE req.fmt = "csv"  -> writeCsv(chs, req, layout)
      [] req.fmt = "json" -> writeJson(chs, layout)
      [] req.fmt = "h5"   -> writeHdf5(chs, layout)
      [] req.fmt = "mf4"  -> writeMdf4(chs, layout)

-----------------------------------------------------------------------------
(* Readers *)

Trunc(x) == IF x \in slip THEN x - 1 ELSE x

\* An integer "ns" cell is read exactly, every other unit through a double.
parseXValue(cell, unit, domain) ==
    IF domain = "time" /\ unit = "ns" THEN cell ELSE Trunc(cell)

FromColumns(name, unit, domain, xs, vs) ==
    [name |-> name, unit |-> unit, domain |-> domain, src |-> "file",
     x |-> xs, v |-> vs]

\* The samples of one (X column, value column) pair: rows where both are numbers.
ReadPair(rows, tg) ==
    LET full == SelectSeq(rows, LAMBDA r : /\ tg.tCol <= Len(r) /\ tg.vCol <= Len(r)
                                           /\ IsNumber(r[tg.tCol])
                                           /\ IsNumber(r[tg.vCol]))
    IN  FromColumns(tg.name, tg.unit, tg.domain,
            [i \in DOMAIN full |-> parseXValue(full[i][tg.tCol], tg.xUnit, tg.domain)],
            [i \in DOMAIN full |-> full[i][tg.vCol]])

ReadTargets(rows, targets) ==
    SelectSeq([k \in DOMAIN targets |-> ReadPair(rows, targets[k])],
              LAMBDA c : c.x # <<>>)

\* Mapping from the "# scope-csv:" line.
MetaTargets(meta) ==
    LET signals == SelectSeq([i \in DOMAIN meta |-> i],
                             LAMBDA i : meta[i].role = "signal" /\ meta[i].refX > 0)
    IN  [k \in DOMAIN signals |->
           LET col == meta[signals[k]] IN
           [name |-> col.name, unit |-> col.unit, xUnit |-> meta[col.refX].unit,
            tCol |-> col.refX, vCol |-> signals[k],
            domain |-> IF meta[col.refX].role = "x_frequency" THEN "frequency" ELSE "time"]]

isSharedX(h) == h.lead \in {"t", "f"}
isFreqHeader(h) == h.lead \in {"f", "f_"}
isPairX(h) == h.lead \in {"t_", "f_"}
SharedLayout(h) == isSharedX(h[1]) /\ (Len(h) < 3 \/ ~isPairX(h[3]))

\* <<X column, value column>> of each channel, guessed from the header names.
HeaderPairs(h) ==
    LET X(i) == {j \in 1..(i - 1) : isSharedX(h[j])}
        signals == SelectSeq([i \in DOMAIN h |-> i],
                             LAMBDA i : ~isSharedX(h[i]) /\ X(i) # {})
    IN  IF SharedLayout(h)
        THEN [k \in DOMAIN signals |-> <<Max(X(signals[k])), signals[k]>>]
        ELSE [k \in 1..(Len(h) \div 2) |-> <<2 * k - 1, 2 * k>>]

HeaderTargets(h) ==
    [k \in DOMAIN HeaderPairs(h) |->
        LET xc == HeaderPairs(h)[k][1]  vc == HeaderPairs(h)[k][2] IN
        [name |-> h[vc].name, unit |-> h[vc].unit, xUnit |-> h[xc].unit,
         tCol |-> xc, vCol |-> vc,
         domain |-> IF isFreqHeader(h[xc]) THEN "frequency" ELSE "time"]]

\* TwinCAT export: a block of text rows, then one (ms, value) pair per channel.
\* Data starts at the first row below the names whose first cell is a number.
TwinCatDataStart(f) ==
    Min({i \in (f.nameRow + 1)..Len(f.rows) :
            f.rows[i] # <<>> /\ IsNumber(f.rows[i][1])})
detectTwinCatScopeCsv(f) ==
    LET named == SelectSeq([j \in DOMAIN f.names |-> j], LAMBDA j : f.names[j] # "")
    IN  [k \in DOMAIN named |->
           [name |-> f.names[named[k]], unit |-> "", xUnit |-> "ms",
            tCol |-> 2 * named[k] - 1, vCol |-> 2 * named[k], domain |-> "time"]]
loadTwinCatScopeCsv(f) ==
    ReadTargets(SubSeq(f.rows, TwinCatDataStart(f), Len(f.rows)),
                detectTwinCatScopeCsv(f))

\* The first line that is not metadata is taken as the header, header or not.
loadCsvChart(f) ==
    IF f.kind = "twincat" THEN loadTwinCatScopeCsv(f)
    ELSE ReadTargets(IF f.header = <<>> THEN Tail(f.rows) ELSE f.rows,
                     IF f.meta # <<>> THEN MetaTargets(f.meta)
                                      ELSE HeaderTargets(f.header))

\* Columns of a table of records, in order of appearance: a record that lacks
\* a column leaves NaN there, also when the column first appears later.
PadTo(s, n) == s \o [i \in 1..(n - Len(s)) |-> NaN]
AddRecord(table, rec) ==
    [rows |-> table.rows + 1,
     cols |-> [k \in DOMAIN table.cols \union DOMAIN rec |->
         LET had == IF k \in DOMAIN table.cols THEN table.cols[k] ELSE <<>>
         IN  IF k \in DOMAIN rec THEN Append(PadTo(had, table.rows), rec[k]) ELSE had]]

RecordTable(f) ==
    LET t == FoldLeft(AddRecord, [rows |-> 0, cols |-> <<>>], f.records)
    IN  [k \in DOMAIN t.cols |-> PadTo(t.cols[k], t.rows)]

\* The column called "t" is X, in seconds; the others become channels.
loadForeignJson(f) ==
    LET table == RecordTable(f)
        Channel(k) ==
            LET at == SelectSeq([i \in 1..Len(f.records) |-> i],
                                LAMBDA i : table["t"][i] # NaN)
            IN  FromColumns(k, "", "time", [j \in DOMAIN at |-> Trunc(table["t"][at[j]])],
                                           [j \in DOMAIN at |-> table[k][at[j]]])
        names == SetToSeq(DOMAIN table \ {"t"})
    IN  SelectSeq([i \in DOMAIN names |-> Channel(names[i])], LAMBDA c : c.x # <<>>)

\* MDF4 keeps X as seconds in a double: at epoch time its spacing is MdfGrain.
MdfTime(x) == ((x + MdfGrain \div 2) \div MdfGrain) * MdfGrain
loadMdf4(f) == [k \in DOMAIN f.signals |->
    [f.signals[k] EXCEPT !.x = [i \in DOMAIN @ |-> MdfTime(@[i])]]]

loadFile(f) ==
    CASE f.fmt = "csv"                        -> loadCsvChart(f)
      [] f.fmt = "json" /\ f.kind = "scope"   -> f.signals
      [] f.fmt = "json" /\ f.kind = "records" -> loadForeignJson(f)
      [] f.fmt = "h5"                         -> f.signals
      [] f.fmt = "mf4"                        -> loadMdf4(f)

-----------------------------------------------------------------------------
(* Saving what the dialog asked for *)

isDerivedChannel(c) == c.src = "formula"
Admitted(c, req) ==
    /\ req.picked = {} \/ c.name \in req.picked
    /\ IF c.domain = "frequency" THEN req.frequency ELSE req.time
    /\ req.derived \/ ~isDerivedChannel(c)
    /\ c.x # <<>>

\* Plausible slip: the origin of the whole store.
RangeOriginOfStore(chs, req) == timeOriginNs(chs)
\* The custom range counts from the earliest sample of the channels saved.
RangeOrigin(chs, req) ==
    LET firsts == {c.x[1] : c \in {d \in Range(chs) : d.domain = "time" /\ Admitted(d, req)}}
    IN  IF firsts = {} THEN 0 ELSE Min(firsts)
InRange(t, chs, req) ==
    req.range = <<>> \/ /\ t >= RangeOrigin(chs, req) + req.range[1]
                        /\ t <= RangeOrigin(chs, req) + req.range[2]

Trimmed(c, chs, req) ==
    LET kept == SelectSeq([i \in DOMAIN c.x |-> i],
                          LAMBDA i : c.domain = "frequency" \/ InRange(c.x[i], chs, req))
    IN  [c EXCEPT !.x = [j \in DOMAIN kept |-> c.x[kept[j]]],
                  !.v = [j \in DOMAIN kept |-> c.v[kept[j]]]]

\* The channels of domain d that a save writes.
Gathered(chs, d, req) ==
    LET admitted == SelectSeq(chs, LAMBDA c : c.domain = d /\ Admitted(c, req))
    IN  SelectSeq([i \in DOMAIN admitted |-> Trimmed(admitted[i], chs, req)],
                  LAMBDA c : c.x # <<>>)
AllGathered(chs, req) == Gathered(chs, "time", req) \o Gathered(chs, "frequency", req)

DomainLayout(req, d) == IF req.layout THEN d ELSE "none"

\* The files a save writes, in order: [path, channels, layout].
Writes(chs, req) ==
    LET t == Gathered(chs, "time", req)
        f == Gathered(chs, "frequency", req)
    IN  IF req.split /\ t # <<>> /\ f # <<>>
        THEN <<[path |-> "chart_time", chans |-> t, layout |-> DomainLayout(req, "time")],
               [path |-> "chart_frequency", chans |-> f,
                layout |-> DomainLayout(req, "frequency")]>>
        ELSE <<[path |-> "chart", chans |-> t \o f, layout |-> DomainLayout(req, "full")]>>

\* saveChartFromStore; `bad` are the paths that cannot be opened for writing.
saveChartFromStore(req, bad) ==
    LET writes == Writes(store, req)
        refused == {k \in DOMAIN writes : writes[k].path \in bad}
        done == SubSeq(writes, 1, Min(refused \union {Len(writes) + 1}) - 1)
    IN  /\ saves + edits < MaxWork
        /\ saves' = saves + 1
        /\ asked' = req
        /\ UNCHANGED <<store, slip>>
        /\ \/ /\ AllGathered(store, req) = <<>>
              /\ result' = "NothingMatchedFilters"
              /\ UNCHANGED disk
           \/ /\ AllGathered(store, req) # <<>>
              /\ result' = IF done = writes THEN "Ok" ELSE "Failed"
              /\ disk' = [p \in Paths |->
                    IF \E k \in DOMAIN done : done[k].path = p
                    THEN LET w == CHOOSE w \in Range(done) : w.path = p
                         IN  saveFile(w.chans, req, w.layout)
                    ELSE disk[p]]

\* Open chart into a cleared store.
openChart(p) ==
    /\ disk[p] # NoFile
    /\ loadFile(disk[p]) # <<>>
    /\ store' = loadFile(disk[p])
    /\ UNCHANGED <<disk, slip, result, asked, saves>>

NoRequest == CHOOSE r \in Requests : TRUE

FilesInit(session) ==
    /\ store = session.store
    /\ slip \in Slips
    /\ disk = [p \in Paths |-> IF p = "foreign" THEN session.foreign ELSE NoFile]
    /\ result = "None" /\ asked = NoRequest /\ saves = 0 /\ edits = 0

FilesNext ==
    \/ \E req \in Requests, bad \in {{}, {"chart_frequency"}, Paths} :
            saveChartFromStore(req, bad)
    \/ \E p \in Paths : openChart(p)

-----------------------------------------------------------------------------
(* Properties *)

SavedStep == saves' = saves + 1
ExactX(c, req) == c.domain = "time" /\ req.axis = "epoch"
\* X value y is where a save with this request leaves the instant t of c.
Lands(y, t, c, chs, req) ==
    LET e == XCell(c, t, chs, req) IN y = e \/ (~ExactX(c, req) /\ y = e - 1)

Numeric(c) ==
    LET kept == SelectSeq([i \in DOMAIN c.x |-> i], LAMBDA i : c.v[i] # NaN)
    IN  [c EXCEPT !.x = [j \in DOMAIN kept |-> c.x[kept[j]]],
                  !.v = [j \in DOMAIN kept |-> c.v[kept[j]]]]

\* A per-signal CSV gives back every sample that has a value.
PairsFaithful(got, chs, req) ==
    LET want == SelectSeq([i \in DOMAIN chs |-> Numeric(chs[i])], LAMBDA c : c.x # <<>>)
    IN  /\ Len(got) = Len(want)
        /\ \A i \in DOMAIN got :
             /\ [Content(got[i]) EXCEPT !.x = <<>>] = [Content(want[i]) EXCEPT !.x = <<>>]
             /\ Len(got[i].x) = Len(want[i].x)
             /\ \A j \in DOMAIN want[i].x :
                    Lands(got[i].x[j], want[i].x[j], want[i], chs, req)

MdfFaithful(got, chs) ==
    /\ Len(got) = Len(chs)
    /\ \A i \in DOMAIN chs :
         /\ [got[i] EXCEPT !.x = <<>>] = [chs[i] EXCEPT !.x = <<>>]
         /\ \A j \in DOMAIN chs[i].x :
              /\ got[i].x[j] - chs[i].x[j] \in (-MdfGrain)..MdfGrain
              /\ j > 1 => got[i].x[j] >= got[i].x[j - 1]

Faithful(got, chs, req) ==
    CASE req.fmt \in {"json", "h5"} -> got = chs
      [] req.fmt = "mf4"            -> MdfFaithful(got, chs)
      [] req.fmt = "csv"            -> PairsFaithful(got, chs, req)

NoHoles(chs) == \A c, d \in Range(chs) : \A t \in Instants(d) :
    c.x[1] <= t /\ t <= c.x[Len(c.x)] => t \in Instants(c)

\* Saving a reopened chart again with the same settings writes the same file:
\* one generation of a shared column is a fixed point (time channels without
\* holes, epoch axis).
SecondSaveIsStable ==
    ( /\ SavedStep /\ asked' = asked /\ result = "Ok" /\ result' = "Ok"
      /\ asked.axis = "epoch" /\ asked.range = <<>> /\ ~asked.split
      /\ asked.fmt = "csv" => asked.header
      /\ store = loadFile(disk["chart"])
      /\ InDomain(store, "time") = store /\ NoHoles(store) )
    => Contents(loadFile(disk'["chart"])) = Contents(store)

\* Whatever a save wrote, opening the file gives it back: all of it from JSON
\* and HDF5, every sample in order from MDF4 (to the spacing of its clock) and,
\* from per-signal CSV with a header, every sample that has a value, at its
\* exact epoch nanosecond or at most one nanosecond early in relative seconds.
\* And saving what was reopened does not move it any further.
ReopenIsFaithful ==
    [][/\ SecondSaveIsStable
       /\ SavedStep /\ result' = "Ok"
             /\ (asked'.fmt = "csv" => asked'.mode = "pairs" /\ asked'.header)
          => \A w \in Range(Writes(store, asked')) :
                Faithful(loadFile(disk'[w.path]), w.chans, asked')]_fileVars

\* A shared-column CSV of channel c, reopened as g: the first sample of each of
\* c's instants is there, nothing is added outside c's range, and what is
\* missing is exactly what scanRepeatedTimestamps announced.
SharedFaithful(g, c, chs, req) ==
    LET Own(j) == {i \in DOMAIN c.x : Lands(g.x[j], c.x[i], c, chs, req)}
        own == {j \in DOMAIN g.x : Own(j) # {}}
    IN  /\ \A j \in own : g.v[j] = c.v[Min(Own(j))]
        /\ \A j \in DOMAIN g.x : \E t \in c.x[1]..c.x[Len(c.x)] :
                Lands(g.x[j], t, c, chs, req)
        /\ NaN \notin Range(c.v) =>
                Cardinality(own) = Len(c.x) - scanRepeatedTimestamps(<<c>>)

\* Shared-column CSV loses only the repeats the dialog warned about and adds
\* only interpolated samples between a channel's own first and last.
SharedKeepsEveryInstant ==
    [][SavedStep /\ result' = "Ok" /\ asked'.fmt = "csv" /\ asked'.mode = "shared"
          /\ asked'.header /\ asked'.metadata
       => \A w \in Range(Writes(store, asked')) :
             LET got == loadFile(disk'[w.path]) IN
             \A c \in Range(w.chans) :
                /\ Range(c.v) # {NaN} => \E g \in Range(got) : g.name = c.name
                /\ \A g \in Range(got) :
                     g.name = c.name => SharedFaithful(g, c, w.chans, asked')]_fileVars

PlainNames(f) == \A i \in DOMAIN f.meta :
    f.meta[i].role = "signal" => Lead[f.meta[i].name] = ""

\* loadCsvChart reads the same channels from the column headers alone as from
\* the metadata line, when no channel is named like an axis.
HeadersTellTheSame ==
    \A f \in Range(disk) :
        /\ f.fmt = "csv" /\ f.kind = "scope"
        /\ f.meta # <<>> /\ f.header # <<>> /\ PlainNames(f)
        => loadCsvChart([f EXCEPT !.meta = <<>>]) = loadCsvChart(f)

\* A custom range that starts at zero starts at the first sample of what is
\* saved: it never selects nothing, and nothing it selects is later than its end.
RangeStartsWhereTheChartDoes ==
    SavedStep /\ asked'.range # <<>> /\ asked'.range[1] = 0
       => LET t == {c \in Range(store) : c.domain = "time" /\ Admitted(c, asked')}
              kept == Range(Gathered(store, "time", asked'))
          IN  t # {} =>
                /\ result' # "NothingMatchedFilters" /\ kept # {}
                /\ Min({c.x[1] : c \in kept}) = Min({c.x[1] : c \in t})
                /\ \A c \in kept :
                     c.x[Len(c.x)] <= Min({d.x[1] : d \in kept}) + asked'.range[2]

\* A split save puts every channel into exactly one file, the one of its domain,
\* with that domain's layout; when the second file cannot be written the first
\* is complete and the second is left as it was.
SplitPartitions ==
    SavedStep /\ asked'.fmt # "csv" =>
        /\ \A p \in Paths : disk'[p] # disk[p] =>
              LET d == [chart_time |-> "time", chart_frequency |-> "frequency"]
              IN  p \in DOMAIN d =>
                    /\ Contents(loadFile(disk'[p])) # <<>>
                    /\ \A c \in Range(loadFile(disk'[p])) : c.domain = d[p]
                    /\ disk'[p].layout \in {d[p], "none"}
        /\ result' = "Ok" => \A c \in Range(AllGathered(store, asked')) :
              Cardinality({w \in Range(Writes(store, asked')) :
                  c.name \in {g.name : g \in Range(loadFile(disk'[w.path]))}}) = 1
        /\ result' = "Failed" => disk'["chart_frequency"] = disk["chart_frequency"]

\* A save writes what it was asked for: the range counted from where the chart
\* starts, and each channel into one file.
SaveTakesWhatWasAsked == [][RangeStartsWhereTheChartDoes /\ SplitPartitions]_fileVars

\* A foreign JSON table keeps its rows: sample k of every channel is the value
\* the k-th record with a time has under that name, or NaN.
ForeignRowsStayAligned ==
    \A f \in Range(disk) : f.fmt = "json" /\ f.kind = "records" =>
        LET timed == SelectSeq(f.records, LAMBDA r : "t" \in DOMAIN r)
        IN  \A c \in Range(loadFile(f)) :
              /\ Len(c.v) = Len(timed)
              /\ \A k \in DOMAIN timed :
                   c.v[k] = IF c.name \in DOMAIN timed[k] THEN timed[k][c.name] ELSE NaN
=============================================================================
