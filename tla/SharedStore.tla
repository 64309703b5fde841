---------------------------- MODULE SharedStore ----------------------------
(***************************************************************************)
(* The three tools on the one SignalStore of the shell.  The Recorder sends *)
(* copies of its captures and remembers under which name (appliedMap_), the *)
(* Converter imports the channels of its open files and remembers their      *)
(* names (OpenedFile::importedNames), the Analyser adds, removes and renames  *)
(* channels; Converter and Analyser also undo, re-adding the Signal objects  *)
(* their snapshots hold.                                                    *)
(*                                                                         *)
(* A capture and a file have one channel each, named after BaseName.  A     *)
(* Signal is an object with a name of its own (its meta) that changes under  *)
(* everyone who holds a pointer to it.  A name is the base followed by the    *)
(* suffixes uniqueStoreName added: <<"n">>, <<"n", 2>>.                      *)
(***************************************************************************)
EXTENDS Naturals, Sequences, FiniteSets, FiniteSetsExt, Functions

CONSTANTS
  Captures,    \* channels of the Recorder
  CsvFiles,    \* files imported through a mapping (CSV, JSON)
  H5Files,     \* recordings: signals are loaded once and shared
  BaseName,    \* a name for every capture and file
  NewNames,    \* names the Analyser uses for new channels and renames
  MaxSignals,  \* bound: Signal objects ever created
  MaxForeign   \* bound: removals in the Analyser and undos

Files  == CsvFiles \cup H5Files

\* A file is opened either as a table or as a recording, and what a Signal was
\* made from is one thing.
ASSUME SharedStoreAssumption ==
  /\ MaxSignals \in Nat /\ MaxForeign \in Nat
  /\ CsvFiles \cap H5Files = {} /\ Captures \cap Files = {}
  /\ "analyser" \notin Captures \cup Files

NoSig  == 0
NoSnap == [by |-> "nobody"]

VARIABLES
  heap,      \* the Signal objects: their meta name and who created them
  store,     \* SignalStore::map_: name |-> object
  applied,   \* RecorderWidget::appliedMap_: capture |-> name
  open,      \* the Converter's open files
  imported,  \* importedNames of an open file
  h5Signal,  \* the loaded signal of an open recording
  checked,   \* the names ticked in the channel selector of a recording
  snap,      \* an undo snapshot, of the Converter or of the Analyser: the last
             \* one taken (bound: one of the entries of the two histories)
  foreign    \* the operations so far by which a tool took another's channels
             \* out of the store without telling it: removals and undos

convVars == <<open, imported, h5Signal, checked>>
vars == <<heap, store, applied, convVars, snap, foreign>>

Origins == Captures \cup Files \cup {"analyser"}

NamePart == Nat \cup NewNames \cup {BaseName[x] : x \in Captures \cup Files}
Name     == Seq(NamePart)
Signal   == [name : Name, origin : Origins]

\* A map of the store over the objects h: a finite map of names to objects.
\* The key of an object is its own name; only a recording's signals, which are
\* renamed in place, may be found under an older one.
StoreOK(h, s) ==
  /\ DOMAIN s \in SUBSET Name /\ IsFiniteSet(DOMAIN s)
  /\ s \in [DOMAIN s -> DOMAIN h]
  /\ \A n \in DOMAIN s : h[s[n]].origin \notin H5Files => h[s[n]].name = n

\* The Converter's list over the objects h: a file that is not open holds
\* nothing, an open recording holds the signal loaded from it.
FilesOK(h, o, im, h5, ch) ==
  /\ o \in SUBSET Files
  /\ im \in [Files -> SUBSET Name] /\ ch \in [Files -> SUBSET Name]
  /\ h5 \in [Files -> Nat]
  /\ \A f \in Files \ o : im[f] = {} /\ h5[f] = NoSig
  /\ \A f \in o \cap H5Files : h5[f] \in DOMAIN h /\ h[h5[f]].origin = f

SnapOK(h, sn) ==
  \/ sn = NoSnap
  \/ sn.by = "analyser" /\ StoreOK(h, sn.signals)
  \/ /\ sn.by = "converter" /\ StoreOK(h, sn.signals)
     /\ FilesOK(h, sn.open, sn.imported, sn.h5Signal, sn.checked)

\* Every pointer, in the store, the file list or an undo snapshot, is to an
\* object that exists and has the name it is known by.
TypeOK ==
  /\ heap \in Seq(Signal)
  /\ StoreOK(heap, store)
  /\ DOMAIN applied \in SUBSET Captures /\ applied \in [DOMAIN applied -> Name]
  /\ FilesOK(heap, open, imported, h5Signal, checked)
  /\ SnapOK(heap, snap)
  /\ foreign \in Nat

Init ==
  /\ heap = <<>> /\ store = <<>> /\ applied = <<>>
  /\ open = {}
  /\ imported = [f \in Files |-> {}] /\ h5Signal = [f \in Files |-> NoSig]
  /\ checked = [f \in Files |-> {}]
  /\ snap = NoSnap /\ foreign = 0

-----------------------------------------------------------------------------
(* SignalStore                                                             *)

Put(s, n, i)   == [m \in DOMAIN s \cup {n} |-> IF m = n THEN i ELSE s[m]]
Remove(s, N)   == Restrict(s, DOMAIN s \ N)
Origin(i)      == heap[i].origin

\* store_.add(signal) of every object in S: the key is the object's own name.
AddAll(s, S) ==
  {t \in [DOMAIN s \cup {heap[i].name : i \in S} -> DOMAIN heap] :
     \A n \in DOMAIN t :
       IF \E i \in S : heap[i].name = n THEN t[n] \in {i \in S : heap[i].name = n}
                                        ELSE t[n] = s[n]}

\* uniqueStoreName
MutantUniqueStoreName(s, base) == base
UniqueStoreName(s, base) ==
  IF base \notin DOMAIN s THEN base
  ELSE base \o <<Min({k \in 2..(Cardinality(DOMAIN s) + 2) :
                        base \o <<k>> \notin DOMAIN s})>>

\* A new object under a name that is free in s.
Room == Len(heap) < MaxSignals
NewSignal(s, base, origin) ==
  LET n == UniqueStoreName(s, base) IN
  /\ Room
  /\ heap' = Append(heap, [name |-> n, origin |-> origin])
  /\ store' = Put(s, n, Len(heap) + 1)

ForeignOp == foreign < MaxForeign /\ foreign' = foreign + 1

-----------------------------------------------------------------------------
(* Recorder                                                                *)

\* sendChannels() for one channel: the copy a previous send made is removed.
Sent(r) == IF r \in DOMAIN applied THEN {applied[r]} ELSE {}
Send(r) ==
  LET s == Remove(store, Sent(r)) IN
  /\ NewSignal(s, <<BaseName[r]>>, r)
  /\ applied' = Put(applied, r, UniqueStoreName(s, <<BaseName[r]>>))
  /\ UNCHANGED <<convVars, snap, foreign>>

-----------------------------------------------------------------------------
(* Converter                                                               *)

\* Opening a recording loads its signals and ticks them all.
OpenH5(f) ==
  /\ f \in H5Files \ open /\ Room
  /\ heap' = Append(heap, [name |-> <<BaseName[f]>>, origin |-> f])
  /\ h5Signal' = [h5Signal EXCEPT ![f] = Len(heap) + 1]
  /\ checked' = [checked EXCEPT ![f] = {<<BaseName[f]>>}]
  /\ open' = open \cup {f}
  /\ UNCHANGED <<store, applied, imported, snap, foreign>>
OpenCsv(f) ==
  /\ f \in CsvFiles \ open
  /\ open' = open \cup {f}
  /\ UNCHANGED <<heap, store, applied, imported, h5Signal, checked, snap, foreign>>

\* applyCsvWith(), and applyH5With() for a channel with Relative or an offset:
\* a new Signal takes the place of the file's previous import.
ImportNew(f, base) ==
  LET s == Remove(store, imported[f]) IN
  /\ NewSignal(s, base, f)
  /\ imported' = [imported EXCEPT ![f] = {UniqueStoreName(s, base)}]

ApplyCsv(f) ==
  /\ f \in CsvFiles \cap open
  /\ ImportNew(f, <<BaseName[f]>>)
  /\ UNCHANGED <<applied, open, h5Signal, checked, snap, foreign>>

\* The name of the recording's signal, and whether it is ticked.
H5Name(f) == heap[h5Signal[f]].name
ApplyH5Shifted(f) ==
  /\ f \in H5Files \cap open /\ H5Name(f) \in checked[f]
  /\ ImportNew(f, H5Name(f))
  /\ UNCHANGED <<applied, open, h5Signal, checked, snap, foreign>>

\* applyH5With() otherwise: the loaded Signal itself goes into the store, renamed
\* in place when its name is taken.
ApplyH5(f) ==
  LET s == Remove(store, imported[f])
      n == UniqueStoreName(s, H5Name(f))
  IN
  /\ f \in H5Files \cap open
  /\ \/ /\ H5Name(f) \in checked[f]
        /\ heap' = [heap EXCEPT ![h5Signal[f]].name = n]
        /\ store' = Put(s, n, h5Signal[f])
        /\ imported' = [imported EXCEPT ![f] = {n}]
     \/ /\ H5Name(f) \notin checked[f]
        /\ store' = s
        /\ imported' = [imported EXCEPT ![f] = {}]
        /\ UNCHANGED heap
  /\ UNCHANGED <<applied, open, h5Signal, checked, snap, foreign>>

\* The selector panel is rebuilt from the signals' names and the user ticks
\* what it shows.
Tick(f) ==
  /\ f \in H5Files \cap open /\ checked[f] # {H5Name(f)}
  /\ checked' = [checked EXCEPT ![f] = {H5Name(f)}]
  /\ UNCHANGED <<heap, store, applied, open, imported, h5Signal, snap, foreign>>

\* The files F leave the list, with all that is remembered of them.
Close(F) ==
  /\ open' = open \ F
  /\ imported' = [f \in Files |-> IF f \in F THEN {} ELSE imported[f]]
  /\ h5Signal' = [f \in Files |-> IF f \in F THEN NoSig ELSE h5Signal[f]]
  /\ checked' = [f \in Files |-> IF f \in F THEN {} ELSE checked[f]]

\* Remove file: what it imported leaves the store.
MutantRemoveFile(f) ==
  /\ f \in open
  /\ Close({f})
  /\ UNCHANGED <<heap, store, applied, snap, foreign>>
RemoveFile(f) ==
  /\ f \in open
  /\ store' = Remove(store, imported[f])
  /\ Close({f})
  /\ UNCHANGED <<heap, applied, snap, foreign>>

\* Load workspace: every file goes, with its imports.  (The files of the
\* workspace are then opened like any other.)
LoadWorkspace ==
  /\ open # {}
  /\ store' = Remove(store, UNION {imported[f] : f \in open})
  /\ Close(open)
  /\ UNCHANGED <<heap, applied, snap, foreign>>

\* captureState() and restoreState() of the Converter.
ConverterCapture ==
  /\ foreign < MaxForeign
  /\ snap' = [by |-> "converter", open |-> open, imported |-> imported,
              h5Signal |-> h5Signal, checked |-> checked,
              signals |-> Restrict(store, (UNION Range(imported)) \cap DOMAIN store)]
  /\ snap' # snap
  /\ UNCHANGED <<heap, store, applied, convVars, foreign>>
ConverterRestore ==
  /\ ForeignOp /\ snap.by = "converter"
  /\ LET gone == (UNION Range(imported)) \ DOMAIN snap.signals
     IN  store' \in AddAll(Remove(store, gone), Range(snap.signals))
  /\ open' = snap.open /\ imported' = snap.imported
  /\ h5Signal' = snap.h5Signal /\ checked' = snap.checked
  /\ UNCHANGED <<heap, applied, snap>>

-----------------------------------------------------------------------------
(* Analyser                                                                *)

\* Open chart: a source channel of a chart file.  (Formula channels: module
\* FormulaEngine.)
AddChannel(n) ==
  /\ NewSignal(store, <<n>>, "analyser")
  /\ UNCHANGED <<applied, convVars, snap, foreign>>

RemoveChannel(n) ==
  /\ ForeignOp /\ n \in DOMAIN store
  /\ store' = Remove(store, {n})
  /\ UNCHANGED <<heap, applied, convVars, snap>>

\* SignalStore::rename clones the signal; channelRenamed moves the names the
\* Recorder and the Converter remember.
Moved(N, from, to) == IF from \in N THEN (N \ {from}) \cup {to} ELSE N
RenamedImports(from, to) == [f \in Files |-> Moved(imported[f], from, to)]
RenamedApplied(from, to) ==
  [r \in DOMAIN applied |-> IF applied[r] = from THEN to ELSE applied[r]]
Rename(from, to) ==
  /\ Room /\ from \in DOMAIN store /\ to \notin DOMAIN store
  /\ heap' = Append(heap, [name |-> to, origin |-> Origin(store[from])])
  /\ store' = Put(Remove(store, {from}), to, Len(heap) + 1)
  /\ applied' = RenamedApplied(from, to)
  /\ imported' = RenamedImports(from, to)
  /\ UNCHANGED <<open, h5Signal, checked, snap, foreign>>

\* captureState() and restoreState() of the Analyser: the whole store.
AnalyserCapture ==
  /\ foreign < MaxForeign
  /\ snap' = [by |-> "analyser", signals |-> store]
  /\ snap' # snap
  /\ UNCHANGED <<heap, store, applied, convVars, foreign>>
AnalyserRestore ==
  /\ ForeignOp /\ snap.by = "analyser"
  /\ store' \in AddAll(Restrict(store, DOMAIN snap.signals \cap DOMAIN store),
                       Range(snap.signals))
  /\ UNCHANGED <<heap, applied, convVars, snap>>

-----------------------------------------------------------------------------
Next ==
  \/ \E r \in Captures : Send(r)
  \/ \E f \in Files : OpenH5(f) \/ OpenCsv(f) \/ ApplyCsv(f) \/ ApplyH5(f)
                      \/ ApplyH5Shifted(f) \/ Tick(f) \/ RemoveFile(f)
  \/ LoadWorkspace
  \/ \E n \in NewNames : AddChannel(n)
  \/ \E n \in DOMAIN store : RemoveChannel(n)
  \/ \E from \in DOMAIN store, n \in NewNames : Rename(from, <<n>>)
  \/ ConverterCapture \/ ConverterRestore \/ AnalyserCapture \/ AnalyserRestore

Spec == Init /\ [][Next]_vars

-----------------------------------------------------------------------------
(* Properties.                                                             *)

\* What a tool lists as its own is exactly what it put in the store, through
\* every send, import, re-import, renaming and removal of a file: so a send or an
\* import replaces its own channel and no other.  The lists are not told when a
\* channel is removed in the Analyser or comes and goes with an undo.
OwnershipExact ==
  foreign = 0 =>
  /\ \A r \in DOMAIN applied :
       applied[r] \in DOMAIN store /\ Origin(store[applied[r]]) = r
  /\ \A f \in open : \A n \in imported[f] :
       n \in DOMAIN store /\ Origin(store[n]) = f
  /\ \A n \in DOMAIN store :
       /\ Origin(store[n]) \in Captures =>
            n \in Sent(Origin(store[n]))
       /\ Origin(store[n]) \in Files =>
            n \in imported[Origin(store[n])]

Unchanged(N) == \A n \in N : n \in DOMAIN store' /\ store'[n] = store[n]

\* No tool changes what is not its own.  Sending, importing or adding a channel
\* replaces nothing but what the tool itself listed (uniqueStoreName finds a free
\* name), and a Signal held by a snapshot does not change behind its back: an undo
\* in the Analyser gives back the channels it captured under the names they had.
\* AnalyserPlot.cpp:392: "Reconcile the store to exactly the snapshot's channel
\* set".  Signals of a recording are excepted: applyH5With() renames them in place.
OthersKept ==
  [][/\ \A r \in Captures : Send(r) => Unchanged(DOMAIN store \ Sent(r))
     /\ \A f \in Files : ApplyCsv(f) \/ ApplyH5(f) \/ ApplyH5Shifted(f)
                           => Unchanged(DOMAIN store \ imported[f])
     /\ \A n \in NewNames : AddChannel(n) => Unchanged(DOMAIN store)
     /\ AnalyserRestore /\ (\A i \in Range(snap.signals) : Origin(i) \notin H5Files)
          => store' = snap.signals]_vars
=============================================================================
