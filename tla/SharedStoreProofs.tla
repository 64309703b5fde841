------------------------- MODULE SharedStoreProofs -------------------------
(***************************************************************************)
(* The shared SignalStore, for any captures, files, names and number of     *)
(* Signal objects: pointers stay valid, the tools' lists of their own       *)
(* channels stay exact, and no tool touches what is not its own.            *)
(***************************************************************************)
EXTENDS SharedStore, FiniteSetTheorems, SequenceTheorems, TLAPS

-----------------------------------------------------------------------------
(* uniqueStoreName                                                          *)

\* A non-empty set of naturals has its minimum as a member.
LEMMA MinIsMember ==
  ASSUME NEW S, S \subseteq Nat, S # {}
  PROVE  Min(S) \in S /\ \A y \in S : Min(S) <= y
<1> DEFINE R == {ss \in Nat \X Nat : ss[1] < ss[2]}
<1>1. IsWellFoundedOn(R, Nat)
  BY NatLessThanWellFounded DEF OpToRel
<1>2. \A x, y \in Nat : <<y, x>> \in R <=> y < x
  OBVIOUS
<1> HIDE DEF R
<1>3. PICK x \in S : \A y \in S : ~ (<<y, x>> \in R)
  BY <1>1, WFMin
<1>4. ASSUME NEW y \in S PROVE x <= y
  <2>1. ~ (y < x)
    BY <1>2, <1>3, Zenon
  <2> QED BY <2>1
<1> QED BY <1>4 DEF Min

\* Two suffixes make two names.
LEMMA SuffixInjective ==
  ASSUME NEW base \in Name, NEW j \in Nat, NEW k \in Nat, j # k
  PROVE  base \o <<j>> # base \o <<k>>
<1>1. (base \o <<j>>)[Len(base) + 1] = j /\ (base \o <<k>>)[Len(base) + 1] = k
  BY DEF Name
<1> QED BY <1>1

\* Among 2 .. |store| + 2 there is a suffix that is free.
LEMMA SuffixExists ==
  ASSUME NEW s, IsFiniteSet(DOMAIN s), NEW base \in Name
  PROVE  \E k \in 2..(Cardinality(DOMAIN s) + 2) : base \o <<k>> \notin DOMAIN s
<1> DEFINE C == Cardinality(DOMAIN s)
           K == 2..(C + 2)
           g == [k \in K |-> base \o <<k>>]
<1>1. C \in Nat
  BY FS_CardinalityType
<1>2. IsFiniteSet(K) /\ Cardinality(K) = C + 1
  BY <1>1, FS_Interval
<1> SUFFICES ASSUME \A k \in K : base \o <<k>> \in DOMAIN s PROVE FALSE
  OBVIOUS
<1>3. g \in [K -> DOMAIN s]
  OBVIOUS
<1>4. Cardinality(DOMAIN s) < Cardinality(K)
  BY <1>1, <1>2
<1>5. \E x, y \in K : x # y /\ g[x] = g[y]
  <2> HIDE DEF g, K, C
  <2> QED BY <1>2, <1>3, <1>4, FS_PigeonHole
<1> QED BY <1>1, <1>5, SuffixInjective

\* The name uniqueStoreName finds is free.
LEMMA UniqueIsFree ==
  ASSUME NEW s, IsFiniteSet(DOMAIN s), NEW base \in Name
  PROVE  UniqueStoreName(s, base) \in Name \ DOMAIN s
<1> DEFINE F == {k \in 2..(Cardinality(DOMAIN s) + 2) : base \o <<k>> \notin DOMAIN s}
<1>1. CASE base \notin DOMAIN s
  BY <1>1 DEF UniqueStoreName
<1>2. CASE base \in DOMAIN s
  <2>1. F \subseteq Nat
    BY FS_CardinalityType
  <2>4. F # {}
    BY SuffixExists
  <2>2. Min(F) \in F /\ Min(F) \in Nat
    BY <2>1, <2>4, MinIsMember
  <2>3. base \o <<Min(F)>> \in Name
    <3> HIDE DEF F
    <3>1. <<Min(F)>> \in Seq(NamePart)
      BY <2>2 DEF NamePart
    <3> QED BY <3>1, ConcatProperties DEF Name
  <2> QED BY <1>2, <2>2, <2>3 DEF UniqueStoreName
<1> QED BY <1>1, <1>2

-----------------------------------------------------------------------------
(* The objects, and the maps over them                                      *)

\* What no step does to the objects h: none is lost, an origin never changes,
\* and a name changes only for a signal of a recording.
Kept(h, h2) ==
  /\ h2 \in Seq(Signal) /\ DOMAIN h \subseteq DOMAIN h2
  /\ \A i \in DOMAIN h :
       /\ h2[i].origin = h[i].origin
       /\ h[i].origin \notin H5Files => h2[i].name = h[i].name

LEMMA StoreKept ==
  ASSUME NEW h, NEW h2, NEW s, StoreOK(h, s), Kept(h, h2)
  PROVE  StoreOK(h2, s)
  BY DEF StoreOK, Kept

LEMMA FilesKept ==
  ASSUME NEW h, NEW h2, NEW o, NEW im, NEW h5, NEW ch, FilesOK(h, o, im, h5, ch),
         Kept(h, h2)
  PROVE  FilesOK(h2, o, im, h5, ch)
  BY DEF FilesOK, Kept

LEMMA SnapKept ==
  ASSUME NEW h, NEW h2, NEW sn, SnapOK(h, sn), Kept(h, h2)
  PROVE  SnapOK(h2, sn)
  BY StoreKept, FilesKept DEF SnapOK

LEMMA AppendKept ==
  ASSUME NEW h \in Seq(Signal), NEW x \in Signal
  PROVE  /\ Kept(h, Append(h, x))
         /\ Len(h) + 1 \in DOMAIN Append(h, x) /\ Append(h, x)[Len(h) + 1] = x
  BY AppendProperties DEF Kept

LEMMA RenameKept ==
  ASSUME NEW h \in Seq(Signal), NEW i \in DOMAIN h, h[i].origin \in H5Files, NEW n \in Name
  PROVE  LET h2 == [h EXCEPT ![i].name = n]
         IN  Kept(h, h2) /\ h2[i].origin = h[i].origin
<1> DEFINE x == [h[i] EXCEPT !.name = n]
           h2 == [h EXCEPT ![i] = x]
<1>1. h[i] \in Signal /\ DOMAIN h = 1..Len(h)
  OBVIOUS
<1>2. x \in Signal /\ x.origin = h[i].origin
  BY <1>1 DEF Signal
<1>3. h2 \in Seq(Signal) /\ DOMAIN h2 = DOMAIN h
  BY <1>2, ExceptSeq
<1>4. \A j \in DOMAIN h : h2[j] = IF j = i THEN x ELSE h[j]
  OBVIOUS
<1> HIDE DEF x
<1> QED BY <1>2, <1>3, <1>4 DEF Kept, x

LEMMA PutOK ==
  ASSUME NEW h, NEW s, StoreOK(h, s), NEW n \in Name, NEW i \in DOMAIN h,
         h[i].origin \notin H5Files => h[i].name = n
  PROVE  StoreOK(h, Put(s, n, i))
<1>1. IsFiniteSet(DOMAIN s \cup {n})
  BY FS_AddElement DEF StoreOK
<1> QED BY <1>1 DEF StoreOK, Put

LEMMA RemoveOK ==
  ASSUME NEW h, NEW s, StoreOK(h, s), NEW N
  PROVE  StoreOK(h, Remove(s, N))
<1>1. IsFiniteSet(DOMAIN s \ N)
  BY FS_Difference DEF StoreOK
<1> QED BY <1>1 DEF StoreOK, Remove, Restrict

\* store_.add() of the objects of a snapshot.
LEMMA AddAllOK ==
  ASSUME heap \in Seq(Signal), NEW s, StoreOK(heap, s), NEW g, StoreOK(heap, g),
         NEW t \in AddAll(s, Range(g))
  PROVE  StoreOK(heap, t)
<1> DEFINE T == {heap[i].name : i \in Range(g)}
           f == [n \in DOMAIN g |-> heap[g[n]].name]
<1>1. f \in Surjection(DOMAIN g, T)
  BY DEF Surjection, Range
<1>2. IsFiniteSet(T)
  <2> HIDE DEF f, T
  <2> QED BY <1>1, FS_Surjection DEF StoreOK
<1>3. IsFiniteSet(DOMAIN s \cup T)
  <2> HIDE DEF T
  <2> QED BY <1>2, FS_Union DEF StoreOK
<1>4. DOMAIN t = DOMAIN s \cup T /\ t \in [DOMAIN t -> DOMAIN heap]
  BY DEF AddAll
<1>5. T \subseteq Name
  <2> SUFFICES ASSUME NEW m \in DOMAIN g PROVE heap[g[m]].name \in Name
    BY DEF Range
  <2>1. g[m] \in DOMAIN heap
    BY DEF StoreOK
  <2>2. heap[g[m]] \in Signal
    BY <2>1
  <2> QED BY <2>2 DEF Signal
<1>6. \A n \in DOMAIN t : heap[t[n]].origin \notin H5Files => heap[t[n]].name = n
  BY <1>4 DEF AddAll, StoreOK
<1> HIDE DEF T
<1> QED BY <1>3, <1>4, <1>5, <1>6 DEF StoreOK

\* A new object goes under a free name and disturbs nothing else.
LEMMA NewSignalOK ==
  ASSUME heap \in Seq(Signal), NEW s, StoreOK(heap, s), NEW base \in Name,
         NEW origin \in Origins, NewSignal(s, base, origin)
  PROVE  LET n == UniqueStoreName(s, base)
         IN  /\ Kept(heap, heap') /\ StoreOK(heap', store')
             /\ n \in Name \ DOMAIN s /\ DOMAIN store' = DOMAIN s \cup {n}
             /\ store'[n] \in DOMAIN heap' /\ heap'[store'[n]].origin = origin
             /\ \A m \in DOMAIN s : store'[m] = s[m]
<1> DEFINE n == UniqueStoreName(s, base)
           x == [name |-> n, origin |-> origin]
<1>1. n \in Name \ DOMAIN s
  BY UniqueIsFree DEF StoreOK
<1> HIDE DEF n
<1>2. x \in Signal
  BY <1>1 DEF Signal
<1> DEFINE k == Len(heap) + 1
<1>3. heap' = Append(heap, x) /\ store' = Put(s, n, k)
  BY DEF NewSignal, n
<1>4. /\ Kept(heap, heap') /\ k \in DOMAIN heap'
      /\ heap'[k].name = n /\ heap'[k].origin = origin
  BY <1>2, <1>3, AppendKept
<1> HIDE DEF k
<1>5. StoreOK(heap', s)
  BY <1>4, StoreKept
<1>6. StoreOK(heap', Put(s, n, k))
  BY <1>1, <1>4, <1>5, PutOK
<1>7. /\ DOMAIN store' = DOMAIN s \cup {n} /\ store'[n] = k
      /\ \A m \in DOMAIN s : store'[m] = s[m]
  <2>1. \A m \in DOMAIN s : m # n
    BY <1>1
  <2> QED BY <1>3, <2>1 DEF Put
<1> QED BY <1>1, <1>3, <1>4, <1>6, <1>7 DEF n

-----------------------------------------------------------------------------
(* Types                                                                    *)

LEMMA BaseIsName ==
  /\ \A x \in Captures \cup Files : <<BaseName[x]>> \in Name
  /\ \A n \in NewNames : <<n>> \in Name
  BY DEF Name, NamePart

LEMMA LoadedSignal ==
  ASSUME TypeOK, NEW f \in H5Files \cap open
  PROVE  /\ h5Signal[f] \in DOMAIN heap /\ heap[h5Signal[f]].origin = f
         /\ H5Name(f) \in Name
<1>1. h5Signal[f] \in DOMAIN heap /\ heap[h5Signal[f]].origin = f
  BY DEF TypeOK, FilesOK
<1>2. heap[h5Signal[f]] \in Signal
  BY <1>1 DEF TypeOK
<1> QED BY <1>1, <1>2 DEF Signal, H5Name

\* What the rest of the state needs when a step only adds or renames objects.
LEMMA CarryOver ==
  ASSUME TypeOK, Kept(heap, heap')
  PROVE  /\ heap' \in Seq(Signal) /\ StoreOK(heap', store)
         /\ FilesOK(heap', open, imported, h5Signal, checked)
         /\ SnapOK(heap', snap)
  BY StoreKept, FilesKept, SnapKept DEF TypeOK, Kept

\* Taking a new list of imported names leaves the file list sound.
LEMMA ImportOK ==
  ASSUME NEW h, NEW o, NEW im, NEW h5, NEW ch, FilesOK(h, o, im, h5, ch),
         NEW f \in o, NEW N \in SUBSET Name
  PROVE  FilesOK(h, o, [im EXCEPT ![f] = N], h5, ch)
  BY DEF FilesOK

\* The files F leave the list.
LEMMA CloseOK ==
  ASSUME TypeOK, NEW F, Close(F)
  PROVE  FilesOK(heap, open', imported', h5Signal', checked')
  BY DEF TypeOK, FilesOK, Close, NoSig

LEMMA TypeInit == Init => TypeOK
<1> SUFFICES ASSUME Init PROVE TypeOK
  OBVIOUS
<1>1. heap \in Seq(Signal)
  BY EmptySeq DEF Init
<1>2. DOMAIN store = {} /\ DOMAIN applied = {} /\ store = <<>> /\ applied = <<>>
  BY DEF Init
<1>3. IsFiniteSet(DOMAIN store)
  BY <1>2, FS_EmptySet
<1>4. StoreOK(heap, store)
  BY <1>2, <1>3 DEF StoreOK
<1>5. FilesOK(heap, open, imported, h5Signal, checked)
  BY DEF Init, FilesOK, NoSig
<1> QED BY <1>1, <1>2, <1>4, <1>5 DEF Init, TypeOK, SnapOK

LEMMA RestrictOK ==
  ASSUME NEW h, NEW s, StoreOK(h, s), NEW D, D \subseteq DOMAIN s
  PROVE  StoreOK(h, Restrict(s, D))
<1>1. IsFiniteSet(D)
  BY FS_Subset DEF StoreOK
<1> QED BY <1>1 DEF StoreOK, Restrict

\* One import that makes a new Signal, as applyCsvWith() does.
LEMMA ImportNewOK ==
  ASSUME TypeOK, NEW f \in open, NEW base \in Name, ImportNew(f, base),
         UNCHANGED <<applied, open, h5Signal, checked, snap, foreign>>
  PROVE  TypeOK'
<1> DEFINE s == Remove(store, imported[f])
           n == UniqueStoreName(s, base)
<1>1. StoreOK(heap, s) /\ heap \in Seq(Signal) /\ f \in Origins
  BY RemoveOK DEF TypeOK, Origins, FilesOK
<1>2. NewSignal(s, base, f) /\ imported' = [imported EXCEPT ![f] = {n}]
  BY DEF ImportNew
<1> HIDE DEF s
<1>3. Kept(heap, heap') /\ StoreOK(heap', store') /\ n \in Name
  BY <1>1, <1>2, NewSignalOK
<1> HIDE DEF n
<1>4. /\ heap' \in Seq(Signal) /\ SnapOK(heap', snap)
      /\ FilesOK(heap', open, imported, h5Signal, checked)
  BY <1>3, CarryOver
<1>5. FilesOK(heap', open, imported', h5Signal, checked)
  BY <1>2, <1>3, <1>4, ImportOK
<1> QED BY <1>3, <1>4, <1>5 DEF TypeOK

LEMMA TypeStep == TypeOK /\ [Next]_vars => TypeOK'
<1> SUFFICES ASSUME TypeOK, [Next]_vars PROVE TypeOK'
  OBVIOUS
<1> USE DEF convVars
<1>1. ASSUME NEW r \in Captures, Send(r) PROVE TypeOK'
  <2> DEFINE s == Remove(store, Sent(r))
             base == <<BaseName[r]>>
             n == UniqueStoreName(s, base)
  <2>1. StoreOK(heap, s) /\ heap \in Seq(Signal) /\ r \in Origins /\ base \in Name
    BY RemoveOK, BaseIsName DEF TypeOK, Origins
  <2>2. NewSignal(s, base, r) /\ applied' = Put(applied, r, n)
    BY <1>1 DEF Send
  <2> HIDE DEF s, base
  <2>3. Kept(heap, heap') /\ StoreOK(heap', store') /\ n \in Name
    BY <2>1, <2>2, NewSignalOK
  <2> HIDE DEF n
  <2>4. /\ heap' \in Seq(Signal) /\ SnapOK(heap', snap)
        /\ FilesOK(heap', open, imported, h5Signal, checked)
    BY <2>3, CarryOver
  <2>5. DOMAIN applied' \in SUBSET Captures /\ applied' \in [DOMAIN applied' -> Name]
    BY <2>2, <2>3 DEF Put, TypeOK
  <2> QED BY <1>1, <2>3, <2>4, <2>5 DEF Send, TypeOK
<1>2. ASSUME NEW f \in Files, OpenH5(f) PROVE TypeOK'
  <2> DEFINE x == [name |-> <<BaseName[f]>>, origin |-> f]
             k == Len(heap) + 1
  <2>1. x \in Signal /\ heap' = Append(heap, x) /\ <<BaseName[f]>> \in Name
    BY <1>2, BaseIsName DEF OpenH5, Signal, Origins
  <2>2. /\ Kept(heap, heap') /\ k \in DOMAIN heap' /\ heap'[k].origin = f
        /\ k \in Nat
    BY <2>1, AppendKept DEF TypeOK
  <2>3. /\ heap' \in Seq(Signal) /\ SnapOK(heap', snap) /\ StoreOK(heap', store)
        /\ FilesOK(heap', open, imported, h5Signal, checked)
    BY <2>2, CarryOver
  <2> HIDE DEF k, x
  <2>4. FilesOK(heap', open', imported', h5Signal', checked')
    BY <1>2, <2>1, <2>2, <2>3 DEF OpenH5, FilesOK, k
  <2> QED BY <1>2, <2>3, <2>4 DEF OpenH5, TypeOK
<1>3. ASSUME NEW f \in Files, OpenCsv(f) PROVE TypeOK'
  <2>1. FilesOK(heap, open', imported, h5Signal, checked)
    BY <1>3, SharedStoreAssumption DEF OpenCsv, TypeOK, FilesOK
  <2> QED BY <1>3, <2>1 DEF OpenCsv, TypeOK
<1>4. ASSUME NEW f \in Files, ApplyCsv(f) PROVE TypeOK'
  BY <1>4, BaseIsName, ImportNewOK DEF ApplyCsv
<1>5. ASSUME NEW f \in Files, ApplyH5(f) PROVE TypeOK'
  <2> DEFINE s == Remove(store, imported[f])
             n == UniqueStoreName(s, H5Name(f))
             i == h5Signal[f]
  <2>1. f \in H5Files \cap open
    BY <1>5 DEF ApplyH5
  <2>2. /\ i \in DOMAIN heap /\ heap[i].origin = f /\ H5Name(f) \in Name
        /\ heap \in Seq(Signal)
    BY <2>1, LoadedSignal DEF TypeOK
  <2>3. StoreOK(heap, s)
    BY RemoveOK DEF TypeOK
  <2> HIDE DEF s
  <2>4. n \in Name
    BY <2>2, <2>3, UniqueIsFree DEF StoreOK
  <2>5. CASE /\ heap' = [heap EXCEPT ![i].name = n] /\ store' = Put(s, n, i)
             /\ imported' = [imported EXCEPT ![f] = {n}]
    <3> HIDE DEF n, i
    <3>1. Kept(heap, heap') /\ heap'[i].origin \in H5Files /\ i \in DOMAIN heap'
      BY <2>1, <2>2, <2>4, <2>5, RenameKept
    <3>2. /\ heap' \in Seq(Signal) /\ SnapOK(heap', snap)
          /\ FilesOK(heap', open, imported, h5Signal, checked)
      BY <3>1, CarryOver
    <3>3. StoreOK(heap', s)
      BY <2>3, <3>1, StoreKept
    <3>4. StoreOK(heap', store')
      BY <2>4, <2>5, <3>1, <3>3, PutOK
    <3>5. FilesOK(heap', open, imported', h5Signal, checked)
      BY <2>1, <2>4, <2>5, <3>2, ImportOK
    <3> QED BY <1>5, <3>2, <3>4, <3>5 DEF ApplyH5, TypeOK
  <2>6. CASE /\ heap' = heap /\ store' = s
             /\ imported' = [imported EXCEPT ![f] = {}]
    <3>1. FilesOK(heap, open, imported', h5Signal, checked)
      BY <2>1, <2>6, ImportOK DEF TypeOK
    <3> QED BY <1>5, <2>3, <2>6, <3>1 DEF ApplyH5, TypeOK
  <2> QED BY <1>5, <2>5, <2>6 DEF ApplyH5, s
<1>6. ASSUME NEW f \in Files, ApplyH5Shifted(f) PROVE TypeOK'
  BY <1>6, LoadedSignal, ImportNewOK DEF ApplyH5Shifted
<1>7. ASSUME NEW f \in Files, Tick(f) PROVE TypeOK'
  <2>1. H5Name(f) \in Name
    BY <1>7, LoadedSignal DEF Tick
  <2>2. FilesOK(heap, open, imported, h5Signal, checked')
    BY <1>7, <2>1 DEF Tick, TypeOK, FilesOK
  <2> QED BY <1>7, <2>2 DEF Tick, TypeOK
<1>8. ASSUME NEW f \in Files, RemoveFile(f) PROVE TypeOK'
  <2>1. StoreOK(heap, store')
    BY <1>8, RemoveOK DEF RemoveFile, TypeOK
  <2>2. FilesOK(heap, open', imported', h5Signal', checked')
    BY <1>8, CloseOK DEF RemoveFile
  <2> QED BY <1>8, <2>1, <2>2 DEF RemoveFile, TypeOK
<1>9. CASE LoadWorkspace
  <2>1. StoreOK(heap, store')
    BY <1>9, RemoveOK DEF LoadWorkspace, TypeOK
  <2>2. FilesOK(heap, open', imported', h5Signal', checked')
    BY <1>9, CloseOK DEF LoadWorkspace
  <2> QED BY <1>9, <2>1, <2>2 DEF LoadWorkspace, TypeOK
<1>10. ASSUME NEW n \in NewNames, AddChannel(n) PROVE TypeOK'
  <2>1. Kept(heap, heap') /\ StoreOK(heap', store')
    BY <1>10, NewSignalOK, BaseIsName DEF AddChannel, TypeOK, Origins
  <2> QED BY <1>10, <2>1, CarryOver DEF AddChannel, TypeOK
<1>11. ASSUME NEW n \in DOMAIN store, RemoveChannel(n) PROVE TypeOK'
  <2>1. StoreOK(heap, store')
    BY <1>11, RemoveOK DEF RemoveChannel, TypeOK
  <2> QED BY <1>11, <2>1 DEF RemoveChannel, ForeignOp, TypeOK
<1>12. ASSUME NEW from \in DOMAIN store, NEW m \in NewNames, Rename(from, <<m>>)
       PROVE  TypeOK'
  <2> DEFINE to == <<m>>
             x == [name |-> to, origin |-> heap[store[from]].origin]
             k == Len(heap) + 1
             s == Remove(store, {from})
  <2>1. to \in Name
    BY BaseIsName
  <2>2. heap[store[from]] \in Signal
    BY DEF TypeOK, StoreOK
  <2> HIDE DEF to
  <2>3. x \in Signal /\ heap' = Append(heap, x) /\ store' = Put(s, to, k)
    BY <1>12, <2>1, <2>2 DEF Rename, Origin, Signal, to
  <2>4. Kept(heap, heap') /\ k \in DOMAIN heap' /\ heap'[k].name = to
    BY <2>3, AppendKept DEF TypeOK
  <2>5. /\ heap' \in Seq(Signal) /\ SnapOK(heap', snap) /\ StoreOK(heap', store)
        /\ FilesOK(heap', open, imported, h5Signal, checked)
    BY <2>4, CarryOver
  <2> HIDE DEF k, x
  <2>6. StoreOK(heap', s)
    BY <2>5, RemoveOK
  <2> HIDE DEF s
  <2>7. StoreOK(heap', store')
    BY <2>1, <2>3, <2>4, <2>6, PutOK
  <2>8. FilesOK(heap', open, imported', h5Signal, checked)
    BY <1>12, <2>1, <2>5 DEF Rename, RenamedImports, Moved, FilesOK, to
  <2>9. DOMAIN applied' \in SUBSET Captures /\ applied' \in [DOMAIN applied' -> Name]
    BY <1>12, <2>1 DEF Rename, RenamedApplied, TypeOK, to
  <2> QED BY <1>12, <2>5, <2>7, <2>8, <2>9 DEF Rename, TypeOK
<1>13. CASE ConverterCapture
  <2> DEFINE g == Restrict(store, (UNION Range(imported)) \cap DOMAIN store)
  <2>1. StoreOK(heap, g)
    BY RestrictOK DEF TypeOK
  <2> HIDE DEF g
  <2>2. snap' = [by |-> "converter", open |-> open, imported |-> imported,
                 h5Signal |-> h5Signal, checked |-> checked, signals |-> g]
    BY <1>13 DEF ConverterCapture, g
  <2>3. SnapOK(heap, snap')
    BY <2>1, <2>2 DEF SnapOK, TypeOK
  <2> QED BY <1>13, <2>3 DEF ConverterCapture, TypeOK
<1>14. CASE ConverterRestore
  <2> DEFINE s == Remove(store, (UNION Range(imported)) \ DOMAIN snap.signals)
  <2>1. StoreOK(heap, s)
    BY RemoveOK DEF TypeOK
  <2>2. /\ StoreOK(heap, snap.signals)
        /\ FilesOK(heap, snap.open, snap.imported, snap.h5Signal, snap.checked)
    BY <1>14 DEF ConverterRestore, TypeOK, SnapOK, NoSnap
  <2>3. store' \in AddAll(s, Range(snap.signals))
    BY <1>14 DEF ConverterRestore
  <2>4. StoreOK(heap, store')
    BY <2>1, <2>2, <2>3, AddAllOK DEF TypeOK
  <2> QED BY <1>14, <2>2, <2>4 DEF ConverterRestore, ForeignOp, TypeOK
<1>15. CASE AnalyserCapture
  BY <1>15 DEF AnalyserCapture, TypeOK, SnapOK
<1>16. CASE AnalyserRestore
  <2> DEFINE s == Restrict(store, DOMAIN snap.signals \cap DOMAIN store)
  <2>1. StoreOK(heap, s)
    BY RestrictOK DEF TypeOK
  <2>2. StoreOK(heap, snap.signals)
    BY <1>16 DEF AnalyserRestore, TypeOK, SnapOK, NoSnap
  <2>3. StoreOK(heap, store')
    BY <1>16, <2>1, <2>2, AddAllOK DEF AnalyserRestore, TypeOK
  <2> QED BY <1>16, <2>3 DEF AnalyserRestore, ForeignOp, TypeOK
<1>17. CASE UNCHANGED vars
  BY <1>17 DEF vars, TypeOK
<1> QED
  BY <1>1, <1>2, <1>3, <1>4, <1>5, <1>6, <1>7, <1>8, <1>9, <1>10, <1>11, <1>12,
     <1>13, <1>14, <1>15, <1>16, <1>17
     DEF Next

\* Every pointer of the store, the file list and the snapshots is to an object
\* that exists, under the name it is known by, through every send, import,
\* renaming and undo.
THEOREM TypeCorrect == Spec => []TypeOK
  BY TypeInit, TypeStep, PTL DEF Spec

-----------------------------------------------------------------------------
(* Ownership                                                                *)

\* What replacing the channels N by one new channel n of the origin w does to
\* the store: everything else stays.
Replaced(N, n, w) ==
  /\ n \notin DOMAIN store \ N
  /\ DOMAIN store' = (DOMAIN store \ N) \cup {n}
  /\ \A m \in DOMAIN store \ N : store'[m] = store[m]
  /\ store'[n] \in DOMAIN heap' /\ heap'[store'[n]].origin = w
  /\ \A m \in DOMAIN store :
       store[m] \in DOMAIN heap /\ heap'[store[m]].origin = heap[store[m]].origin

LEMMA NewSignalReplaces ==
  ASSUME TypeOK, NEW N, NEW base \in Name, NEW w \in Origins,
         NewSignal(Remove(store, N), base, w)
  PROVE  Replaced(N, UniqueStoreName(Remove(store, N), base), w)
<1> DEFINE s == Remove(store, N)
           n == UniqueStoreName(s, base)
<1>1. StoreOK(heap, s) /\ heap \in Seq(Signal)
  BY RemoveOK DEF TypeOK
<1>2. DOMAIN s = DOMAIN store \ N /\ \A m \in DOMAIN store \ N : s[m] = store[m]
  BY DEF Remove, Restrict
<1> HIDE DEF s
<1>3. /\ Kept(heap, heap') /\ n \notin DOMAIN s /\ DOMAIN store' = DOMAIN s \cup {n}
      /\ store'[n] \in DOMAIN heap' /\ heap'[store'[n]].origin = w
      /\ \A m \in DOMAIN s : store'[m] = s[m]
  BY <1>1, NewSignalOK DEF s
<1> HIDE DEF n
<1>4. \A m \in DOMAIN store : store[m] \in DOMAIN heap
  BY DEF TypeOK, StoreOK
<1>5. Replaced(N, n, w)
  BY <1>2, <1>3, <1>4 DEF Replaced, Kept
<1> QED BY <1>5 DEF n, s

\* An import that replaces what the file listed by one channel of its own.
LEMMA ImportOwned ==
  ASSUME TypeOK, OwnershipExact, NEW f \in open, NEW n, Replaced(imported[f], n, f),
         imported' = [imported EXCEPT ![f] = {n}],
         UNCHANGED <<applied, open, foreign>>
  PROVE  OwnershipExact'
<1> SUFFICES ASSUME foreign' = 0 PROVE OwnershipExact'
  BY DEF OwnershipExact
<1> USE DEF Origin, Sent
<1>1. f \in Files /\ open \subseteq Files /\ imported \in [Files -> SUBSET Name]
  BY DEF TypeOK, FilesOK
<1>2. ASSUME NEW r \in DOMAIN applied'
      PROVE  applied'[r] \in DOMAIN store' /\ heap'[store'[applied'[r]]].origin = r
  <2>1. r # f /\ applied[r] \in DOMAIN store /\ heap[store[applied[r]]].origin = r
    BY <1>1, SharedStoreAssumption DEF OwnershipExact, TypeOK
  <2>2. applied[r] \notin imported[f]
    BY <2>1 DEF OwnershipExact
  <2> QED BY <2>1, <2>2 DEF Replaced
<1>3. ASSUME NEW g \in open', NEW m \in imported'[g]
      PROVE  m \in DOMAIN store' /\ heap'[store'[m]].origin = g
  <2>1. CASE g = f
    BY <1>1, <2>1 DEF Replaced
  <2>2. CASE g # f
    <3>1. m \in imported[g] /\ m \in DOMAIN store /\ heap[store[m]].origin = g
      BY <1>1, <2>2 DEF OwnershipExact
    <3>2. m \notin imported[f]
      BY <2>2, <3>1 DEF OwnershipExact
    <3> QED BY <3>1, <3>2 DEF Replaced
  <2> QED BY <2>1, <2>2
<1>4. ASSUME NEW m \in DOMAIN store'
      PROVE  LET w == heap'[store'[m]].origin
             IN  /\ w \in Captures => w \in DOMAIN applied /\ m = applied[w]
                 /\ w \in Files => m \in imported'[w]
  <2>1. CASE m = n
    BY <1>1, <2>1, SharedStoreAssumption DEF Replaced
  <2>2. CASE m # n
    <3>1. /\ m \in DOMAIN store \ imported[f] /\ store'[m] = store[m]
          /\ heap'[store'[m]].origin = heap[store[m]].origin
      BY <2>2 DEF Replaced
    <3>2. heap[store[m]].origin # f
      BY <1>1, <3>1 DEF OwnershipExact
    <3> QED BY <1>1, <3>1, <3>2 DEF OwnershipExact
  <2> QED BY <2>1, <2>2
<1> QED BY <1>1, <1>2, <1>3, <1>4 DEF OwnershipExact

\* The files F take what they imported out of the store and leave nothing listed.
LEMMA WithdrawOwned ==
  ASSUME TypeOK, OwnershipExact, NEW F, F \subseteq open, NEW N,
         \A m : m \in N <=> \E f \in F : m \in imported[f],
         store' = Remove(store, N),
         \A f \in Files : imported'[f] = IF f \in F THEN {} ELSE imported[f],
         open' \subseteq open, UNCHANGED <<heap, applied, foreign>>
  PROVE  OwnershipExact'
<1> SUFFICES ASSUME foreign' = 0 PROVE OwnershipExact'
  BY DEF OwnershipExact
<1> USE DEF Origin, Sent
<1>1. open \subseteq Files /\ DOMAIN applied \subseteq Captures
  BY DEF TypeOK, FilesOK
<1>2. /\ DOMAIN store' = DOMAIN store \ N
      /\ \A m \in DOMAIN store \ N : store'[m] = store[m]
  BY DEF Remove, Restrict
<1>3. ASSUME NEW r \in DOMAIN applied'
      PROVE  applied'[r] \in DOMAIN store' /\ heap'[store'[applied'[r]]].origin = r
  <2>1. applied[r] \in DOMAIN store /\ heap[store[applied[r]]].origin = r
    BY DEF OwnershipExact
  <2>2. applied[r] \notin N
    BY <1>1, <2>1, SharedStoreAssumption DEF OwnershipExact
  <2> QED BY <1>2, <2>1, <2>2
<1>4. ASSUME NEW g \in open', NEW m \in imported'[g]
      PROVE  m \in DOMAIN store' /\ heap'[store'[m]].origin = g
  <2>1. /\ g \notin F /\ m \in imported[g] /\ m \in DOMAIN store
        /\ heap[store[m]].origin = g
    BY <1>1 DEF OwnershipExact
  <2>2. m \notin N
    BY <2>1 DEF OwnershipExact
  <2> QED BY <1>2, <2>1, <2>2
<1>5. ASSUME NEW m \in DOMAIN store'
      PROVE  LET w == heap'[store'[m]].origin
             IN  /\ w \in Captures => w \in DOMAIN applied /\ m = applied[w]
                 /\ w \in Files => m \in imported'[w]
  BY <1>2 DEF OwnershipExact
<1> QED BY <1>3, <1>4, <1>5 DEF OwnershipExact

LEMMA OwnershipStep == TypeOK /\ OwnershipExact /\ [Next]_vars => OwnershipExact'
<1> SUFFICES ASSUME TypeOK, OwnershipExact, [Next]_vars PROVE OwnershipExact'
  OBVIOUS
<1> USE DEF convVars
<1>0. open \subseteq Files /\ foreign \in Nat
  BY DEF TypeOK, FilesOK
<1>1. ASSUME NEW r \in Captures, Send(r) PROVE OwnershipExact'
  <2> DEFINE n == UniqueStoreName(Remove(store, Sent(r)), <<BaseName[r]>>)
  <2>1. Replaced(Sent(r), n, r)
    BY <1>1, NewSignalReplaces, BaseIsName DEF Send, Origins
  <2>2. applied' = Put(applied, r, n) /\ UNCHANGED <<imported, open, foreign>>
    BY <1>1 DEF Send
  <2> HIDE DEF n
  <2> SUFFICES ASSUME foreign' = 0 PROVE OwnershipExact'
    BY DEF OwnershipExact
  <2> USE DEF Origin
  <2>3. /\ DOMAIN applied' = DOMAIN applied \cup {r} /\ applied'[r] = n
        /\ \A q \in DOMAIN applied : q # r => applied'[q] = applied[q]
    BY <2>2 DEF Put
  <2>4. ASSUME NEW q \in DOMAIN applied'
        PROVE  applied'[q] \in DOMAIN store' /\ heap'[store'[applied'[q]]].origin = q
    <3>1. CASE q = r
      BY <2>1, <2>3, <3>1 DEF Replaced
    <3>2. CASE q # r
      <4>1. /\ applied'[q] = applied[q] /\ applied[q] \in DOMAIN store
            /\ heap[store[applied[q]]].origin = q
        BY <2>2, <2>3, <3>2 DEF OwnershipExact
      <4>2. applied[q] \notin Sent(r)
        BY <2>2, <3>2, <4>1 DEF OwnershipExact, Sent
      <4> QED BY <2>1, <4>1, <4>2 DEF Replaced
    <3> QED BY <3>1, <3>2
  <2>5. ASSUME NEW g \in open', NEW m \in imported'[g]
        PROVE  m \in DOMAIN store' /\ heap'[store'[m]].origin = g
    <3>1. m \in DOMAIN store /\ heap[store[m]].origin = g /\ g # r
      BY <1>0, <2>2, SharedStoreAssumption DEF OwnershipExact
    <3>2. m \notin Sent(r)
      BY <2>2, <3>1 DEF OwnershipExact, Sent
    <3> QED BY <2>1, <3>1, <3>2 DEF Replaced
  <2>6. ASSUME NEW m \in DOMAIN store'
        PROVE  LET w == heap'[store'[m]].origin
               IN  /\ w \in Captures => w \in DOMAIN applied' /\ m = applied'[w]
                   /\ w \in Files => m \in imported'[w]
    <3>1. CASE m = n
      BY <2>1, <2>3, <3>1, SharedStoreAssumption DEF Replaced
    <3>2. CASE m # n
      <4>1. /\ m \in DOMAIN store \ Sent(r) /\ store'[m] = store[m]
            /\ heap'[store'[m]].origin = heap[store[m]].origin
        BY <2>1, <3>2 DEF Replaced
      <4>2. heap[store[m]].origin # r
        BY <2>2, <4>1 DEF OwnershipExact
      <4> QED BY <2>2, <2>3, <4>1, <4>2 DEF OwnershipExact, Sent
    <3> QED BY <3>1, <3>2
  <2> QED BY <2>4, <2>5, <2>6 DEF OwnershipExact, Sent
<1>2. ASSUME NEW f \in Files, OpenH5(f) PROVE OwnershipExact'
  <2>1. imported[f] = {}
    BY <1>2 DEF OpenH5, TypeOK, FilesOK
  <2>2. [name |-> <<BaseName[f]>>, origin |-> f] \in Signal
    BY BaseIsName DEF Signal, Origins
  <2>3. Kept(heap, heap')
    BY <1>2, <2>2, AppendKept DEF OpenH5, TypeOK
  <2>4. \A m \in DOMAIN store : heap'[store[m]].origin = heap[store[m]].origin
    BY <2>3 DEF Kept, TypeOK, StoreOK
  <2> QED BY <1>2, <2>1, <2>4 DEF OpenH5, OwnershipExact, Origin, Sent
<1>3. ASSUME NEW f \in Files, OpenCsv(f) PROVE OwnershipExact'
  <2>1. imported[f] = {}
    BY <1>3 DEF OpenCsv, TypeOK, FilesOK
  <2> QED BY <1>3, <2>1 DEF OpenCsv, OwnershipExact, Origin, Sent
<1>4. ASSUME NEW f \in Files, ApplyCsv(f) PROVE OwnershipExact'
  <2>1. Replaced(imported[f], UniqueStoreName(Remove(store, imported[f]), <<BaseName[f]>>), f)
    BY <1>4, NewSignalReplaces, BaseIsName DEF ApplyCsv, ImportNew, Origins
  <2> QED BY <1>4, <2>1, ImportOwned DEF ApplyCsv, ImportNew
<1>5. ASSUME NEW f \in Files, ApplyH5(f) PROVE OwnershipExact'
  <2> DEFINE s == Remove(store, imported[f])
             n == UniqueStoreName(s, H5Name(f))
             i == h5Signal[f]
  <2>1. f \in H5Files \cap open
    BY <1>5 DEF ApplyH5
  <2>2. /\ i \in DOMAIN heap /\ heap[i].origin = f /\ H5Name(f) \in Name
        /\ heap \in Seq(Signal)
    BY <2>1, LoadedSignal DEF TypeOK
  <2>3. CASE /\ heap' = [heap EXCEPT ![i].name = n] /\ store' = Put(s, n, i)
             /\ imported' = [imported EXCEPT ![f] = {n}]
    <3>1. IsFiniteSet(DOMAIN s) /\ DOMAIN s = DOMAIN store \ imported[f]
      BY RemoveOK DEF TypeOK, StoreOK, Remove, Restrict
    <3>2. n \in Name \ DOMAIN s
      BY <2>2, <3>1, UniqueIsFree
    <3>3. \A m \in DOMAIN store \ imported[f] : s[m] = store[m]
      BY DEF Remove, Restrict
    <3> HIDE DEF s, n, i
    <3>4. Kept(heap, heap') /\ heap'[i].origin = f
      BY <2>1, <2>2, <2>3, <3>2, RenameKept
    <3>5. /\ DOMAIN store' = DOMAIN s \cup {n} /\ store'[n] = i
          /\ \A m \in DOMAIN s : store'[m] = s[m]
      BY <2>3, <3>2 DEF Put
    <3>6. \A m \in DOMAIN store :
            store[m] \in DOMAIN heap /\ heap'[store[m]].origin = heap[store[m]].origin
      BY <3>4 DEF Kept, TypeOK, StoreOK
    <3>7. Replaced(imported[f], n, f)
      BY <2>2, <3>1, <3>2, <3>3, <3>4, <3>5, <3>6 DEF Replaced, Kept
    <3> QED BY <1>5, <2>1, <2>3, <3>7, ImportOwned DEF ApplyH5
  <2>4. CASE /\ heap' = heap /\ store' = s
             /\ imported' = [imported EXCEPT ![f] = {}]
    <3>1. \A g \in Files : imported'[g] = IF g \in {f} THEN {} ELSE imported[g]
      BY <2>4 DEF TypeOK, FilesOK
    <3>2. \A m : m \in imported[f] <=> \E g \in {f} : m \in imported[g]
      OBVIOUS
    <3> QED BY <1>5, <2>1, <2>4, <3>1, <3>2, WithdrawOwned DEF ApplyH5
  <2> QED BY <1>5, <2>3, <2>4 DEF ApplyH5
<1>6. ASSUME NEW f \in Files, ApplyH5Shifted(f) PROVE OwnershipExact'
  <2>1. Replaced(imported[f], UniqueStoreName(Remove(store, imported[f]), H5Name(f)), f)
    BY <1>6, NewSignalReplaces, LoadedSignal DEF ApplyH5Shifted, ImportNew, Origins
  <2> QED BY <1>6, <2>1, ImportOwned DEF ApplyH5Shifted, ImportNew
<1>7. ASSUME NEW f \in Files, Tick(f) PROVE OwnershipExact'
  BY <1>7 DEF Tick, OwnershipExact, Origin, Sent
<1>8. ASSUME NEW f \in Files, RemoveFile(f) PROVE OwnershipExact'
  <2>1. \A g \in Files : imported'[g] = IF g \in {f} THEN {} ELSE imported[g]
    BY <1>8 DEF RemoveFile, Close
  <2>2. \A m : m \in imported[f] <=> \E g \in {f} : m \in imported[g]
    OBVIOUS
  <2>3. {f} \subseteq open /\ open' \subseteq open
    BY <1>8 DEF RemoveFile, Close
  <2> QED BY <1>8, <2>1, <2>2, <2>3, WithdrawOwned DEF RemoveFile
<1>9. CASE LoadWorkspace
  <2> DEFINE N == UNION {imported[f] : f \in open}
  <2>1. \A g \in Files : imported'[g] = IF g \in open THEN {} ELSE imported[g]
    BY <1>9 DEF LoadWorkspace, Close
  <2>2. \A m : m \in N <=> \E g \in open : m \in imported[g]
    OBVIOUS
  <2>3. open' \subseteq open /\ store' = Remove(store, N)
    BY <1>9 DEF LoadWorkspace, Close
  <2> HIDE DEF N
  <2> QED BY <1>9, <2>1, <2>2, <2>3, WithdrawOwned DEF LoadWorkspace
<1>10. ASSUME NEW c \in NewNames, AddChannel(c) PROVE OwnershipExact'
  <2> DEFINE n == UniqueStoreName(Remove(store, {}), <<c>>)
  <2>1. store = Remove(store, {})
    BY DEF Remove, Restrict, TypeOK, StoreOK
  <2>2. Replaced({}, n, "analyser")
    BY <1>10, <2>1, NewSignalReplaces, BaseIsName DEF AddChannel, Origins
  <2> HIDE DEF n
  <2> QED BY <1>0, <1>10, <2>2, SharedStoreAssumption
          DEF AddChannel, Replaced, OwnershipExact, Origin, Sent
<1>11. ASSUME NEW n \in DOMAIN store, RemoveChannel(n) PROVE OwnershipExact'
  BY <1>0, <1>11 DEF RemoveChannel, ForeignOp, OwnershipExact
<1>13. CASE ConverterCapture
  BY <1>13 DEF ConverterCapture, OwnershipExact, Origin, Sent
<1>14. CASE ConverterRestore
  BY <1>0, <1>14 DEF ConverterRestore, ForeignOp, OwnershipExact
<1>15. CASE AnalyserCapture
  BY <1>15 DEF AnalyserCapture, OwnershipExact, Origin, Sent
<1>16. CASE AnalyserRestore
  BY <1>0, <1>16 DEF AnalyserRestore, ForeignOp, OwnershipExact
<1>17. CASE UNCHANGED vars
  BY <1>17 DEF vars, OwnershipExact, Origin, Sent
<1>12. ASSUME NEW from \in DOMAIN store, NEW c \in NewNames, Rename(from, <<c>>)
       PROVE  OwnershipExact'
  <2> DEFINE to == <<c>>
             w == heap[store[from]].origin
             x == [name |-> to, origin |-> w]
  <2>1. to \in Name /\ to \notin DOMAIN store /\ heap[store[from]] \in Signal
    BY <1>12, BaseIsName DEF Rename, TypeOK, StoreOK
  <2> HIDE DEF to
  <2>2. x \in Signal /\ heap' = Append(heap, x)
        /\ store' = Put(Remove(store, {from}), to, Len(heap) + 1)
        /\ applied' = RenamedApplied(from, to) /\ imported' = RenamedImports(from, to)
        /\ UNCHANGED <<open, foreign>>
    BY <1>12, <2>1 DEF Rename, Origin, Signal, to
  <2>3. /\ Kept(heap, heap') /\ Len(heap) + 1 \in DOMAIN heap'
        /\ heap'[Len(heap) + 1].origin = w
    BY <2>2, AppendKept DEF TypeOK
  <2>4. /\ DOMAIN store' = (DOMAIN store \ {from}) \cup {to}
        /\ store'[to] = Len(heap) + 1
        /\ \A m \in DOMAIN store \ {from} : store'[m] = store[m]
    BY <2>1, <2>2 DEF Put, Remove, Restrict
  <2>5. \A m \in DOMAIN store : heap'[store[m]].origin = heap[store[m]].origin
    BY <2>3 DEF Kept, TypeOK, StoreOK
  <2>6. heap'[store'[to]].origin = w
    BY <2>3, <2>4
  <2>7. \A m \in DOMAIN store \ {from} :
          heap'[store'[m]].origin = heap[store[m]].origin
    BY <2>4, <2>5
  <2> SUFFICES ASSUME foreign' = 0 PROVE OwnershipExact'
    BY DEF OwnershipExact
  <2> HIDE DEF x
  <2>8. ASSUME NEW q \in DOMAIN applied'
        PROVE  applied'[q] \in DOMAIN store' /\ heap'[store'[applied'[q]]].origin = q
    <3>1. /\ q \in DOMAIN applied /\ applied[q] \in DOMAIN store
          /\ heap[store[applied[q]]].origin = q
          /\ applied'[q] = IF applied[q] = from THEN to ELSE applied[q]
      BY <2>2 DEF RenamedApplied, OwnershipExact, Origin
    <3> QED BY <2>4, <2>6, <2>7, <3>1
  <2>9. ASSUME NEW g \in open', NEW m \in imported'[g]
        PROVE  m \in DOMAIN store' /\ heap'[store'[m]].origin = g
    <3>1. /\ g \in open /\ \A p \in imported[g] : p \in DOMAIN store /\ heap[store[p]].origin = g
          /\ imported'[g] = Moved(imported[g], from, to)
      BY <1>0, <2>2 DEF RenamedImports, OwnershipExact, Origin
    <3> QED BY <2>4, <2>6, <2>7, <3>1 DEF Moved
  <2>10. ASSUME NEW m \in DOMAIN store'
         PROVE  LET v == heap'[store'[m]].origin
                IN  /\ v \in Captures => v \in DOMAIN applied' /\ m = applied'[v]
                    /\ v \in Files => m \in imported'[v]
    <3> DEFINE p == IF m = to THEN from ELSE m
               v == heap'[store'[m]].origin
    <3>1. p \in DOMAIN store /\ v = heap[store[p]].origin /\ (m # to => m # from)
      BY <2>1, <2>4, <2>6, <2>7
    <3>2. /\ v \in Captures => v \in DOMAIN applied /\ p = applied[v]
          /\ v \in Files => p \in imported[v]
      BY <2>2, <3>1 DEF OwnershipExact, Origin, Sent
    <3> HIDE DEF v
    <3>3. v \in Captures => v \in DOMAIN applied' /\ m = applied'[v]
      BY <2>2, <3>1, <3>2 DEF RenamedApplied
    <3>4. v \in Files => m \in imported'[v]
      BY <2>2, <3>1, <3>2 DEF RenamedImports, Moved
    <3> QED BY <3>3, <3>4 DEF v
  <2> QED BY <2>8, <2>9, <2>10 DEF OwnershipExact, Origin, Sent
<1> QED
  BY <1>1, <1>2, <1>3, <1>4, <1>5, <1>6, <1>7, <1>8, <1>9, <1>10, <1>11, <1>12,
     <1>13, <1>14, <1>15, <1>16, <1>17
     DEF Next

LEMMA OwnershipInit == Init => OwnershipExact
  BY DEF Init, OwnershipExact

\* As long as nobody removes another's channel or undoes, what the Recorder and
\* the Converter list as theirs is exactly what they put in the store, for any
\* number of captures, files, re-sends, re-imports and renamings.
THEOREM ListsAreExact == Spec => []OwnershipExact
  BY TypeInit, TypeStep, OwnershipInit, OwnershipStep, PTL DEF Spec

-----------------------------------------------------------------------------
(* What a tool may not touch                                                *)

LEMMA NewSignalLeaves ==
  ASSUME TypeOK, NEW N, NEW base \in Name, NEW w \in Origins,
         NewSignal(Remove(store, N), base, w)
  PROVE  Unchanged(DOMAIN store \ N)
<1>1. Replaced(N, UniqueStoreName(Remove(store, N), base), w)
  BY NewSignalReplaces
<1> QED BY <1>1 DEF Replaced, Unchanged

\* An undo in the Analyser: re-adding a snapshot whose objects still have the
\* names they were captured under gives the snapshot back.
LEMMA RestoreIsExact ==
  ASSUME TypeOK, AnalyserRestore,
         \A i \in Range(snap.signals) : Origin(i) \notin H5Files
  PROVE  store' = snap.signals
<1> DEFINE g == snap.signals
           s == Restrict(store, DOMAIN g \cap DOMAIN store)
<1>1. StoreOK(heap, g)
  BY DEF AnalyserRestore, TypeOK, SnapOK, NoSnap
<1>2. store' \in AddAll(s, Range(g)) /\ DOMAIN s = DOMAIN g \cap DOMAIN store
  BY DEF AnalyserRestore, Restrict
<1>3. \A n \in DOMAIN g : g[n] \in Range(g) /\ heap[g[n]].name = n
  BY <1>1 DEF StoreOK, Range, Origin
<1>4. \A i \in Range(g) : \E n \in DOMAIN g : i = g[n] /\ heap[i].name = n
  BY <1>3 DEF Range
<1> HIDE DEF g, s
<1>5. {heap[i].name : i \in Range(g)} = DOMAIN g
  BY <1>3, <1>4
<1>6. DOMAIN store' = DOMAIN g /\ store' = [n \in DOMAIN g |-> store'[n]]
  <2> DEFINE D == DOMAIN s \cup {heap[i].name : i \in Range(g)}
  <2>1. store' \in [D -> DOMAIN heap]
    BY <1>2 DEF AddAll
  <2>2. D = DOMAIN g
    BY <1>2, <1>5
  <2> HIDE DEF D
  <2> QED BY <2>1, <2>2
<1>7. ASSUME NEW n \in DOMAIN g PROVE store'[n] = g[n]
  <2>1. store'[n] \in {i \in Range(g) : heap[i].name = n}
    BY <1>2, <1>3, <1>6 DEF AddAll
  <2> QED BY <1>4, <2>1
<1>8. g = [n \in DOMAIN g |-> g[n]]
  BY <1>1 DEF StoreOK
<1> QED BY <1>6, <1>7, <1>8 DEF g

\* Sending, importing or adding a channel leaves every channel alone that the
\* tool had not listed itself, and an undo in the Analyser restores exactly the
\* channels it captured, unless a recording's signal is among them.
THEOREM ToolsKeepOthers == Spec => OthersKept
<1>1. ASSUME TypeOK, NEW r \in Captures, Send(r)
      PROVE  Unchanged(DOMAIN store \ Sent(r))
  BY <1>1, NewSignalLeaves, BaseIsName DEF Send, Origins
<1>2. ASSUME TypeOK, NEW f \in Files, ApplyCsv(f)
      PROVE  Unchanged(DOMAIN store \ imported[f])
  BY <1>2, NewSignalLeaves, BaseIsName DEF ApplyCsv, ImportNew, Origins
<1>3. ASSUME TypeOK, NEW f \in Files, ApplyH5Shifted(f)
      PROVE  Unchanged(DOMAIN store \ imported[f])
  BY <1>3, NewSignalLeaves, LoadedSignal DEF ApplyH5Shifted, ImportNew, Origins
<1>4. ASSUME TypeOK, NEW f \in Files, ApplyH5(f)
      PROVE  Unchanged(DOMAIN store \ imported[f])
  <2> DEFINE s == Remove(store, imported[f])
             n == UniqueStoreName(s, H5Name(f))
  <2>1. IsFiniteSet(DOMAIN s) /\ DOMAIN s = DOMAIN store \ imported[f]
    BY <1>4, RemoveOK DEF TypeOK, StoreOK, Remove, Restrict
  <2>2. \A m \in DOMAIN store \ imported[f] : s[m] = store[m]
    BY DEF Remove, Restrict
  <2>3. n \notin DOMAIN s
    BY <1>4, <2>1, LoadedSignal, UniqueIsFree DEF ApplyH5
  <2>4. store' = s \/ store' = Put(s, n, h5Signal[f])
    BY <1>4 DEF ApplyH5
  <2> HIDE DEF s, n
  <2> QED BY <2>1, <2>2, <2>3, <2>4 DEF Unchanged, Put
<1>5. ASSUME TypeOK, NEW n \in NewNames, AddChannel(n) PROVE Unchanged(DOMAIN store)
  <2>1. store = Remove(store, {})
    BY <1>5 DEF Remove, Restrict, TypeOK, StoreOK
  <2>2. Unchanged(DOMAIN store \ {})
    BY <1>5, <2>1, NewSignalLeaves, BaseIsName DEF AddChannel, Origins
  <2> QED BY <2>2 DEF Unchanged
<1>6. TypeOK =>
        /\ \A r \in Captures : Send(r) => Unchanged(DOMAIN store \ Sent(r))
        /\ \A f \in Files : ApplyCsv(f) \/ ApplyH5(f) \/ ApplyH5Shifted(f)
                              => Unchanged(DOMAIN store \ imported[f])
        /\ \A n \in NewNames : AddChannel(n) => Unchanged(DOMAIN store)
        /\ AnalyserRestore /\ (\A i \in Range(snap.signals) : Origin(i) \notin H5Files)
             => store' = snap.signals
  BY <1>1, <1>2, <1>3, <1>4, <1>5, RestoreIsExact
<1> QED BY <1>6, TypeCorrect, PTL DEF Spec, OthersKept
=============================================================================
