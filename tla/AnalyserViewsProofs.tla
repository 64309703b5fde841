------------------------ MODULE AnalyserViewsProofs ------------------------
(***************************************************************************)
(* The Analyser's views, for any channels, units, labels and stores and    *)
(* any number of axes and operations: the table, the chart and the exported *)
(* page agree, looking does not edit, undo gives the document back and a     *)
(* chart or layout file is honoured.                                        *)
(***************************************************************************)
EXTENDS AnalyserViews, SequenceTheorems, NaturalsInduction, WellFoundedInduction, TLAPS

-----------------------------------------------------------------------------
(* Types                                                                    *)

Placement == [vis : BOOLEAN, axis : Nat \ {0}]
Places == MapsTo(Names, Placement)
Indices == MapsTo(Names, Nat \ {0})
Widget == [chans : MapsTo(Names, Domains), view : Views, x : Names \cup {NoName},
           combo : Names \cup {NoName}, axes : Seq(Labels) \ {Empty}, saved : Places,
           by : [Domains -> [axes : Seq(Labels), rows : Places]], pending : Indices,
           rows : Places, plotted : MapsTo(Names, Nat), on : Domains]
Layout == [view : Views, x : Names \cup {NoName}, axesBy : MapsTo(Domains, Seq(Labels)),
           chansBy : MapsTo(Domains, Indices)]
Json == [view : Views, x : Names \cup {NoName}, axes : Seq(Labels), chans : Indices,
         axesBy : MapsTo(Domains, Seq(Labels)), chansBy : MapsTo(Domains, Indices)]

\* The types of the variables.
TypeOK == /\ w \in Widget /\ due \in BOOLEAN /\ ops \in 0 .. MaxOps
          /\ snap \in [layout : Layout, chans : MapsTo(Names, Domains)]
          /\ disk \in [chans : MapsTo(Names, Domains), json : Json]

IInv == TypeOK /\ ViewsInv

-----------------------------------------------------------------------------
(* Numbers, sequences and maps                                              *)

LEMMA LeastExists ==
  ASSUME NEW S, S \subseteq Nat, S # {}
  PROVE  \E x \in S : \A y \in S : x <= y
<1> DEFINE R == {ss \in Nat \X Nat : ss[1] < ss[2]}
<1>1. IsWellFoundedOn(R, Nat)
  BY NatLessThanWellFounded DEF OpToRel
<1>2. \A x, y \in Nat : <<y, x>> \in R <=> y < x
  OBVIOUS
<1> HIDE DEF R
<1>3. PICK x \in S : \A y \in S : ~ (<<y, x>> \in R)
  BY <1>1, WFMin
<1>4. ASSUME NEW y \in S PROVE x <= y
  <2>1. ~ (y < x)
    BY <1>2, <1>3, Zenon
  <2> QED BY <2>1
<1> QED BY <1>4

\* A set that holds 0 and every successor up to n holds all of 0 .. n.
LEMMA UpTo ==
  ASSUME NEW n \in Nat, NEW S, 0 \in S, \A i \in 1 .. n : i - 1 \in S => i \in S
  PROVE  0 .. n \subseteq S
<1> SUFFICES ASSUME (0 .. n) \ S # {} PROVE FALSE
  OBVIOUS
<1>1. (0 .. n) \ S \subseteq Nat
  OBVIOUS
<1>2. PICK k \in (0 .. n) \ S : \A j \in (0 .. n) \ S : k <= j
  BY <1>1, LeastExists
<1>3. k \in 1 .. n /\ k - 1 \in 0 .. n /\ ~(k <= k - 1)
  BY <1>2
<1>4. k - 1 \in S
  BY <1>2, <1>3
<1> QED BY <1>2, <1>3, <1>4

\* A function that runs g[1], g[2], ... from x exists.
Steps(n, X) == [1 .. n -> [X -> X]]
IsRun(f, n, X, x, g) ==
  f \in [0 .. n -> X] /\ f[0] = x /\ \A i \in 1 .. n : f[i] = g[i][f[i - 1]]

LEMMA Recursion ==
  ASSUME NEW X, NEW n \in Nat, NEW x \in X, NEW g \in Steps(n, X)
  PROVE  \E f : IsRun(f, n, X, x, g)
<1> DEFINE Runs(k, f) == f[0] = x /\ \A i \in 1 .. k : f[i] = g[i][f[i - 1]]
           S == {k \in 0 .. n : \E f \in [0 .. k -> X] : Runs(k, f)}
<1> USE DEF Steps
<1>1. 0 \in S
  <2> DEFINE h == [i \in 0 .. 0 |-> x]
  <2>1. h \in [0 .. 0 -> X] /\ h[0] = x
    OBVIOUS
  <2> HIDE DEF h
  <2>2. Runs(0, h)
    BY <2>1
  <2> HIDE DEF Runs
  <2> QED BY <2>1, <2>2
<1>2. ASSUME NEW k \in 1 .. n, k - 1 \in S PROVE k \in S
  <2>1. PICK f \in [0 .. k - 1 -> X] : Runs(k - 1, f)
    BY <1>2
  <2>2. f[k - 1] \in X /\ g[k][f[k - 1]] \in X
    <3>1. k - 1 \in 0 .. k - 1
      OBVIOUS
    <3> QED BY <2>1, <3>1
  <2> DEFINE h == [i \in 0 .. k |-> IF i = k THEN g[k][f[k - 1]] ELSE f[i]]
  <2>3. h \in [0 .. k -> X]
    <3>1. \A i \in 0 .. k : i # k => i \in 0 .. k - 1
      OBVIOUS
    <3> QED BY <2>1, <2>2, <3>1
  <2>4. h[0] = x
    <3>1. 0 \in 0 .. k /\ 0 # k
      OBVIOUS
    <3> QED BY <2>1, <3>1
  <2>5. ASSUME NEW i \in 1 .. k PROVE h[i] = g[i][h[i - 1]]
    <3>1. i \in 0 .. k /\ i - 1 \in 0 .. k /\ i - 1 # k /\ (i # k => i \in 1 .. k - 1)
      OBVIOUS
    <3>2. h[i - 1] = f[i - 1]
      BY <3>1
    <3> QED BY <2>1, <3>1, <3>2
  <2> HIDE DEF h
  <2>6. Runs(k, h) /\ k \in 0 .. n
    BY <2>4, <2>5
  <2> HIDE DEF Runs
  <2> QED BY <2>3, <2>6
<1>3. n \in S
  <2> HIDE DEF S
  <2>1. 0 .. n \subseteq S
    BY <1>1, <1>2, UpTo
  <2> QED BY <2>1
<1>4. PICK f \in [0 .. n -> X] : Runs(n, f)
  BY <1>3
<1> QED BY <1>4 DEF IsRun

LEMMA MapIs ==
  ASSUME NEW K, NEW V, NEW f
  PROVE  f \in MapsTo(K, V) <=> /\ f = [k \in DOMAIN f |-> f[k]]
                                /\ DOMAIN f \subseteq K /\ \A k \in DOMAIN f : f[k] \in V
<1>1. ASSUME f \in MapsTo(K, V)
      PROVE  /\ f = [k \in DOMAIN f |-> f[k]] /\ DOMAIN f \subseteq K
             /\ \A k \in DOMAIN f : f[k] \in V
  BY <1>1 DEF MapsTo
<1>2. ASSUME f = [k \in DOMAIN f |-> f[k]], DOMAIN f \subseteq K, \A k \in DOMAIN f : f[k] \in V
      PROVE  f \in MapsTo(K, V)
  <2>1. f \in [DOMAIN f -> V]
    BY <1>2
  <2> QED BY <1>2, <2>1 DEF MapsTo
<1> QED BY <1>1, <1>2

LEMMA EmptyIs ==
  /\ DOMAIN Empty = {}
  /\ \A K, V : Empty \in MapsTo(K, V)
  /\ \A S : Empty \in Seq(S) /\ Len(Empty) = 0
  /\ \A K, V : \A f \in MapsTo(K, V) : f = Empty <=> DOMAIN f = {}
<1>1. DOMAIN Empty = {} /\ \A S : Empty \in Seq(S) /\ Len(Empty) = 0
  BY DEF Empty
<1>2. Empty = [k \in {} |-> Empty[k]]
  BY DEF Empty
<1>3. ASSUME NEW K, NEW V PROVE Empty \in MapsTo(K, V)
  BY <1>1, <1>2, MapIs
<1>4. ASSUME NEW K, NEW V, NEW f \in MapsTo(K, V), DOMAIN f = {} PROVE f = Empty
  <2>1. f = [k \in {} |-> f[k]]
    BY <1>4, MapIs
  <2> QED BY <1>2, <2>1
<1> QED BY <1>1, <1>3, <1>4


LEMMA AxesAre ==
  ASSUME NEW axes \in Seq(Labels) \ {Empty}
  PROVE  /\ Len(axes) \in Nat /\ Len(axes) >= 1 /\ DOMAIN axes = 1 .. Len(axes)
         /\ \A i \in DOMAIN axes : axes[i] \in Labels
         /\ \A i \in Nat \ {0} : /\ Least(i, Len(axes)) \in DOMAIN axes
                                 /\ Least(Least(i, Len(axes)), Len(axes)) = Least(i, Len(axes))
                                 /\ i \in DOMAIN axes => Least(i, Len(axes)) = i
<1>1. Len(axes) \in Nat /\ DOMAIN axes = 1 .. Len(axes) /\ \A i \in DOMAIN axes : axes[i] \in Labels
  BY LenProperties, ElementOfSeq
<1>2. Len(axes) # 0
  BY EmptySeq DEF Empty
<1> HIDE DEF Empty
<1>3. \A l \in Nat : \A i \in Nat \ {0} : l >= 1 =>
         /\ Least(i, l) \in 1 .. l /\ Least(Least(i, l), l) = Least(i, l)
         /\ i \in 1 .. l => Least(i, l) = i
  BY DEF Least
<1>4. Len(axes) >= 1
  BY <1>1, <1>2
<1> QED BY <1>1, <1>3, <1>4

-----------------------------------------------------------------------------
(* The private methods                                                      *)

\* v is u with another table, chart or set of pending assignments.
Same(u, v) ==
  /\ v.chans = u.chans /\ v.view = u.view /\ v.x = u.x /\ v.combo = u.combo
  /\ v.axes = u.axes /\ v.saved = u.saved /\ v.by = u.by /\ v.on = u.on

LEMMA WidgetIs ==
  ASSUME NEW u \in Widget
  PROVE  /\ u.chans \in MapsTo(Names, Domains) /\ u.view \in Views /\ u.x \in Names \cup {NoName}
         /\ u.combo \in Names \cup {NoName} /\ u.axes \in Seq(Labels) \ {Empty}
         /\ u.saved \in Places /\ u.by \in [Domains -> [axes : Seq(Labels), rows : Places]]
         /\ u.pending \in Indices /\ u.rows \in Places /\ u.plotted \in MapsTo(Names, Nat)
         /\ u.on \in Domains
  BY DEF Widget

LEMMA DomainIs == \A u \in Widget : activeDomain(u) \in Domains
<1> SUFFICES ASSUME NEW u \in Widget PROVE activeDomain(u) \in Domains
  OBVIOUS
<1>1. \A n \in DOMAIN u.chans : u.chans[n] \in Domains
  BY WidgetIs, MapIs
<1>2. u.view \in Views
  BY DEF Widget
<1> QED BY <1>1, <1>2 DEF activeDomain, Get, Domains, Views

LEMMA PlacesAre ==
  ASSUME NEW p \in Places
  PROVE  /\ DOMAIN p \subseteq Names /\ p = [n \in DOMAIN p |-> p[n]]
         /\ \A n \in DOMAIN p : p[n] \in Placement /\ p[n].axis \in Nat \ {0} /\ p[n].vis \in BOOLEAN
<1>1. /\ DOMAIN p \subseteq Names /\ p = [n \in DOMAIN p |-> p[n]]
      /\ \A n \in DOMAIN p : p[n] \in Placement
  BY MapIs DEF Places
<1> QED BY <1>1 DEF Placement

LEMMA ListedIs ==
  ASSUME NEW u \in Widget
  PROVE  /\ Listed(u) \subseteq DOMAIN u.chans /\ Listed(u) \subseteq Names
         /\ \A n \in Listed(u) : u.chans[n] = activeDomain(u)
<1>1. DOMAIN u.chans \subseteq Names
  BY WidgetIs, MapIs
<1> QED BY <1>1 DEF Listed, activeDomain, Get

\* What a view lists follows from the store, the view and the X channel.
LEMMA SameListed ==
  \A u, v : (v.chans = u.chans /\ v.view = u.view /\ v.x = u.x)
               => Listed(v) = Listed(u) /\ activeDomain(v) = activeDomain(u)
<1> QED BY DEF Listed, activeDomain

LEMMA UnitAxisIs ==
  ASSUME NEW u \in Widget, NEW n
  PROVE  pickAxisForUnit(u, n) \in Nat \ {0}
<1> DEFINE hits == {i \in DOMAIN u.axes : u.axes[i] = Unit[n] /\ Unit[n] # NoUnit}
<1>1. hits \subseteq Nat \ {0}
  BY WidgetIs, AxesAre
<1>2. CASE hits = {}
  BY <1>2 DEF pickAxisForUnit
<1>3. CASE hits # {}
  <2>1. \E i \in hits : \A j \in hits : i <= j
    <3> HIDE DEF hits
    <3> QED BY <1>1, <1>3, LeastExists
  <2>2. pickAxisForUnit(u, n) \in hits
    BY <1>3, <2>1 DEF pickAxisForUnit
  <2> HIDE DEF hits
  <2> QED BY <1>1, <2>2
<1> QED BY <1>2, <1>3

LEMMA RowIs ==
  ASSUME NEW u \in Widget, NEW n
  PROVE  /\ Row(u, n) \in Placement /\ Row(u, n).axis \in DOMAIN u.axes
         /\ n \in DOMAIN u.saved => Row(u, n).axis = Least(u.saved[n].axis, Len(u.axes))
<1> DEFINE r == IF n \in DOMAIN u.saved THEN u.saved[n] ELSE RowFromPending(u, n)
<1>1. u.axes \in Seq(Labels) \ {Empty} /\ u.saved \in Places /\ u.pending \in Indices
  BY WidgetIs
<1>2. \A k \in DOMAIN u.pending : u.pending[k] \in Nat \ {0}
  BY <1>1, MapIs DEF Indices
<1>3. r.vis \in BOOLEAN /\ r.axis \in Nat \ {0}
  <2>1. CASE n \in DOMAIN u.saved
    BY <1>1, <2>1, PlacesAre
  <2>2. CASE n \notin DOMAIN u.saved
    <3>1. Get(u.pending, n, pickAxisForUnit(u, n)) \in Nat \ {0}
      BY <1>2, UnitAxisIs DEF Get
    <3> QED BY <2>2, <3>1 DEF RowFromPending
  <2> QED BY <2>1, <2>2
<1>4. Row(u, n) = [vis |-> u.saved = Empty \/ r.vis, axis |-> Least(r.axis, Len(u.axes))]
  BY DEF Row
<1> HIDE DEF r
<1>5. Least(r.axis, Len(u.axes)) \in DOMAIN u.axes /\ DOMAIN u.axes \subseteq Nat \ {0}
  BY <1>1, <1>3, AxesAre
<1>6. (u.saved = Empty \/ r.vis) \in BOOLEAN
  BY <1>3, Zenon
<1>7. Row(u, n) \in Placement /\ Row(u, n).axis \in DOMAIN u.axes
  BY <1>4, <1>5, <1>6 DEF Placement
<1>8. n \in DOMAIN u.saved => Row(u, n).axis = Least(u.saved[n].axis, Len(u.axes))
  BY <1>4 DEF r
<1> QED BY <1>7, <1>8

LEMMA TableIs ==
  ASSUME NEW u \in Widget
  PROVE  LET v == rebuildTable(u)
         IN  /\ v \in Widget /\ Same(u, v) /\ v.plotted = u.plotted
             /\ v.rows = [n \in Listed(u) |-> Row(u, n)]
<1> DEFINE r == [n \in Listed(u) |-> Row(u, n)]
           p == [n \in DOMAIN u.pending \ (Listed(u) \ DOMAIN u.saved) |-> u.pending[n]]
           v == [u EXCEPT !.rows = r, !.pending = p]
<1>1. r \in Places
  <2>1. \A n \in Listed(u) : Row(u, n) \in Placement
    BY RowIs
  <2>2. r = [n \in DOMAIN r |-> r[n]] /\ DOMAIN r = Listed(u)
    OBVIOUS
  <2> QED BY <2>1, <2>2, ListedIs, MapIs DEF Places
<1>2. p \in Indices
  <2>1. u.pending \in Indices
    BY WidgetIs
  <2> QED BY <2>1, MapIs DEF Indices
<1> HIDE DEF r, p
<1>3. v \in Widget /\ v.rows = r /\ v.plotted = u.plotted /\ Same(u, v)
  BY <1>1, <1>2 DEF Widget, Same
<1>4. rebuildTable(u) = v
  BY DEF rebuildTable, r, p
<1> QED BY <1>3, <1>4 DEF r

LEMMA RedrawIs ==
  ASSUME NEW u \in Widget
  PROVE  LET v == redrawForActiveChannels(u)
         IN  /\ v \in Widget /\ Same(u, v) /\ v.rows = u.rows /\ v.pending = u.pending
             /\ DOMAIN v.plotted = activeChannels(v)
<1> DEFINE p == [n \in activeChannels(u) |-> u.rows[n].axis]
           v == [u EXCEPT !.plotted = p]
<1>1. p \in MapsTo(Names, Nat)
  <2>1. DOMAIN u.rows \subseteq Names /\ \A n \in DOMAIN u.rows : u.rows[n].axis \in Nat
    BY WidgetIs, PlacesAre
  <2>2. p = [n \in DOMAIN p |-> p[n]] /\ DOMAIN p = activeChannels(u) /\ activeChannels(u) \subseteq DOMAIN u.rows
    BY DEF activeChannels
  <2>3. \A n \in DOMAIN p : p[n] \in Nat
    BY <2>1, <2>2
  <2> QED BY <2>1, <2>2, <2>3, MapIs
<1>2. DOMAIN p = activeChannels(u)
  OBVIOUS
<1> HIDE DEF p
<1>3. /\ v \in Widget /\ v.rows = u.rows /\ v.pending = u.pending /\ v.plotted = p /\ Same(u, v)
  BY <1>1 DEF Widget, Same
<1>4. activeChannels(v) = activeChannels(u)
  BY <1>3 DEF activeChannels
<1>5. redrawForActiveChannels(u) = v
  BY DEF redrawForActiveChannels, p
<1> QED BY <1>2, <1>3, <1>4, <1>5

LEMMA RefreshedIs ==
  ASSUME NEW u \in Widget
  PROVE  LET v == Refreshed(u)
         IN  /\ v \in Widget /\ Same(u, v) /\ v.rows = [n \in Listed(u) |-> Row(u, n)]
             /\ TableSound(v) /\ activeDomain(v) = activeDomain(u)
             /\ ComboSound(u) => ComboSound(v)
<1> DEFINE t == rebuildTable(u)
           v == redrawForActiveChannels(t)
<1>1. t \in Widget /\ Same(u, t) /\ t.rows = [n \in Listed(u) |-> Row(u, n)]
  BY TableIs
<1> HIDE DEF t
<1>2. v \in Widget /\ Same(t, v) /\ v.rows = t.rows /\ DOMAIN v.plotted = activeChannels(v)
  BY <1>1, RedrawIs
<1> HIDE DEF v
<1>3. Same(u, v) /\ v.rows = [n \in Listed(u) |-> Row(u, n)]
  BY <1>1, <1>2 DEF Same
<1>4. activeDomain(v) = activeDomain(u)
  BY <1>3 DEF Same, activeDomain
<1>5. \A n \in Listed(u) : Row(u, n).axis \in DOMAIN u.axes
  BY RowIs
<1>6. DOMAIN v.rows = Listed(u) /\ \A n \in DOMAIN v.rows : v.rows[n] = Row(u, n)
  BY <1>3
<1>7. v.axes = u.axes /\ Listed(v) = Listed(u)
  BY <1>3, SameListed DEF Same
<1>8. TableSound(v)
  BY <1>2, <1>5, <1>6, <1>7 DEF TableSound
<1>9. ComboSound(u) => ComboSound(v)
  BY <1>3 DEF Same, ComboSound
<1>10. Refreshed(u) = v
  BY DEF Refreshed, v, t
<1> QED BY <1>2, <1>3, <1>4, <1>8, <1>9, <1>10

\* Everything but the X channel is the same.
SameButX(u, v) ==
  /\ v.chans = u.chans /\ v.view = u.view /\ v.axes = u.axes /\ v.saved = u.saved /\ v.by = u.by
  /\ v.on = u.on /\ v.rows = u.rows /\ v.plotted = u.plotted /\ v.pending = u.pending

LEMMA XyComboIs ==
  ASSUME NEW u \in Widget
  PROVE  LET v == rebuildXyXCombo(u)
         IN  /\ v \in Widget /\ SameButX(u, v) /\ v.x = v.combo /\ ComboSound(v)
             /\ v.combo = LET prev == IF u.combo = NoName THEN u.x ELSE u.combo
                          IN  IF prev \in DOMAIN u.chans THEN prev ELSE NoName
<1> DEFINE prev == IF u.combo = NoName THEN u.x ELSE u.combo
           next == IF prev \in DOMAIN u.chans THEN prev ELSE NoName
           v == [u EXCEPT !.combo = next, !.x = next]
<1>1. next \in Names \cup {NoName} /\ next \in DOMAIN u.chans \cup {NoName}
  <2>1. DOMAIN u.chans \subseteq Names
    BY WidgetIs, MapIs
  <2> QED BY <2>1
<1>2. rebuildXyXCombo(u) = v
  BY DEF rebuildXyXCombo
<1>3. next = LET p == IF u.combo = NoName THEN u.x ELSE u.combo
             IN  IF p \in DOMAIN u.chans THEN p ELSE NoName
  OBVIOUS
<1> HIDE DEF next
<1>4. v \in Widget /\ SameButX(u, v) /\ v.x = next /\ v.combo = next
  BY <1>1 DEF Widget, SameButX
<1>5. ComboSound(v)
  BY <1>1, <1>4 DEF ComboSound, SameButX
<1> QED BY <1>2, <1>3, <1>4, <1>5

LEMMA ClearIs ==
  ASSUME NEW u \in Widget
  PROVE  LET v == clearAllPlottables(u)
         IN  /\ v \in Widget /\ Same(u, v) /\ v.rows = u.rows /\ v.pending = u.pending
             /\ ComboSound(u) => ComboSound(v)
<1> DEFINE v == [u EXCEPT !.plotted = Empty]
<1>1. v \in Widget /\ Same(u, v) /\ v.rows = u.rows /\ v.pending = u.pending
  BY EmptyIs DEF Widget, Same
<1>2. ComboSound(u) => ComboSound(v)
  BY <1>1 DEF ComboSound, Same
<1>3. clearAllPlottables(u) = v
  BY DEF clearAllPlottables
<1> QED BY <1>1, <1>2, <1>3

LEMMA OverIs ==
  ASSUME NEW K, NEW V, NEW f \in MapsTo(K, V), NEW g \in MapsTo(K, V)
  PROVE  Over(f, g) \in MapsTo(K, V)
<1>1. DOMAIN f \subseteq K /\ DOMAIN g \subseteq K /\ \A k \in DOMAIN f : f[k] \in V
  BY MapIs
<1>2. \A k \in DOMAIN g : g[k] \in V
  BY MapIs
<1>3. /\ Over(f, g) = [k \in DOMAIN Over(f, g) |-> Over(f, g)[k]]
      /\ DOMAIN Over(f, g) = DOMAIN f \cup DOMAIN g
      /\ \A k \in DOMAIN f \cup DOMAIN g : Over(f, g)[k] = IF k \in DOMAIN f THEN f[k] ELSE g[k]
  BY DEF Over
<1>4. \A k \in DOMAIN Over(f, g) : Over(f, g)[k] \in V
  BY <1>1, <1>2, <1>3
<1> QED BY <1>1, <1>3, <1>4, MapIs

LEMMA PutTyped ==
  ASSUME NEW K, NEW V, NEW f \in MapsTo(K, V), NEW k \in K, NEW v \in V
  PROVE  Put(f, k, v) \in MapsTo(K, V)
<1>1. Only(k, v) \in MapsTo(K, V)
  BY MapIs DEF Only
<1> QED BY <1>1, OverIs DEF Put

LEMMA PutIs ==
  \A f, k, x : /\ DOMAIN Put(f, k, x) = DOMAIN f \cup {k} /\ Put(f, k, x)[k] = x
               /\ \A j \in DOMAIN f : j # k => Put(f, k, x)[j] = f[j]
BY DEF Put, Over, Only

\* What the table and the sticky copy together say of a channel.
Sticky(u) == Over(u.rows, u.saved)

LEMMA SnapshotIs ==
  ASSUME NEW u \in Widget, NEW d \in Domains
  PROVE  LET v == snapshotIntoDomain(u, d)
         IN  /\ v \in Widget /\ v.saved = Sticky(u)
             /\ v.by = [u.by EXCEPT ![d] = [axes |-> u.axes, rows |-> Sticky(u)]]
             /\ v.chans = u.chans /\ v.view = u.view /\ v.x = u.x /\ v.combo = u.combo
             /\ v.axes = u.axes /\ v.on = u.on /\ v.pending = u.pending /\ v.rows = u.rows
             /\ v.plotted = u.plotted
             /\ ComboSound(u) => ComboSound(v)
             /\ TableSound(u) => TableSound(v)
<1> DEFINE st == [axes |-> u.axes, rows |-> Sticky(u)]
           b == [u.by EXCEPT ![d] = st]
           v == [u EXCEPT !.saved = Sticky(u), !.by = b]
<1>1. Sticky(u) \in Places
  BY WidgetIs, OverIs DEF Sticky, Places
<1>2. b \in [Domains -> [axes : Seq(Labels), rows : Places]]
  <2>1. u.axes \in Seq(Labels)
    BY WidgetIs
  <2> QED BY <1>1, <2>1, WidgetIs
<1>3. snapshotIntoDomain(u, d) = v
  BY DEF snapshotIntoDomain, Sticky
<1> HIDE DEF b
<1>4. /\ v \in Widget /\ v.saved = Sticky(u) /\ v.by = b
      /\ v.chans = u.chans /\ v.view = u.view /\ v.x = u.x /\ v.combo = u.combo
      /\ v.axes = u.axes /\ v.on = u.on /\ v.pending = u.pending /\ v.rows = u.rows
      /\ v.plotted = u.plotted
  BY <1>1, <1>2 DEF Widget
<1> HIDE DEF v
<1>5. ComboSound(u) => ComboSound(v)
  BY <1>4 DEF ComboSound
<1>6. Listed(v) = Listed(u) /\ activeChannels(v) = activeChannels(u)
  BY <1>4, SameListed DEF activeChannels
<1>7. TableSound(u) => TableSound(v)
  BY <1>4, <1>6 DEF TableSound
<1> QED BY <1>3, <1>4, <1>5, <1>7 DEF b

LEMMA CombosAre ==
  ASSUME NEW u \in Widget
  PROVE  LET v == rebuildAxisCombos(u)
         IN  /\ v \in Widget /\ Same(u, v) /\ v.plotted = u.plotted /\ v.pending = u.pending
             /\ DOMAIN v.rows = DOMAIN u.rows
             /\ \A n \in DOMAIN u.rows : /\ v.rows[n].vis = u.rows[n].vis
                                         /\ v.rows[n].axis = Least(u.rows[n].axis, Len(u.axes))
<1> DEFINE r == [n \in DOMAIN u.rows |-> [u.rows[n] EXCEPT !.axis = Least(@, Len(u.axes))]]
           v == [u EXCEPT !.rows = r]
<1>1. u.axes \in Seq(Labels) \ {Empty} /\ u.rows \in Places
  BY WidgetIs
<1>2. ASSUME NEW n \in DOMAIN u.rows
      PROVE  /\ r[n] \in Placement /\ r[n].vis = u.rows[n].vis
             /\ r[n].axis = Least(u.rows[n].axis, Len(u.axes))
  <2>1. u.rows[n] \in Placement /\ u.rows[n].axis \in Nat \ {0}
    BY <1>1, PlacesAre
  <2>2. Least(u.rows[n].axis, Len(u.axes)) \in Nat \ {0}
    BY <1>1, <2>1, AxesAre
  <2> QED BY <2>1, <2>2 DEF Placement
<1>3. r = [n \in DOMAIN r |-> r[n]] /\ DOMAIN r = DOMAIN u.rows
  OBVIOUS
<1>4. rebuildAxisCombos(u) = v
  BY DEF rebuildAxisCombos
<1> HIDE DEF r
<1>5. r \in Places
  BY <1>1, <1>2, <1>3, PlacesAre, MapIs DEF Places
<1>6. v \in Widget /\ Same(u, v) /\ v.plotted = u.plotted /\ v.pending = u.pending /\ v.rows = r
  BY <1>5 DEF Widget, Same
<1> QED BY <1>2, <1>3, <1>4, <1>6

\* The axes a domain brings to the screen.
AxesBrought(u, d) == IF u.by[d].axes = Empty THEN <<u.axes[1]>> ELSE u.by[d].axes

LEMMA ApplyIs ==
  ASSUME NEW u \in Widget, NEW d \in Domains
  PROVE  LET v == applyFromDomain(u, d)
         IN  /\ v \in Widget /\ v.on = d /\ v.axes = AxesBrought(u, d) /\ v.saved = u.by[d].rows
             /\ v.chans = u.chans /\ v.view = u.view /\ v.x = u.x /\ v.combo = u.combo
             /\ v.by = u.by /\ v.pending = u.pending
             /\ ComboSound(u) => ComboSound(v)
<1> DEFINE t == [u EXCEPT !.axes = AxesBrought(u, d), !.saved = u.by[d].rows, !.on = d]
           v == rebuildAxisCombos(t)
<1>1. u.by[d].axes \in Seq(Labels) /\ u.by[d].rows \in Places
  BY WidgetIs
<1>2. AxesBrought(u, d) \in Seq(Labels) \ {Empty}
  <2>1. u.axes[1] \in Labels
    <3>1. u.axes \in Seq(Labels) \ {Empty}
      BY WidgetIs
    <3>2. 1 \in DOMAIN u.axes /\ \A i \in DOMAIN u.axes : u.axes[i] \in Labels
      BY <3>1, AxesAre
    <3> QED BY <3>2
  <2>2. <<u.axes[1]>> \in Seq(Labels) /\ Len(<<u.axes[1]>>) = 1
    BY <2>1
  <2>3. <<u.axes[1]>> # Empty
    BY <2>2, EmptyIs
  <2> QED BY <1>1, <2>2, <2>3 DEF AxesBrought
<1>3. applyFromDomain(u, d) = v
  BY DEF applyFromDomain, AxesBrought
<1>4. /\ t \in Widget /\ t.on = d /\ t.axes = AxesBrought(u, d) /\ t.saved = u.by[d].rows
      /\ t.chans = u.chans /\ t.view = u.view /\ t.x = u.x /\ t.combo = u.combo
      /\ t.by = u.by /\ t.pending = u.pending
  BY <1>1, <1>2 DEF Widget
<1> HIDE DEF t
<1>5. v \in Widget /\ Same(t, v) /\ v.pending = t.pending
  BY <1>4, CombosAre
<1> HIDE DEF v
<1>6. ComboSound(u) => ComboSound(v)
  BY <1>4, <1>5 DEF ComboSound, Same
<1> QED BY <1>3, <1>4, <1>5, <1>6 DEF Same

-----------------------------------------------------------------------------
(* The store                                                                *)

Sound(u) == u \in Widget /\ TableSound(u) /\ ComboSound(u)

\* What the store's handlers leave alone.
Kept(u, v) == v.view = u.view /\ v.axes = u.axes /\ v.saved = u.saved /\ v.by = u.by /\ v.on = u.on

\* A row with a sticky place is on it.
RowsFollow(u) ==
  \A n \in DOMAIN u.rows :
      n \in DOMAIN u.saved => u.rows[n].axis = Least(u.saved[n].axis, Len(u.axes))

\* The X combo holds on to the channel it shows.
ComboHolds(u, v) ==
  (u.x = u.combo /\ u.combo \in DOMAIN v.chans \cup {NoName}) => v.x = u.x /\ v.combo = u.combo

LEMMA DealtIs ==
  ASSUME NEW u \in Widget, NEW v \in Widget, Same(u, v),
         v.rows = [n \in Listed(u) |-> Row(u, n)]
  PROVE  RowsFollow(v) /\ DOMAIN v.rows \subseteq Listed(u)
<1>1. \A n \in Listed(u) : n \in DOMAIN u.saved => Row(u, n).axis = Least(u.saved[n].axis, Len(u.axes))
  BY RowIs
<1>2. DOMAIN v.rows = Listed(u) /\ \A n \in Listed(u) : v.rows[n] = Row(u, n)
  OBVIOUS
<1> QED BY <1>1, <1>2 DEF RowsFollow, Same

LEMMA AddedIs ==
  ASSUME NEW u \in Widget
  PROVE  LET v == onChannelAdded(u)
         IN  /\ Sound(v) /\ Kept(u, v) /\ RowsFollow(v) /\ ComboHolds(u, v) /\ v.chans = u.chans
<1> DEFINE t == rebuildXyXCombo(u)
           v == Refreshed(t)
<1>1. /\ t \in Widget /\ SameButX(u, t) /\ t.x = t.combo /\ ComboSound(t)
      /\ t.combo = LET prev == IF u.combo = NoName THEN u.x ELSE u.combo
                   IN  IF prev \in DOMAIN u.chans THEN prev ELSE NoName
  BY XyComboIs
<1>2. (u.x = u.combo /\ u.combo \in DOMAIN u.chans \cup {NoName}) => t.x = u.x /\ t.combo = u.combo
  BY <1>1
<1> HIDE DEF t
<1>3. /\ v \in Widget /\ Same(t, v) /\ v.rows = [n \in Listed(t) |-> Row(t, n)]
      /\ TableSound(v) /\ ComboSound(v)
  BY <1>1, RefreshedIs
<1>4. onChannelAdded(u) = v
  BY DEF onChannelAdded, t
<1> HIDE DEF v
<1>5. RowsFollow(v)
  BY <1>1, <1>3, DealtIs
<1> QED BY <1>1, <1>2, <1>3, <1>4, <1>5 DEF Sound, Kept, ComboHolds, Same, SameButX

LEMMA RemovedIs ==
  ASSUME NEW u \in Widget, NEW n
  PROVE  LET v == onChannelRemoved(u, n)
         IN  /\ Sound(v) /\ Kept(u, v) /\ RowsFollow(v) /\ v.chans = u.chans
<1> DEFINE p == [c \in DOMAIN u.plotted \ {n} |-> u.plotted[c]]
           x == IF u.x = n THEN NoName ELSE u.x
           s == [u EXCEPT !.plotted = p, !.x = x]
           t == rebuildXyXCombo(s)
           v == Refreshed(t)
<1>1. p \in MapsTo(Names, Nat)
  BY WidgetIs, MapIs
<1>2. x \in Names \cup {NoName}
  BY WidgetIs
<1>3. onChannelRemoved(u, n) = v
  BY DEF onChannelRemoved
<1> HIDE DEF p, x
<1>4. s \in Widget /\ Kept(u, s) /\ s.chans = u.chans
  BY <1>1, <1>2 DEF Widget, Kept
<1> HIDE DEF s
<1>5. t \in Widget /\ SameButX(s, t) /\ ComboSound(t)
  BY <1>4, XyComboIs
<1> HIDE DEF t
<1>6. /\ v \in Widget /\ Same(t, v) /\ v.rows = [m \in Listed(t) |-> Row(t, m)]
      /\ TableSound(v) /\ ComboSound(v)
  BY <1>5, RefreshedIs
<1> HIDE DEF v
<1>7. RowsFollow(v)
  BY <1>5, <1>6, DealtIs
<1> QED BY <1>3, <1>4, <1>5, <1>6, <1>7 DEF Sound, Kept, Same, SameButX

LEMMA StoreAddIs ==
  ASSUME NEW u \in Widget, NEW n \in Names, NEW d \in Domains
  PROVE  LET v == StoreAdd(u, n, d)
         IN  /\ Sound(v) /\ Kept(u, v) /\ RowsFollow(v)
             /\ DOMAIN v.chans = DOMAIN u.chans \cup {n} /\ v.chans[n] = d
             /\ \A m \in DOMAIN u.chans : m # n => v.chans[m] = u.chans[m]
             /\ n \notin DOMAIN u.chans => ComboHolds(u, v)
<1> DEFINE c == Put(u.chans, n, d)
           held == [u EXCEPT !.chans = c]
           t == IF n \in DOMAIN u.chans THEN onChannelRemoved(held, n) ELSE held
           v == onChannelAdded(t)
<1>1. c \in MapsTo(Names, Domains)
  BY WidgetIs, PutTyped
<1>2. StoreAdd(u, n, d) = v
  BY DEF StoreAdd
<1> HIDE DEF c
<1>3. held \in Widget /\ Kept(u, held) /\ held.chans = c /\ held.x = u.x /\ held.combo = u.combo
  BY <1>1 DEF Widget, Kept
<1> HIDE DEF held
<1>4. t \in Widget /\ Kept(u, t) /\ t.chans = c /\ (n \notin DOMAIN u.chans => t = held)
  <2>1. CASE n \in DOMAIN u.chans
    <3>1. LET r == onChannelRemoved(held, n) IN Sound(r) /\ Kept(held, r) /\ r.chans = held.chans
      BY <1>3, RemovedIs
    <3> QED BY <1>3, <2>1, <3>1 DEF Sound, Kept
  <2>2. CASE n \notin DOMAIN u.chans
    BY <1>3, <2>2
  <2> QED BY <2>1, <2>2
<1> HIDE DEF t
<1>5. Sound(v) /\ Kept(t, v) /\ RowsFollow(v) /\ ComboHolds(t, v) /\ v.chans = t.chans
  BY <1>4, AddedIs
<1> HIDE DEF v
<1>6. /\ DOMAIN c = DOMAIN u.chans \cup {n} /\ c[n] = d
      /\ \A m \in DOMAIN u.chans : m # n => c[m] = u.chans[m]
  BY DEF c, Put, Over, Only
<1> QED BY <1>2, <1>3, <1>4, <1>5, <1>6 DEF Kept, ComboHolds

LEMMA StoreRemoveIs ==
  ASSUME NEW u \in Widget, NEW n
  PROVE  LET v == StoreRemove(u, n)
         IN  /\ Sound(v) /\ Kept(u, v) /\ RowsFollow(v)
             /\ v.chans = [c \in DOMAIN u.chans \ {n} |-> u.chans[c]]
<1> DEFINE c == [k \in DOMAIN u.chans \ {n} |-> u.chans[k]]
           held == [u EXCEPT !.chans = c]
           v == onChannelRemoved(held, n)
<1>1. c \in MapsTo(Names, Domains)
  BY WidgetIs, MapIs
<1>2. StoreRemove(u, n) = v
  BY DEF StoreRemove
<1> HIDE DEF c
<1>3. held \in Widget /\ Kept(u, held) /\ held.chans = c
  BY <1>1 DEF Widget, Kept
<1> HIDE DEF held
<1>4. Sound(v) /\ Kept(held, v) /\ RowsFollow(v) /\ v.chans = held.chans
  BY <1>3, RemovedIs
<1> HIDE DEF v
<1> QED BY <1>2, <1>3, <1>4 DEF Kept, c

LEMMA OrderIs ==
  /\ Len(Order) \in Nat /\ \A i \in 1 .. Len(Order) : Order[i] \in Names
  /\ \A n \in Names : \E i \in 1 .. Len(Order) : Order[i] = n
<1>1. Order \in Seq(Names) /\ Names = {Order[i] : i \in 1 .. Len(Order)}
  BY OrderAssumption
<1> QED BY <1>1, LenProperties, ElementOfSeq

LEMMA StoreAddAllIs ==
  ASSUME NEW u, Sound(u), NEW c \in MapsTo(Names, Domains)
  PROVE  LET v == StoreAddAll(u, c)
         IN  /\ Sound(v) /\ Kept(u, v) /\ (RowsFollow(u) => RowsFollow(v))
             /\ DOMAIN v.chans = DOMAIN u.chans \cup DOMAIN c
             /\ \A n \in DOMAIN v.chans : v.chans[n] = IF n \in DOMAIN c THEN c[n] ELSE u.chans[n]
             /\ (DOMAIN c \cap DOMAIN u.chans = {} /\ u.x = u.combo) => v.x = u.x /\ v.combo = u.combo
<1> DEFINE N == Len(Order)
           step(i, v) == IF Order[i] \in DOMAIN c THEN StoreAdd(v, Order[i], c[Order[i]]) ELSE v
           g == [i \in 1 .. N |-> [v \in Widget |-> step(i, v)]]
           Done(k) == {m \in DOMAIN c : \E j \in 1 .. k : Order[j] = m}
           After(k, v) ==
               /\ Sound(v) /\ Kept(u, v) /\ (RowsFollow(u) => RowsFollow(v))
               /\ DOMAIN v.chans = DOMAIN u.chans \cup Done(k)
               /\ \A n \in DOMAIN v.chans : v.chans[n] = IF n \in Done(k) THEN c[n] ELSE u.chans[n]
               /\ (DOMAIN c \cap DOMAIN u.chans = {} /\ u.x = u.combo) => v.x = u.x /\ v.combo = u.combo
<1>1. /\ DOMAIN c \subseteq Names /\ \A n \in DOMAIN c : c[n] \in Domains
      /\ N \in Nat /\ \A i \in 1 .. N : Order[i] \in Names
  BY MapIs, OrderIs
<1>2. \A i \in 1 .. N, v \in Widget : step(i, v) \in Widget
  BY <1>1, StoreAddIs DEF Sound
<1>3. g \in Steps(N, Widget)
  <2> HIDE DEF step
  <2> QED BY <1>2 DEF Steps
<1>4. u \in Widget
  BY DEF Sound
<1>5. PICK f : IsRun(f, N, Widget, u, g)
  <2> HIDE DEF g, N
  <2> QED BY <1>1, <1>3, <1>4, Recursion
<1>6. f \in [0 .. N -> Widget] /\ f[0] = u /\ \A i \in 1 .. N : f[i] = g[i][f[i - 1]]
  BY <1>5 DEF IsRun
<1>7. f = [i \in 0 .. N |-> IF i = 0 THEN u
                            ELSE IF Order[i] \in DOMAIN c THEN StoreAdd(f[i - 1], Order[i], c[Order[i]])
                            ELSE f[i - 1]]
  <2>1. ASSUME NEW i \in 0 .. N, i # 0
        PROVE  f[i] = IF Order[i] \in DOMAIN c THEN StoreAdd(f[i - 1], Order[i], c[Order[i]])
                      ELSE f[i - 1]
    <3>1. i \in 1 .. N /\ i - 1 \in 0 .. N
      BY <1>1, <2>1
    <3>2. f[i - 1] \in Widget
      BY <1>6, <3>1
    <3>3. f[i] = g[i][f[i - 1]]
      BY <1>6, <3>1
    <3> QED BY <3>1, <3>2, <3>3
  <2>2. f[0] = u
    BY <1>6
  <2>3. f = [i \in 0 .. N |-> f[i]]
    BY <1>6
  <2> HIDE DEF N
  <2> QED BY <2>1, <2>2, <2>3
<1> DEFINE h == CHOOSE r : r = [i \in 0 .. N |->
                 IF i = 0 THEN u
                 ELSE IF Order[i] \in DOMAIN c THEN StoreAdd(r[i - 1], Order[i], c[Order[i]])
                 ELSE r[i - 1]]
<1>8. h = [i \in 0 .. N |-> IF i = 0 THEN u
                            ELSE IF Order[i] \in DOMAIN c THEN StoreAdd(h[i - 1], Order[i], c[Order[i]])
                            ELSE h[i - 1]]
  BY <1>7
<1>9. StoreAddAll(u, c) = h[N]
  BY DEF StoreAddAll
<1> HIDE DEF h, g
<1>10. h[0] = u /\ \A i \in 1 .. N : h[i] = step(i, h[i - 1])
  <2>1. 0 \in 0 .. N /\ \A i \in 1 .. N : i \in 0 .. N /\ i # 0
    BY <1>1
  <2> HIDE DEF N
  <2> QED BY <1>8, <2>1
<1> HIDE DEF step
<1>11. After(0, h[0])
  <2>1. Done(0) = {}
    OBVIOUS
  <2> HIDE DEF Done
  <2> QED BY <1>10, <2>1 DEF Kept
<1>12. ASSUME NEW i \in 1 .. N, After(i - 1, h[i - 1]) PROVE After(i, h[i])
  <2> DEFINE v == h[i - 1]
             n == Order[i]
  <2>1. h[i] = IF n \in DOMAIN c THEN StoreAdd(v, n, c[n]) ELSE v
    BY <1>10 DEF step
  <2>2. Done(i) = IF n \in DOMAIN c THEN Done(i - 1) \cup {n} ELSE Done(i - 1)
    <3>1. 1 .. i = 1 .. (i - 1) \cup {i}
      OBVIOUS
    <3> QED BY <3>1
  <2>3. n \in Names /\ v \in Widget
    BY <1>1, <1>12 DEF Sound
  <2>4. Done(i - 1) \subseteq DOMAIN c
    OBVIOUS
  <2> HIDE DEF Done, n, v
  <2>5. CASE n \notin DOMAIN c
    BY <1>12, <2>1, <2>2, <2>5 DEF v
  <2>6. CASE n \in DOMAIN c
    <3> DEFINE z == StoreAdd(v, n, c[n])
    <3>1. /\ Sound(z) /\ Kept(v, z) /\ RowsFollow(z)
          /\ n \notin DOMAIN v.chans => ComboHolds(v, z)
      BY <1>1, <2>3, <2>6, StoreAddIs
    <3>2. /\ DOMAIN z.chans = DOMAIN v.chans \cup {n} /\ z.chans[n] = c[n]
          /\ \A m \in DOMAIN v.chans : m # n => z.chans[m] = v.chans[m]
      BY <1>1, <2>3, <2>6, StoreAddIs
    <3>3. h[i] = z
      BY <2>1, <2>6
    <3> HIDE DEF z
    <3>4. DOMAIN z.chans = DOMAIN u.chans \cup Done(i)
      BY <1>12, <2>2, <2>6, <3>2 DEF v
    <3>5. \A m \in DOMAIN z.chans : z.chans[m] = IF m \in Done(i) THEN c[m] ELSE u.chans[m]
      BY <1>12, <2>2, <2>6, <3>2 DEF v
    <3>6. ASSUME DOMAIN c \cap DOMAIN u.chans = {}, u.x = u.combo
          PROVE  z.x = u.x /\ z.combo = u.combo
      <4>1. v.x = u.x /\ v.combo = u.combo
        BY <1>12, <3>6 DEF v
      <4>2. v.combo \in DOMAIN v.chans \cup {NoName}
        BY <1>12 DEF Sound, ComboSound, v
      <4>3. CASE n \notin DOMAIN v.chans
        BY <3>1, <3>2, <3>6, <4>1, <4>2, <4>3 DEF ComboHolds
      <4>4. CASE n \in DOMAIN v.chans
        <5>1. \E j \in 1 .. i - 1 : Order[j] = Order[i]
          BY <1>12, <2>6, <3>6, <4>4 DEF v, n, Done
        <5>2. PICK j \in 1 .. i - 1 : Order[j] = Order[i]
          BY <5>1
        <5>3. j \in 1 .. N /\ j # i
          BY <1>1
        <5> QED BY <5>2, <5>3, OrderAssumption
      <4> QED BY <4>3, <4>4
    <3> QED BY <1>12, <3>1, <3>3, <3>4, <3>5, <3>6 DEF Kept, v
  <2> QED BY <2>5, <2>6
<1> HIDE DEF After
<1>13. After(N, h[N])
  <2> DEFINE S == {k \in 0 .. N : After(k, h[k])}
  <2>1. 0 \in S
    BY <1>1, <1>11
  <2>2. \A i \in 1 .. N : i - 1 \in S => i \in S
    BY <1>12
  <2> HIDE DEF S
  <2>3. 0 .. N \subseteq S
    BY <1>1, <2>1, <2>2, UpTo
  <2> QED BY <1>1, <2>3 DEF S
<1>14. Done(N) = DOMAIN c
  BY <1>1, OrderIs
<1> HIDE DEF Done
<1> QED BY <1>9, <1>13, <1>14 DEF After

LEMMA StoreRemoveAllIs ==
  ASSUME NEW u, Sound(u), NEW S
  PROVE  LET v == StoreRemoveAll(u, S)
         IN  /\ Sound(v) /\ Kept(u, v) /\ (RowsFollow(u) => RowsFollow(v))
             /\ DOMAIN v.chans = DOMAIN u.chans \ S
             /\ \A n \in DOMAIN v.chans : v.chans[n] = u.chans[n]
<1> DEFINE N == Len(Order)
           step(i, v) == IF Order[i] \in S THEN StoreRemove(v, Order[i]) ELSE v
           g == [i \in 1 .. N |-> [v \in Widget |-> step(i, v)]]
           Gone(k) == {m \in S : \E j \in 1 .. k : Order[j] = m}
           After(k, v) ==
               /\ Sound(v) /\ Kept(u, v) /\ (RowsFollow(u) => RowsFollow(v))
               /\ DOMAIN v.chans = DOMAIN u.chans \ Gone(k)
               /\ \A n \in DOMAIN v.chans : v.chans[n] = u.chans[n]
<1>1. N \in Nat /\ \A i \in 1 .. N : Order[i] \in Names
  BY OrderIs
<1>2. \A i \in 1 .. N, v \in Widget : step(i, v) \in Widget
  BY <1>1, StoreRemoveIs DEF Sound
<1>3. g \in Steps(N, Widget)
  <2> HIDE DEF step
  <2> QED BY <1>2 DEF Steps
<1>4. u \in Widget
  BY DEF Sound
<1>5. PICK f : IsRun(f, N, Widget, u, g)
  <2> HIDE DEF g, N
  <2> QED BY <1>1, <1>3, <1>4, Recursion
<1>6. f \in [0 .. N -> Widget] /\ f[0] = u /\ \A i \in 1 .. N : f[i] = g[i][f[i - 1]]
  BY <1>5 DEF IsRun
<1>7. f = [i \in 0 .. N |-> IF i = 0 THEN u
                            ELSE IF Order[i] \in S THEN StoreRemove(f[i - 1], Order[i])
                            ELSE f[i - 1]]
  <2>1. ASSUME NEW i \in 0 .. N, i # 0
        PROVE  f[i] = IF Order[i] \in S THEN StoreRemove(f[i - 1], Order[i]) ELSE f[i - 1]
    <3>1. i \in 1 .. N /\ i - 1 \in 0 .. N
      BY <1>1, <2>1
    <3>2. f[i - 1] \in Widget
      BY <1>6, <3>1
    <3>3. f[i] = g[i][f[i - 1]]
      BY <1>6, <3>1
    <3> QED BY <3>1, <3>2, <3>3
  <2>2. f[0] = u
    BY <1>6
  <2>3. f = [i \in 0 .. N |-> f[i]]
    BY <1>6
  <2> HIDE DEF N
  <2> QED BY <2>1, <2>2, <2>3
<1> DEFINE h == CHOOSE r : r = [i \in 0 .. N |->
                 IF i = 0 THEN u
                 ELSE IF Order[i] \in S THEN StoreRemove(r[i - 1], Order[i])
                 ELSE r[i - 1]]
<1>8. h = [i \in 0 .. N |-> IF i = 0 THEN u
                            ELSE IF Order[i] \in S THEN StoreRemove(h[i - 1], Order[i])
                            ELSE h[i - 1]]
  BY <1>7
<1>9. StoreRemoveAll(u, S) = h[N]
  BY DEF StoreRemoveAll
<1> HIDE DEF h, g
<1>10. h[0] = u /\ \A i \in 1 .. N : h[i] = step(i, h[i - 1])
  <2>1. 0 \in 0 .. N /\ \A i \in 1 .. N : i \in 0 .. N /\ i # 0
    BY <1>1
  <2> HIDE DEF N
  <2> QED BY <1>8, <2>1
<1> HIDE DEF step
<1>11. After(0, h[0])
  <2>1. Gone(0) = {}
    OBVIOUS
  <2> HIDE DEF Gone
  <2> QED BY <1>10, <2>1 DEF Kept
<1>12. ASSUME NEW i \in 1 .. N, After(i - 1, h[i - 1]) PROVE After(i, h[i])
  <2> DEFINE v == h[i - 1]
             n == Order[i]
  <2>1. h[i] = IF n \in S THEN StoreRemove(v, n) ELSE v
    BY <1>10 DEF step
  <2>2. Gone(i) = IF n \in S THEN Gone(i - 1) \cup {n} ELSE Gone(i - 1)
    <3>1. 1 .. i = 1 .. (i - 1) \cup {i}
      OBVIOUS
    <3> QED BY <3>1
  <2>3. v \in Widget
    BY <1>12 DEF Sound
  <2> HIDE DEF Gone, n, v
  <2>4. CASE n \notin S
    BY <1>12, <2>1, <2>2, <2>4 DEF v
  <2>5. CASE n \in S
    <3> DEFINE z == StoreRemove(v, n)
    <3>1. /\ Sound(z) /\ Kept(v, z) /\ RowsFollow(z)
          /\ z.chans = [m \in DOMAIN v.chans \ {n} |-> v.chans[m]]
      BY <2>3, StoreRemoveIs
    <3>2. h[i] = z
      BY <2>1, <2>5
    <3> HIDE DEF z
    <3>3. DOMAIN z.chans = DOMAIN u.chans \ Gone(i)
      BY <1>12, <2>2, <2>5, <3>1 DEF v
    <3>4. \A m \in DOMAIN z.chans : z.chans[m] = u.chans[m]
      BY <1>12, <3>1 DEF v
    <3> QED BY <1>12, <3>1, <3>2, <3>3, <3>4 DEF Kept, v
  <2> QED BY <2>4, <2>5
<1> HIDE DEF After
<1>13. After(N, h[N])
  <2> DEFINE T == {k \in 0 .. N : After(k, h[k])}
  <2>1. 0 \in T
    BY <1>1, <1>11
  <2>2. \A i \in 1 .. N : i - 1 \in T => i \in T
    BY <1>12
  <2> HIDE DEF T
  <2>3. 0 .. N \subseteq T
    BY <1>1, <2>1, <2>2, UpTo
  <2> QED BY <1>1, <2>3 DEF T
<1>14. DOMAIN u.chans \ Gone(N) = DOMAIN u.chans \ S
  <2>1. DOMAIN u.chans \subseteq Names
    BY <1>4, WidgetIs, MapIs
  <2> QED BY <2>1, OrderIs
<1> HIDE DEF Gone
<1> QED BY <1>9, <1>13, <1>14 DEF After

-----------------------------------------------------------------------------
(* Layouts                                                                  *)

\* m has the axes of `have', in their places, and those of `axes'.
HasAxes(m, have, axes, k) ==
  /\ m \in Seq(Labels) /\ Len(have) <= Len(m)
  /\ \A i \in 1 .. Len(have) : m[i] = have[i]
  /\ \A i \in 1 .. k : \E j \in 1 .. Len(m) : m[j] = axes[i]

LEMMA AppendedIs ==
  ASSUME NEW have \in Seq(Labels), NEW axes \in Seq(Labels), NEW m, NEW i \in 1 .. Len(axes),
         HasAxes(m, have, axes, i - 1)
  PROVE  HasAxes(Appended(m, axes[i]), have, axes, i)
<1> DEFINE a == axes[i]
<1>1. a \in Labels
  OBVIOUS
<1>2. /\ m \in Seq(Labels) /\ Len(have) <= Len(m) /\ Len(have) \in Nat /\ Len(m) \in Nat
      /\ DOMAIN m = 1 .. Len(m)
  BY LenProperties DEF HasAxes
<1>3. \A j \in 1 .. i : j = i \/ j \in 1 .. i - 1
  OBVIOUS
<1>4. CASE \E j \in DOMAIN m : m[j] = a
  <2>1. Appended(m, a) = m
    BY <1>4 DEF Appended
  <2>2. \E j \in 1 .. Len(m) : m[j] = axes[i]
    BY <1>2, <1>4
  <2> QED BY <1>3, <2>1, <2>2 DEF HasAxes
<1>5. CASE ~ \E j \in DOMAIN m : m[j] = a
  <2> DEFINE z == Append(m, a)
  <2>1. Appended(m, a) = z
    BY <1>5 DEF Appended
  <2>2. /\ z \in Seq(Labels) /\ Len(z) = Len(m) + 1 /\ z[Len(m) + 1] = a
        /\ \A j \in 1 .. Len(m) : z[j] = m[j]
    BY <1>1, <1>2
  <2> HIDE DEF z, a
  <2>3. Len(have) <= Len(z) /\ \A j \in 1 .. Len(have) : z[j] = have[j]
    <3>1. \A j \in 1 .. Len(have) : j \in 1 .. Len(m)
      BY <1>2
    <3>2. Len(m) <= Len(z) /\ Len(z) \in Nat
      BY <1>2, <2>2
    <3>3. Len(have) <= Len(z)
      BY <1>2, <3>2
    <3> QED BY <2>2, <3>1, <3>3 DEF HasAxes
  <2>4. ASSUME NEW j \in 1 .. i PROVE \E k \in 1 .. Len(z) : z[k] = axes[j]
    <3>1. CASE j = i
      <4>1. Len(m) + 1 \in 1 .. Len(z)
        BY <1>2, <2>2
      <4> QED BY <2>2, <3>1, <4>1 DEF a
    <3>2. CASE j \in 1 .. i - 1
      <4>1. PICK k \in 1 .. Len(m) : m[k] = axes[j]
        BY <3>2 DEF HasAxes
      <4>2. k \in 1 .. Len(z) /\ z[k] = m[k]
        BY <1>2, <2>2
      <4> QED BY <4>1, <4>2
    <3> QED BY <1>3, <3>1, <3>2
  <2>5. HasAxes(z, have, axes, i)
    BY <2>2, <2>3, <2>4 DEF HasAxes
  <2> QED BY <2>1, <2>5 DEF a
<1> QED BY <1>4, <1>5

LEMMA MergedAxesIs ==
  ASSUME NEW have \in Seq(Labels), NEW axes \in Seq(Labels)
  PROVE  HasAxes(MergedAxes(have, axes), have, axes, Len(axes))
<1> DEFINE N == Len(axes)
           X == Seq(Labels)
           step(i, v) == Appended(v, axes[i])
           g == [i \in 1 .. N |-> [v \in X |-> step(i, v)]]
           After(k, v) == HasAxes(v, have, axes, k)
<1>1. N \in Nat /\ \A i \in 1 .. N : axes[i] \in Labels
  OBVIOUS
<1>2. \A i \in 1 .. N, v \in X : step(i, v) \in X
  BY <1>1 DEF Appended
<1>3. g \in Steps(N, X)
  <2> HIDE DEF step, X, N
  <2> QED BY <1>2 DEF Steps
<1>4. PICK f : IsRun(f, N, X, have, g)
  <2> HIDE DEF g, N
  <2> QED BY <1>1, <1>3, Recursion
<1>5. f \in [0 .. N -> X] /\ f[0] = have /\ \A i \in 1 .. N : f[i] = g[i][f[i - 1]]
  BY <1>4 DEF IsRun
<1>6. f = [i \in 0 .. N |-> IF i = 0 THEN have ELSE Appended(f[i - 1], axes[i])]
  <2>1. ASSUME NEW i \in 0 .. N, i # 0
        PROVE  f[i] = Appended(f[i - 1], axes[i])
    <3>1. i \in 1 .. N /\ i - 1 \in 0 .. N
      BY <1>1, <2>1
    <3>2. f[i - 1] \in X
      BY <1>5, <3>1
    <3>3. f[i] = g[i][f[i - 1]]
      BY <1>5, <3>1
    <3> HIDE DEF X, N
    <3> QED BY <3>1, <3>2, <3>3
  <2>2. f[0] = have
    BY <1>5
  <2>3. f = [i \in 0 .. N |-> f[i]]
    BY <1>5
  <2> HIDE DEF N
  <2> QED BY <2>1, <2>2, <2>3
<1> DEFINE h == CHOOSE r : r = [i \in 0 .. N |-> IF i = 0 THEN have ELSE Appended(r[i - 1], axes[i])]
<1>7. h = [i \in 0 .. N |-> IF i = 0 THEN have ELSE Appended(h[i - 1], axes[i])]
  BY <1>6
<1>8. MergedAxes(have, axes) = h[N]
  BY DEF MergedAxes
<1> HIDE DEF h, g
<1>9. h[0] = have /\ \A i \in 1 .. N : h[i] = step(i, h[i - 1])
  <2>1. 0 \in 0 .. N /\ \A i \in 1 .. N : i \in 0 .. N /\ i # 0
    BY <1>1
  <2> HIDE DEF N
  <2> QED BY <1>7, <2>1
<1>10. After(0, h[0])
  <2>1. Len(have) \in Nat
    OBVIOUS
  <2> QED BY <1>9, <2>1 DEF HasAxes
<1>11. ASSUME NEW i \in 1 .. N, After(i - 1, h[i - 1]) PROVE After(i, h[i])
  BY <1>9, <1>11, AppendedIs
<1> HIDE DEF After, step
<1>12. After(N, h[N])
  <2> DEFINE T == {k \in 0 .. N : After(k, h[k])}
  <2>1. 0 \in T
    BY <1>1, <1>10
  <2>2. \A i \in 1 .. N : i - 1 \in T => i \in T
    BY <1>11
  <2> HIDE DEF T
  <2>3. 0 .. N \subseteq T
    BY <1>1, <2>1, <2>2, UpTo
  <2> QED BY <1>1, <2>3 DEF T
<1> QED BY <1>8, <1>12 DEF After

DomainState == [axes : Seq(Labels), rows : Places]

LEMMA GetIs ==
  ASSUME NEW K, NEW V, NEW f \in MapsTo(K, V), NEW k, NEW e \in V
  PROVE  Get(f, k, e) \in V
BY MapIs DEF Get

LEMMA ReplaceIs ==
  ASSUME NEW st, NEW axes \in Seq(Labels), NEW chans \in Indices
  PROVE  LET r == ReplaceDomain(st, axes, chans)
         IN  /\ r \in DomainState /\ r.axes = axes /\ DOMAIN r.rows = DOMAIN chans
             /\ \A n \in DOMAIN chans : r.rows[n].axis = chans[n]
<1> DEFINE rows == [n \in DOMAIN chans |-> [vis |-> TRUE, axis |-> chans[n]]]
<1>1. DOMAIN chans \subseteq Names /\ \A n \in DOMAIN chans : chans[n] \in Nat \ {0}
  BY MapIs DEF Indices
<1>2. \A n \in DOMAIN chans : rows[n] \in Placement /\ rows[n].axis = chans[n]
  BY <1>1 DEF Placement
<1>3. DOMAIN rows = DOMAIN chans /\ rows = [n \in DOMAIN rows |-> rows[n]]
  OBVIOUS
<1>4. ReplaceDomain(st, axes, chans) = [axes |-> axes, rows |-> rows]
  BY DEF ReplaceDomain
<1> HIDE DEF rows
<1>5. rows \in Places
  BY <1>1, <1>2, <1>3, MapIs DEF Places
<1> QED BY <1>2, <1>3, <1>4, <1>5 DEF DomainState

LEMMA MergeIs ==
  ASSUME NEW st \in DomainState, NEW axes \in Seq(Labels), NEW chans \in Indices
  PROVE  LET r == MergeDomain(st, axes, chans)
         IN  /\ r \in DomainState /\ HasAxes(r.axes, st.axes, axes, Len(axes))
             /\ DOMAIN r.rows = DOMAIN chans \cup DOMAIN st.rows
             /\ \A n \in DOMAIN chans : chans[n] \in DOMAIN axes =>
                   r.rows[n].axis \in DOMAIN r.axes /\ r.axes[r.rows[n].axis] = axes[chans[n]]
             /\ \A n \in DOMAIN st.rows \ DOMAIN chans : r.rows[n] = st.rows[n]
<1> DEFINE m == MergedAxes(st.axes, axes)
           First(i, j) == m[j] = axes[i] /\ \A k \in 1 .. j - 1 : m[k] # axes[i]
           Remap(i) == IF i \in DOMAIN axes
                       THEN CHOOSE j \in DOMAIN m : m[j] = axes[i] /\ \A k \in 1 .. j - 1 : m[k] # axes[i]
                       ELSE 1
           new == [n \in DOMAIN chans |-> [vis |-> TRUE, axis |-> Remap(chans[n])]]
<1>1. HasAxes(m, st.axes, axes, Len(axes)) /\ m \in Seq(Labels) /\ DOMAIN m = 1 .. Len(m) /\ Len(m) \in Nat
  <2>1. st.axes \in Seq(Labels)
    BY DEF DomainState
  <2>2. HasAxes(m, st.axes, axes, Len(axes))
    BY <2>1, MergedAxesIs
  <2> HIDE DEF m
  <2> QED BY <2>2, LenProperties DEF HasAxes
<1>2. DOMAIN chans \subseteq Names /\ \A n \in DOMAIN chans : chans[n] \in Nat \ {0}
  BY MapIs DEF Indices
<1>3. MergeDomain(st, axes, chans) = [axes |-> m, rows |-> Over(new, st.rows)]
  BY DEF MergeDomain
<1> HIDE DEF m
<1>4. ASSUME NEW i \in DOMAIN axes PROVE Remap(i) \in DOMAIN m /\ m[Remap(i)] = axes[i]
  <2> DEFINE hits == {j \in DOMAIN m : m[j] = axes[i]}
  <2>1. hits # {}
    <3>1. i \in 1 .. Len(axes)
      BY LenProperties
    <3>2. \E j \in 1 .. Len(m) : m[j] = axes[i]
      BY <1>1, <3>1 DEF HasAxes
    <3> QED BY <1>1, <3>2
  <2>2. hits \subseteq Nat
    BY <1>1
  <2>3. PICK j \in hits : \A k \in hits : j <= k
    <3> HIDE DEF hits
    <3> QED BY <2>1, <2>2, LeastExists
  <2>4. \A k \in 1 .. j - 1 : m[k] # axes[i]
    <3>1. \A k \in 1 .. j - 1 : k \in DOMAIN m /\ ~(j <= k)
      BY <1>1, <2>3
    <3> QED BY <2>3, <3>1
  <2>5. j \in DOMAIN m /\ m[j] = axes[i]
    BY <2>3
  <2>6. \E l \in DOMAIN m : m[l] = axes[i] /\ \A k \in 1 .. l - 1 : m[k] # axes[i]
    BY <2>4, <2>5
  <2>7. Remap(i) = CHOOSE l \in DOMAIN m : m[l] = axes[i] /\ \A k \in 1 .. l - 1 : m[k] # axes[i]
    BY <1>4
  <2> HIDE DEF Remap
  <2> QED BY <2>6, <2>7
<1> HIDE DEF Remap
<1>5. \A n \in DOMAIN chans : Remap(chans[n]) \in Nat \ {0}
  <2>1. \A i : i \notin DOMAIN axes => Remap(i) = 1
    BY DEF Remap
  <2>2. DOMAIN m \subseteq Nat \ {0}
    BY <1>1
  <2> QED BY <1>4, <2>1, <2>2
<1>6. \A n \in DOMAIN chans : new[n] \in Placement /\ new[n].axis = Remap(chans[n])
  BY <1>5 DEF Placement
<1>7. DOMAIN new = DOMAIN chans /\ new = [n \in DOMAIN new |-> new[n]]
  OBVIOUS
<1> HIDE DEF new
<1>8. new \in Places /\ st.rows \in Places
  BY <1>2, <1>6, <1>7, MapIs DEF Places, DomainState
<1> DEFINE rows == Over(new, st.rows)
<1>9. rows \in Places
  BY <1>8, OverIs DEF Places
<1>10. /\ DOMAIN rows = DOMAIN chans \cup DOMAIN st.rows
       /\ \A n \in DOMAIN chans : rows[n] = new[n]
       /\ \A n \in DOMAIN st.rows \ DOMAIN chans : rows[n] = st.rows[n]
  BY <1>7 DEF Over
<1> HIDE DEF rows
<1>11. MergeDomain(st, axes, chans) = [axes |-> m, rows |-> rows]
  BY <1>3 DEF rows
<1>12. \A n \in DOMAIN chans : chans[n] \in DOMAIN axes =>
           rows[n].axis \in DOMAIN m /\ m[rows[n].axis] = axes[chans[n]]
  BY <1>4, <1>6, <1>10
<1> QED BY <1>1, <1>9, <1>10, <1>11, <1>12 DEF DomainState

LEMMA LayoutIs ==
  ASSUME NEW l \in Layout
  PROVE  /\ l.view \in Views /\ l.x \in Names \cup {NoName}
         /\ l.axesBy \in MapsTo(Domains, Seq(Labels)) /\ l.chansBy \in MapsTo(Domains, Indices)
         /\ \A d : Get(l.axesBy, d, Empty) \in Seq(Labels) /\ Get(l.chansBy, d, Empty) \in Indices
<1>1. /\ l.view \in Views /\ l.x \in Names \cup {NoName}
      /\ l.axesBy \in MapsTo(Domains, Seq(Labels)) /\ l.chansBy \in MapsTo(Domains, Indices)
  BY DEF Layout
<1>2. Empty \in Seq(Labels) /\ Empty \in Indices
  BY EmptyIs DEF Indices
<1> QED BY <1>1, <1>2, GetIs

\* v is u with other placements in the domains.
Placing(u, v, by) ==
  /\ v \in Widget /\ v.by = by
  /\ v.chans = u.chans /\ v.view = u.view /\ v.x = u.x /\ v.combo = u.combo
  /\ v.axes = u.axes /\ v.on = u.on

LEMMA HydratedIs ==
  ASSUME NEW u \in Widget, NEW l \in Layout
  PROVE  /\ Placing(u, Hydrated(u, l, ReplaceDomain),
                    [d \in Domains |-> ReplaceDomain(u.by[d], Get(l.axesBy, d, Empty), Get(l.chansBy, d, Empty))])
         /\ Placing(u, Hydrated(u, l, MergeDomain),
                    [d \in Domains |-> MergeDomain(u.by[d], Get(l.axesBy, d, Empty), Get(l.chansBy, d, Empty))])
<1> DEFINE r == [d \in Domains |-> ReplaceDomain(u.by[d], Get(l.axesBy, d, Empty), Get(l.chansBy, d, Empty))]
           m == [d \in Domains |-> MergeDomain(u.by[d], Get(l.axesBy, d, Empty), Get(l.chansBy, d, Empty))]
<1>1. u.by \in [Domains -> DomainState]
  BY WidgetIs DEF DomainState
<1>2. r \in [Domains -> DomainState]
  BY LayoutIs, ReplaceIs
<1>3. m \in [Domains -> DomainState]
  BY <1>1, LayoutIs, MergeIs
<1>4. Hydrated(u, l, ReplaceDomain) = [u EXCEPT !.by = r]
  BY DEF Hydrated
<1>5. Hydrated(u, l, MergeDomain) = [u EXCEPT !.by = m]
  BY DEF Hydrated
<1> HIDE DEF r, m
<1>6. ASSUME NEW b \in [Domains -> DomainState] PROVE Placing(u, [u EXCEPT !.by = b], b)
  BY DEF Widget, DomainState, Placing
<1> QED BY <1>2, <1>3, <1>4, <1>5, <1>6 DEF r, m

LEMMA PendingIs ==
  ASSUME NEW u, NEW l \in Layout
  PROVE  Pending(u, l) \in Indices
<1> DEFINE late == {p \in AllLayoutChans(l) : p[1] \notin DOMAIN u.chans}
           S == {p[1] : p \in late}
           f == [n \in S |-> (CHOOSE p \in late : p[1] = n)[2]]
<1>1. ASSUME NEW p \in AllLayoutChans(l) PROVE p[1] \in Names /\ p[2] \in Nat \ {0}
  <2>1. PICK d \in DOMAIN l.chansBy : p \in {<<n, l.chansBy[d][n]>> : n \in DOMAIN l.chansBy[d]}
    BY DEF AllLayoutChans
  <2>2. PICK n \in DOMAIN l.chansBy[d] : p = <<n, l.chansBy[d][n]>>
    BY <2>1
  <2>3. l.chansBy[d] \in Indices
    BY LayoutIs, MapIs
  <2>4. n \in Names /\ l.chansBy[d][n] \in Nat \ {0}
    BY <2>3, MapIs DEF Indices
  <2> QED BY <2>2, <2>4
<1>2. S \subseteq Names
  BY <1>1
<1>3. ASSUME NEW n \in S PROVE (CHOOSE p \in late : p[1] = n)[2] \in Nat \ {0}
  <2>1. \E p \in late : p[1] = n
    OBVIOUS
  <2>2. (CHOOSE p \in late : p[1] = n) \in late
    <3> HIDE DEF late
    <3> QED BY <2>1
  <2>3. late \subseteq AllLayoutChans(l)
    OBVIOUS
  <2> HIDE DEF late
  <2> QED BY <1>1, <2>2, <2>3
<1>4. Pending(u, l) = f
  BY DEF Pending
<1>5. DOMAIN f = S /\ f = [n \in DOMAIN f |-> f[n]]
  OBVIOUS
<1>6. \A n \in S : f[n] \in Nat \ {0}
  BY <1>3
<1> HIDE DEF f, S
<1> QED BY <1>2, <1>4, <1>5, <1>6, MapIs DEF Indices

\* v shows the layout l over the placements and the store of u.
Shows(u, v, l) ==
  /\ Sound(v) /\ RowsFollow(v)
  /\ v.chans = u.chans /\ v.view = l.view /\ v.by = u.by
  /\ v.on = activeDomain(v) /\ v.saved = u.by[v.on].rows
  /\ u.by[v.on].axes # Empty => v.axes = u.by[v.on].axes
  /\ l.view # "xy" => v.x = l.x
  /\ l.view = "xy" => v.x = LET prev == IF u.combo = NoName THEN l.x ELSE u.combo
                            IN  IF prev \in DOMAIN u.chans THEN prev ELSE NoName

LEMMA AppliedIs ==
  ASSUME NEW u \in Widget, ComboSound(u), NEW l \in Layout
  PROVE  Shows(u, Applied(u, l), l)
<1> DEFINE shown == [u EXCEPT !.pending = Pending(u, l), !.view = l.view, !.x = l.x]
           chosen == IF l.view = "xy" THEN rebuildXyXCombo(shown) ELSE shown
           d == activeDomain(chosen)
           bare == clearAllPlottables(chosen)
           t == applyFromDomain(bare, d)
           v == Refreshed(t)
<1>1. l.view \in Views /\ l.x \in Names \cup {NoName} /\ Pending(u, l) \in Indices
  BY LayoutIs, PendingIs
<1>2. Applied(u, l) = v
  BY DEF Applied
<1>3. /\ shown \in Widget /\ shown.view = l.view /\ shown.x = l.x /\ shown.combo = u.combo
      /\ shown.chans = u.chans /\ shown.by = u.by /\ shown.axes = u.axes
  BY <1>1 DEF Widget
<1> HIDE DEF shown
<1>4. /\ chosen \in Widget /\ ComboSound(chosen) /\ chosen.view = l.view
      /\ chosen.chans = u.chans /\ chosen.by = u.by
      /\ l.view # "xy" => chosen.x = l.x
      /\ l.view = "xy" => chosen.x = LET prev == IF u.combo = NoName THEN l.x ELSE u.combo
                                     IN  IF prev \in DOMAIN u.chans THEN prev ELSE NoName
  <2>1. CASE l.view = "xy"
    <3> DEFINE z == rebuildXyXCombo(shown)
    <3>1. /\ z \in Widget /\ SameButX(shown, z) /\ z.x = z.combo /\ ComboSound(z)
          /\ z.combo = LET prev == IF shown.combo = NoName THEN shown.x ELSE shown.combo
                       IN  IF prev \in DOMAIN shown.chans THEN prev ELSE NoName
      BY <1>3, XyComboIs
    <3>2. chosen = z
      BY <2>1
    <3> HIDE DEF z, chosen
    <3> QED BY <1>3, <2>1, <3>1, <3>2 DEF SameButX
  <2>2. CASE l.view # "xy"
    <3>1. chosen = shown
      BY <2>2
    <3> HIDE DEF chosen
    <3> QED BY <1>3, <2>2, <3>1 DEF ComboSound
  <2> QED BY <2>1, <2>2
<1> HIDE DEF chosen
<1>5. d \in Domains
  BY <1>4, DomainIs
<1>6. bare \in Widget /\ Same(chosen, bare) /\ ComboSound(bare)
  BY <1>4, ClearIs
<1> HIDE DEF bare
<1>7. /\ t \in Widget /\ t.on = d /\ t.axes = AxesBrought(bare, d) /\ t.saved = bare.by[d].rows
      /\ t.chans = bare.chans /\ t.view = bare.view /\ t.x = bare.x /\ t.combo = bare.combo
      /\ t.by = bare.by /\ ComboSound(t)
  BY <1>5, <1>6, ApplyIs
<1>8. activeDomain(t) = d
  BY <1>6, <1>7 DEF activeDomain, Same
<1> HIDE DEF t, d
<1>9. /\ v \in Widget /\ Same(t, v) /\ v.rows = [n \in Listed(t) |-> Row(t, n)]
      /\ TableSound(v) /\ activeDomain(v) = activeDomain(t) /\ ComboSound(v)
  BY <1>7, RefreshedIs
<1> HIDE DEF v
<1>10. RowsFollow(v)
  BY <1>7, <1>9, DealtIs
<1>11. u.by[d].axes # Empty => v.axes = u.by[d].axes
  BY <1>4, <1>6, <1>7, <1>9 DEF Same, AxesBrought
<1>12. v.x = chosen.x /\ v.view = l.view /\ v.chans = u.chans /\ v.by = u.by /\ v.on = d /\ v.saved = u.by[d].rows
  BY <1>4, <1>6, <1>7, <1>9 DEF Same
<1> QED BY <1>2, <1>4, <1>8, <1>9, <1>10, <1>11, <1>12 DEF Shows, Sound

LEMMA SwapIs ==
  ASSUME NEW u \in Widget, ComboSound(u), NEW old \in Domains
  PROVE  LET v == SwapDomain(old, u)
             new == activeDomain(u)
         IN  /\ Sound(v) /\ RowsFollow(v)
             /\ v.chans = u.chans /\ v.view = u.view /\ v.x = u.x /\ v.combo = u.combo
             /\ old = new => Kept(u, v)
             /\ old # new => /\ v.on = new /\ v.axes = AxesBrought(u, new) /\ v.saved = u.by[new].rows
                             /\ v.by = [u.by EXCEPT ![old] = [axes |-> u.axes, rows |-> Sticky(u)]]
<1> DEFINE new == activeDomain(u)
           bare == clearAllPlottables(u)
           put == snapshotIntoDomain(bare, old)
           t == IF old # new THEN applyFromDomain(put, new) ELSE bare
           v == Refreshed(t)
<1>1. bare \in Widget /\ Same(u, bare) /\ ComboSound(bare) /\ bare.rows = u.rows
  BY ClearIs
<1>2. SwapDomain(old, u) = v
  <2>1. activeDomain(u) = new
    OBVIOUS
  <2> QED BY <2>1 DEF SwapDomain
<1>3. new \in Domains
  BY DomainIs
<1> HIDE DEF bare
<1>4. /\ put \in Widget /\ ComboSound(put)
      /\ put.by = [bare.by EXCEPT ![old] = [axes |-> bare.axes, rows |-> Sticky(bare)]]
      /\ put.chans = bare.chans /\ put.view = bare.view /\ put.x = bare.x /\ put.combo = bare.combo
      /\ put.axes = bare.axes
  BY <1>1, SnapshotIs
<1>5. Sticky(bare) = Sticky(u)
  BY <1>1 DEF Sticky, Same
<1> HIDE DEF put, new
<1>6. /\ t \in Widget /\ ComboSound(t)
      /\ t.chans = u.chans /\ t.view = u.view /\ t.x = u.x /\ t.combo = u.combo
      /\ old = new => t = bare
      /\ old # new => t.on = new /\ t.axes = AxesBrought(put, new) /\ t.saved = put.by[new].rows /\ t.by = put.by
  <2>1. CASE old # new
    <3> DEFINE z == applyFromDomain(put, new)
    <3>1. /\ z \in Widget /\ z.on = new /\ z.axes = AxesBrought(put, new) /\ z.saved = put.by[new].rows
          /\ z.chans = put.chans /\ z.view = put.view /\ z.x = put.x /\ z.combo = put.combo
          /\ z.by = put.by /\ ComboSound(z)
      BY <1>3, <1>4, ApplyIs
    <3>2. t = z
      BY <2>1
    <3> HIDE DEF z, t
    <3> QED BY <1>1, <1>4, <2>1, <3>1, <3>2 DEF Same
  <2>2. CASE old = new
    <3>1. t = bare
      BY <2>2
    <3> HIDE DEF t
    <3> QED BY <1>1, <2>2, <3>1 DEF Same
  <2> QED BY <2>1, <2>2
<1> HIDE DEF t
<1>7. /\ v \in Widget /\ Same(t, v) /\ v.rows = [n \in Listed(t) |-> Row(t, n)]
      /\ TableSound(v) /\ ComboSound(v)
  BY <1>6, RefreshedIs
<1> HIDE DEF v
<1>8. RowsFollow(v)
  BY <1>6, <1>7, DealtIs
<1>9. old = new => Kept(u, v)
  BY <1>1, <1>6, <1>7 DEF Kept, Same
<1>10. ASSUME old # new
       PROVE  /\ v.on = new /\ v.axes = AxesBrought(u, new) /\ v.saved = u.by[new].rows
              /\ v.by = [u.by EXCEPT ![old] = [axes |-> u.axes, rows |-> Sticky(u)]]
  <2>1. u.by \in [Domains -> DomainState]
    BY WidgetIs DEF DomainState
  <2>2. put.by = [u.by EXCEPT ![old] = [axes |-> u.axes, rows |-> Sticky(u)]]
    BY <1>1, <1>4, <1>5 DEF Same
  <2>3. put.by[new] = u.by[new]
    BY <1>3, <1>10, <2>1, <2>2
  <2>4. AxesBrought(put, new) = AxesBrought(u, new)
    BY <1>1, <1>4, <2>3 DEF AxesBrought, Same
  <2> QED BY <1>6, <1>7, <1>10, <2>2, <2>3, <2>4 DEF Same
<1>11. v.chans = u.chans /\ v.view = u.view /\ v.x = u.x /\ v.combo = u.combo
  BY <1>6, <1>7 DEF Same
<1> QED BY <1>2, <1>7, <1>8, <1>9, <1>10, <1>11 DEF Sound, new

-----------------------------------------------------------------------------
(* Snapshots and files                                                      *)

LEMMA LayoutOfIs ==
  ASSUME NEW u \in Widget
  PROVE  LET l == LayoutOf(u)
         IN  /\ l \in Layout /\ DOMAIN l.axesBy = Domains /\ DOMAIN l.chansBy = Domains
             /\ \A d \in Domains : /\ l.axesBy[d] = u.by[d].axes
                                   /\ DOMAIN l.chansBy[d] = ChannelsOf(u.chans, d)
             /\ l.view = u.view /\ l.x = u.x
<1> DEFINE a == [d \in Domains |-> u.by[d].axes]
           c == [d \in Domains |-> LayoutChannels(u, d)]
<1>1. LayoutOf(u) = [view |-> u.view, x |-> u.x, axesBy |-> a, chansBy |-> c]
  BY DEF LayoutOf
<1>2. \A d \in Domains : u.by[d].axes \in Seq(Labels) /\ u.by[d].rows \in Places
  BY WidgetIs
<1>3. a \in MapsTo(Domains, Seq(Labels))
  BY <1>2, MapIs
<1>4. ASSUME NEW d \in Domains
      PROVE  LayoutChannels(u, d) \in Indices /\ DOMAIN LayoutChannels(u, d) = ChannelsOf(u.chans, d)
  <2> DEFINE f == [n \in {e \in DOMAIN u.chans : u.chans[e] = d} |->
                      Get(u.by[d].rows, n, [vis |-> TRUE, axis |-> 1]).axis]
  <2>1. LayoutChannels(u, d) = f
    BY DEF LayoutChannels
  <2>2. DOMAIN f = ChannelsOf(u.chans, d) /\ f = [n \in DOMAIN f |-> f[n]]
    BY DEF ChannelsOf
  <2>3. DOMAIN f \subseteq Names
    <3>1. DOMAIN u.chans \subseteq Names
      BY WidgetIs, MapIs
    <3> QED BY <3>1
  <2>4. ASSUME NEW n \in DOMAIN f PROVE f[n] \in Nat \ {0}
    <3>1. CASE n \in DOMAIN u.by[d].rows
      <4>1. u.by[d].rows[n].axis \in Nat \ {0}
        BY <1>2, <3>1, PlacesAre
      <4> QED BY <3>1, <4>1 DEF Get
    <3>2. CASE n \notin DOMAIN u.by[d].rows
      BY <3>2 DEF Get
    <3> QED BY <3>1, <3>2
  <2> HIDE DEF f
  <2> QED BY <2>1, <2>2, <2>3, <2>4, MapIs DEF Indices
<1>5. c \in MapsTo(Domains, Indices)
  BY <1>4, MapIs
<1>6. \A d \in Domains : a[d] = u.by[d].axes /\ DOMAIN c[d] = ChannelsOf(u.chans, d)
  BY <1>4
<1>7. DOMAIN a = Domains /\ DOMAIN c = Domains
  OBVIOUS
<1> HIDE DEF a, c
<1>8. u.view \in Views /\ u.x \in Names \cup {NoName}
  BY WidgetIs
<1> QED BY <1>1, <1>3, <1>5, <1>6, <1>7, <1>8 DEF Layout

\* A document as a snapshot keeps it.
Document == [layout : Layout, chans : MapsTo(Names, Domains)]
Whole(s) == /\ s \in Document /\ DOMAIN s.layout.axesBy = Domains /\ DOMAIN s.layout.chansBy = Domains
            /\ \A d \in Domains : DOMAIN s.layout.chansBy[d] = ChannelsOf(s.chans, d)

LEMMA CapturedIs ==
  ASSUME NEW u \in Widget
  PROVE  Whole(captureState(u)) /\ captureState(u).chans = u.chans
<1> DEFINE s == snapshotIntoDomain(u, activeDomain(u))
<1>1. s \in Widget /\ s.chans = u.chans
  BY DomainIs, SnapshotIs
<1>2. captureState(u) = [layout |-> LayoutOf(s), chans |-> s.chans]
  BY DEF captureState
<1> HIDE DEF s
<1>3. /\ LayoutOf(s) \in Layout /\ DOMAIN LayoutOf(s).axesBy = Domains
      /\ DOMAIN LayoutOf(s).chansBy = Domains
      /\ \A d \in Domains : DOMAIN LayoutOf(s).chansBy[d] = ChannelsOf(s.chans, d)
  BY <1>1, LayoutOfIs
<1>4. s.chans \in MapsTo(Names, Domains)
  BY <1>1, WidgetIs
<1> QED BY <1>1, <1>2, <1>3, <1>4 DEF Whole, Document

LEMMA ReplacingIs ==
  ASSUME NEW u \in Widget, ComboSound(u), NEW l \in Layout
  PROVE  LET v == ApplyReplacing(u, l)
         IN  /\ Sound(v) /\ RowsFollow(v) /\ v.chans = u.chans /\ v.view = l.view
             /\ l.view # "xy" => v.x = l.x
             /\ v.on = activeDomain(v) /\ v.saved = v.by[v.on].rows
             /\ v.by[v.on].axes # Empty => v.axes = v.by[v.on].axes
             /\ \A d \in Domains :
                  /\ v.by[d].axes = Get(l.axesBy, d, Empty)
                  /\ DOMAIN v.by[d].rows = DOMAIN Get(l.chansBy, d, Empty)
                  /\ \A n \in DOMAIN v.by[d].rows : v.by[d].rows[n].axis = Get(l.chansBy, d, Empty)[n]
<1> DEFINE b == [d \in Domains |-> ReplaceDomain(u.by[d], Get(l.axesBy, d, Empty), Get(l.chansBy, d, Empty))]
           h == Hydrated(u, l, ReplaceDomain)
           v == Applied(h, l)
<1>1. ApplyReplacing(u, l) = v
  BY DEF ApplyReplacing
<1>2. Placing(u, h, b)
  BY HydratedIs
<1>3. \A d \in Domains : /\ b[d].axes = Get(l.axesBy, d, Empty)
                         /\ DOMAIN b[d].rows = DOMAIN Get(l.chansBy, d, Empty)
                         /\ \A n \in DOMAIN b[d].rows : b[d].rows[n].axis = Get(l.chansBy, d, Empty)[n]
  BY LayoutIs, ReplaceIs
<1> HIDE DEF b, h
<1>4. h \in Widget /\ ComboSound(h)
  BY <1>2 DEF Placing, ComboSound
<1>5. Shows(h, v, l)
  BY <1>4, AppliedIs
<1> HIDE DEF v
<1>6. v.by = b /\ v.chans = u.chans
  BY <1>2, <1>5 DEF Placing, Shows
<1> QED BY <1>1, <1>3, <1>5, <1>6 DEF Shows

LEMMA RestoredIs ==
  ASSUME NEW u, Sound(u), NEW s, Whole(s)
  PROVE  LET v == restoreState(u, s)
         IN  /\ Sound(v) /\ RowsFollow(v) /\ v.chans = s.chans /\ v.view = s.layout.view
             /\ s.layout.view # "xy" => v.x = s.layout.x
             /\ v.on = activeDomain(v) /\ v.saved = v.by[v.on].rows
             /\ v.by[v.on].axes # Empty => v.axes = v.by[v.on].axes
             /\ \A d \in Domains :
                  /\ v.by[d].axes = s.layout.axesBy[d]
                  /\ DOMAIN v.by[d].rows = DOMAIN s.layout.chansBy[d]
                  /\ \A n \in DOMAIN v.by[d].rows : v.by[d].rows[n].axis = s.layout.chansBy[d][n]
<1> DEFINE kept == StoreRemoveAll(u, DOMAIN u.chans \ DOMAIN s.chans)
           full == StoreAddAll(kept, s.chans)
           v == ApplyReplacing(full, s.layout)
<1>1. restoreState(u, s) = v
  BY DEF restoreState
<1>2. s.chans \in MapsTo(Names, Domains) /\ s.layout \in Layout
  BY DEF Whole, Document
<1>3. Sound(kept) /\ DOMAIN kept.chans = DOMAIN u.chans \ (DOMAIN u.chans \ DOMAIN s.chans)
  BY StoreRemoveAllIs
<1> HIDE DEF kept
<1>4. /\ Sound(full) /\ DOMAIN full.chans = DOMAIN kept.chans \cup DOMAIN s.chans
      /\ \A n \in DOMAIN full.chans : full.chans[n] = IF n \in DOMAIN s.chans THEN s.chans[n] ELSE kept.chans[n]
  BY <1>2, <1>3, StoreAddAllIs
<1> HIDE DEF full
<1>5. full.chans = s.chans
  <2>1. DOMAIN full.chans = DOMAIN s.chans
    BY <1>3, <1>4
  <2>2. \A n \in DOMAIN s.chans : full.chans[n] = s.chans[n]
    BY <1>4, <2>1
  <2>3. full.chans \in MapsTo(Names, Domains)
    BY <1>4, WidgetIs DEF Sound
  <2>4. full.chans = [n \in DOMAIN full.chans |-> full.chans[n]]
    BY <2>3, MapIs
  <2>5. s.chans = [n \in DOMAIN s.chans |-> s.chans[n]]
    BY <1>2, MapIs
  <2> QED BY <2>1, <2>2, <2>4, <2>5
<1>6. full \in Widget /\ ComboSound(full)
  BY <1>4 DEF Sound
<1>7. /\ Sound(v) /\ RowsFollow(v) /\ v.chans = full.chans /\ v.view = s.layout.view
      /\ s.layout.view # "xy" => v.x = s.layout.x
      /\ v.on = activeDomain(v) /\ v.saved = v.by[v.on].rows
      /\ v.by[v.on].axes # Empty => v.axes = v.by[v.on].axes
      /\ \A d \in Domains :
           /\ v.by[d].axes = Get(s.layout.axesBy, d, Empty)
           /\ DOMAIN v.by[d].rows = DOMAIN Get(s.layout.chansBy, d, Empty)
           /\ \A n \in DOMAIN v.by[d].rows : v.by[d].rows[n].axis = Get(s.layout.chansBy, d, Empty)[n]
  BY <1>2, <1>6, ReplacingIs
<1>8. \A d \in Domains : /\ Get(s.layout.axesBy, d, Empty) = s.layout.axesBy[d]
                         /\ Get(s.layout.chansBy, d, Empty) = s.layout.chansBy[d]
  BY DEF Whole, Get
<1> HIDE DEF v
<1> QED BY <1>1, <1>5, <1>7, <1>8

-----------------------------------------------------------------------------
(* The operations                                                           *)

LEMMA MoveIs ==
  ASSUME NEW V, NEW f \in MapsTo(Names, V), NEW from \in Names, NEW to \in Names
  PROVE  Rekeyed(f, from, to) \in MapsTo(Names, V)
<1>1. CASE from \in DOMAIN f
  <2> DEFINE g == [n \in DOMAIN f \ {from} |-> f[n]]
  <2>1. g \in MapsTo(Names, V) /\ f[from] \in V
    BY <1>1, MapIs
  <2> HIDE DEF g
  <2>2. Put(g, to, f[from]) \in MapsTo(Names, V)
    BY <2>1, PutTyped
  <2> QED BY <1>1, <2>2 DEF g, Rekeyed
<1>2. CASE from \notin DOMAIN f
  BY <1>2 DEF Rekeyed
<1> QED BY <1>1, <1>2

LEMMA RenamedIs ==
  ASSUME NEW u \in Widget, NEW from \in Names, NEW to \in Names, from \in DOMAIN u.chans
  PROVE  remapLocalChannelNames(RekeyStore(u, from, to), from, to) \in Widget
<1> DEFINE c == [n \in (DOMAIN u.chans \ {from}) \cup {to} |-> u.chans[IF n = to THEN from ELSE n]]
           s == [u EXCEPT !.chans = c]
           Move(f) == Rekeyed(f, from, to)
           b == [d \in Domains |-> [axes |-> s.by[d].axes, rows |-> Move(s.by[d].rows)]]
<1>1. c \in MapsTo(Names, Domains)
  <2>1. DOMAIN u.chans \subseteq Names /\ \A n \in DOMAIN u.chans : u.chans[n] \in Domains
    BY WidgetIs, MapIs
  <2>2. \A n \in DOMAIN c : c[n] \in Domains
    BY <2>1
  <2>3. DOMAIN c \subseteq Names /\ c = [n \in DOMAIN c |-> c[n]]
    BY <2>1
  <2> HIDE DEF c
  <2> QED BY <2>2, <2>3, MapIs
<1>2. RekeyStore(u, from, to) = s
  BY DEF RekeyStore
<1> HIDE DEF c
<1>3. s \in Widget
  BY <1>1 DEF Widget
<1> HIDE DEF s
<1>4. /\ Move(s.saved) \in Places /\ Move(s.pending) \in Indices /\ Move(s.plotted) \in MapsTo(Names, Nat)
  BY <1>3, WidgetIs, MoveIs DEF Places, Indices
<1>5. b \in [Domains -> DomainState]
  <2>1. ASSUME NEW d \in Domains PROVE b[d] \in DomainState
    <3>1. s.by[d] \in DomainState
      BY <1>3, WidgetIs DEF DomainState
    <3>2. Move(s.by[d].rows) \in Places
      BY <3>1, MoveIs DEF DomainState, Places
    <3> QED BY <3>1, <3>2 DEF DomainState
  <2> QED BY <2>1
<1>6. remapLocalChannelNames(s, from, to)
        = [s EXCEPT !.saved = Move(s.saved), !.by = b, !.pending = Move(s.pending),
                    !.plotted = Move(s.plotted), !.x = IF s.x = from THEN to ELSE s.x]
  BY DEF remapLocalChannelNames
<1> HIDE DEF Move, b
<1>7. (IF s.x = from THEN to ELSE s.x) \in Names \cup {NoName}
  BY <1>3, WidgetIs
<1>8. remapLocalChannelNames(s, from, to) \in Widget
  BY <1>3, <1>4, <1>5, <1>6, <1>7 DEF Widget, DomainState
<1> QED BY <1>2, <1>8

LEMMA SoundIs ==
  ASSUME NEW u, Sound(u)
  PROVE  /\ u \in Widget /\ u.axes \in Seq(Labels) \ {Empty} /\ DOMAIN u.axes = 1 .. Len(u.axes)
         /\ Len(u.axes) \in Nat \ {0}
         /\ u.rows \in Places /\ DOMAIN u.rows \subseteq Names /\ DOMAIN u.rows \subseteq DOMAIN u.chans
         /\ \A n \in DOMAIN u.rows : /\ u.rows[n] \in Placement /\ u.rows[n].axis \in 1 .. Len(u.axes)
                                     /\ u.chans[n] = activeDomain(u)
<1>1. u \in Widget /\ u.axes \in Seq(Labels) \ {Empty} /\ u.rows \in Places
  BY WidgetIs DEF Sound
<1>2. DOMAIN u.axes = 1 .. Len(u.axes) /\ Len(u.axes) \in Nat \ {0}
  BY <1>1, AxesAre
<1>3. DOMAIN u.rows \subseteq Names /\ \A n \in DOMAIN u.rows : u.rows[n] \in Placement
  BY <1>1, PlacesAre
<1>4. DOMAIN u.rows \subseteq DOMAIN u.chans /\ \A n \in DOMAIN u.rows : u.chans[n] = activeDomain(u)
  BY ListedIs DEF Sound, TableSound
<1> QED BY <1>1, <1>2, <1>3, <1>4 DEF Sound, TableSound

\* v is u with other axes, each row on one of them, and the same channels drawn.
LEMMA AxesChanged ==
  ASSUME NEW u, Sound(u), NEW v \in Widget,
         v.chans = u.chans, v.view = u.view, v.x = u.x, v.combo = u.combo,
         DOMAIN v.rows = DOMAIN u.rows, DOMAIN v.plotted = DOMAIN u.plotted,
         \A n \in DOMAIN u.rows : v.rows[n].vis = u.rows[n].vis /\ v.rows[n].axis \in DOMAIN v.axes
  PROVE  Sound(v)
<1>1. Listed(v) = Listed(u) /\ activeChannels(v) = activeChannels(u)
  BY SameListed DEF activeChannels
<1>2. TableSound(v)
  BY <1>1 DEF TableSound, Sound
<1>3. ComboSound(v)
  BY DEF ComboSound, Sound
<1> QED BY <1>2, <1>3 DEF Sound

LEMMA CombosSound ==
  ASSUME NEW u, Sound(u), NEW t \in Widget,
         t.chans = u.chans, t.view = u.view, t.x = u.x, t.combo = u.combo,
         t.rows = u.rows, DOMAIN t.plotted = DOMAIN u.plotted
  PROVE  Sound(rebuildAxisCombos(t))
<1> DEFINE v == rebuildAxisCombos(t)
<1>1. /\ v \in Widget /\ Same(t, v) /\ v.plotted = t.plotted /\ DOMAIN v.rows = DOMAIN t.rows
      /\ \A n \in DOMAIN t.rows : /\ v.rows[n].vis = t.rows[n].vis
                                  /\ v.rows[n].axis = Least(t.rows[n].axis, Len(t.axes))
  BY CombosAre
<1> HIDE DEF v
<1>2. \A n \in DOMAIN u.rows : v.rows[n].vis = u.rows[n].vis /\ v.rows[n].axis \in DOMAIN v.axes
  <2>1. t.axes \in Seq(Labels) \ {Empty} /\ t.rows \in Places
    BY WidgetIs
  <2>2. \A n \in DOMAIN t.rows : t.rows[n].axis \in Nat \ {0}
    BY <2>1, PlacesAre
  <2>3. \A n \in DOMAIN t.rows : Least(t.rows[n].axis, Len(t.axes)) \in DOMAIN t.axes
    BY <2>1, <2>2, AxesAre
  <2> QED BY <1>1, <2>3 DEF Same
<1>3. /\ v.chans = u.chans /\ v.view = u.view /\ v.x = u.x /\ v.combo = u.combo
      /\ DOMAIN v.rows = DOMAIN u.rows /\ DOMAIN v.plotted = DOMAIN u.plotted
  BY <1>1 DEF Same
<1>4. Sound(v)
  BY <1>1, <1>2, <1>3, AxesChanged
<1> QED BY <1>4 DEF v

LEMMA AddAxisIs ==
  ASSUME NEW u, Sound(u), NEW label \in Labels
  PROVE  Sound(rebuildAxisCombos([u EXCEPT !.axes = Append(@, label)]))
<1> DEFINE a == Append(u.axes, label)
           t == [u EXCEPT !.axes = a]
<1>1. a \in Seq(Labels) /\ Len(a) = Len(u.axes) + 1 /\ u.axes \in Seq(Labels)
  BY SoundIs
<1>2. a # Empty
  BY <1>1, EmptyIs, LenProperties
<1> HIDE DEF a
<1>3. /\ t \in Widget /\ t.chans = u.chans /\ t.view = u.view /\ t.x = u.x /\ t.combo = u.combo
      /\ t.rows = u.rows /\ t.plotted = u.plotted
  BY <1>1, <1>2 DEF Sound, Widget
<1> HIDE DEF t
<1>4. Sound(rebuildAxisCombos(t))
  BY <1>3, CombosSound
<1> QED BY <1>4 DEF t, a

LEMMA RenameAxisIs ==
  ASSUME NEW u, Sound(u), NEW i \in DOMAIN u.axes, NEW label \in Labels
  PROVE  Sound([u EXCEPT !.axes[i] = label])
<1> DEFINE a == [u.axes EXCEPT ![i] = label]
           t == [u EXCEPT !.axes = a]
<1>1. a \in Seq(Labels) /\ Len(a) = Len(u.axes)
  BY SoundIs, ExceptSeq
<1>2. a # Empty /\ DOMAIN a = DOMAIN u.axes
  BY <1>1, EmptyIs, SoundIs, LenProperties
<1>3. [u EXCEPT !.axes[i] = label] = t
  OBVIOUS
<1> HIDE DEF a
<1>4. /\ t \in Widget /\ t.chans = u.chans /\ t.view = u.view /\ t.x = u.x /\ t.combo = u.combo
      /\ t.rows = u.rows /\ t.plotted = u.plotted /\ t.axes = a
  BY <1>1, <1>2 DEF Sound, Widget
<1> HIDE DEF t
<1>5. \A n \in DOMAIN u.rows : t.rows[n].vis = u.rows[n].vis /\ t.rows[n].axis \in DOMAIN t.axes
  BY <1>2, <1>4 DEF Sound, TableSound
<1>6. Sound(t)
  BY <1>4, <1>5, AxesChanged
<1> QED BY <1>3, <1>6

LEMMA RemoveAxisIs ==
  ASSUME NEW u, Sound(u), NEW i \in DOMAIN u.axes, i # 1
  PROVE  Sound(rebuildAxisCombos(
               [u EXCEPT !.axes = RemoveAt(@, i),
                         !.plotted = [n \in DOMAIN @ |-> IF @[n] = i THEN 0
                                                         ELSE IF @[n] > i THEN @[n] - 1 ELSE @[n]]]))
<1> DEFINE a == RemoveAt(u.axes, i)
           p == [n \in DOMAIN u.plotted |-> IF u.plotted[n] = i THEN 0
                                            ELSE IF u.plotted[n] > i THEN u.plotted[n] - 1 ELSE u.plotted[n]]
           t == [u EXCEPT !.axes = a, !.plotted = p]
<1>1. u.axes \in Seq(Labels) /\ i \in 1 .. Len(u.axes) /\ Len(u.axes) \in Nat
  BY SoundIs
<1>2. a \in Seq(Labels) /\ Len(a) = Len(u.axes) - 1
  <2> DEFINE b == SubSeq(u.axes, 1, i - 1)
             c == SubSeq(u.axes, i + 1, Len(u.axes))
  <2>1. \A j \in 1 .. Len(u.axes) : u.axes[j] \in Labels
    BY <1>1, ElementOfSeq
  <2>2. b \in Seq(Labels) /\ Len(b) = i - 1
    <3>1. \A j \in 1 .. i - 1 : u.axes[j] \in Labels
      BY <1>1, <2>1
    <3>2. b \in Seq(Labels) /\ Len(b) = IF 1 <= i - 1 THEN (i - 1) - 1 + 1 ELSE 0
      BY <1>1, <3>1, SubSeqProperties
    <3> HIDE DEF b
    <3> QED BY <1>1, <3>2
  <2>3. c \in Seq(Labels) /\ Len(c) = Len(u.axes) - i
    <3>1. \A j \in i + 1 .. Len(u.axes) : u.axes[j] \in Labels
      BY <1>1, <2>1
    <3>2. c \in Seq(Labels) /\ Len(c) = IF i + 1 <= Len(u.axes) THEN Len(u.axes) - (i + 1) + 1 ELSE 0
      BY <1>1, <3>1, SubSeqProperties
    <3> HIDE DEF c
    <3> QED BY <1>1, <3>2
  <2> HIDE DEF b, c
  <2>4. b \o c \in Seq(Labels) /\ Len(b \o c) = Len(b) + Len(c)
    BY <2>2, <2>3, ConcatProperties
  <2>5. a = b \o c
    BY DEF RemoveAt, b, c
  <2>6. \A j, k \in Int : (j - 1) + (k - j) = k - 1
    OBVIOUS
  <2>7. Len(b) + Len(c) = Len(u.axes) - 1
    BY <1>1, <2>2, <2>3, <2>6
  <2> HIDE DEF a
  <2> QED BY <2>4, <2>5, <2>7
<1>3. a # Empty
  <2> HIDE DEF a
  <2>1. Len(a) # 0
    BY <1>1, <1>2
  <2> QED BY <2>1, EmptyIs
<1>4. p \in MapsTo(Names, Nat)
  <2>1. u.plotted \in MapsTo(Names, Nat)
    BY WidgetIs DEF Sound
  <2>2. DOMAIN u.plotted \subseteq Names /\ \A n \in DOMAIN u.plotted : u.plotted[n] \in Nat
    BY <2>1, MapIs
  <2>3. \A n \in DOMAIN p : p[n] \in Nat
    BY <1>1, <2>2
  <2>4. DOMAIN p = DOMAIN u.plotted /\ p = [n \in DOMAIN p |-> p[n]]
    OBVIOUS
  <2> HIDE DEF p
  <2> QED BY <2>2, <2>3, <2>4, MapIs
<1>5. DOMAIN p = DOMAIN u.plotted
  OBVIOUS
<1>6. [u EXCEPT !.axes = RemoveAt(@, i),
                !.plotted = [n \in DOMAIN @ |-> IF @[n] = i THEN 0
                                                ELSE IF @[n] > i THEN @[n] - 1 ELSE @[n]]] = t
  OBVIOUS
<1> HIDE DEF a, p
<1>7. /\ t \in Widget /\ t.chans = u.chans /\ t.view = u.view /\ t.x = u.x /\ t.combo = u.combo
      /\ t.rows = u.rows /\ t.plotted = p
  BY <1>2, <1>3, <1>4 DEF Sound, Widget
<1> HIDE DEF t
<1>8. Sound(rebuildAxisCombos(t))
  BY <1>5, <1>7, CombosSound
<1> QED BY <1>6, <1>8

LEMMA AxisPickedIs ==
  ASSUME NEW u, Sound(u), NEW n \in DOMAIN u.rows, NEW i \in DOMAIN u.axes
  PROVE  Sound([u EXCEPT !.rows[n].axis = i,
                      !.saved = Put(@, n, [Get(@, n, [vis |-> FALSE, axis |-> 1]) EXCEPT !.axis = i]),
                      !.plotted = [c \in DOMAIN @ |-> IF c = n THEN i ELSE @[c]]])
<1> DEFINE r == [u.rows EXCEPT ![n].axis = i]
           e == [Get(u.saved, n, [vis |-> FALSE, axis |-> 1]) EXCEPT !.axis = i]
           s == Put(u.saved, n, e)
           p == [c \in DOMAIN u.plotted |-> IF c = n THEN i ELSE u.plotted[c]]
           t == [u EXCEPT !.rows = r, !.saved = s, !.plotted = p]
<1>1. i \in Nat \ {0} /\ n \in Names
  BY SoundIs
<1>2. /\ r \in Places /\ DOMAIN r = DOMAIN u.rows
      /\ \A m \in DOMAIN u.rows : r[m].vis = u.rows[m].vis /\ r[m].axis \in DOMAIN u.axes
  <2>1. /\ DOMAIN u.rows \subseteq Names
        /\ \A m \in DOMAIN u.rows : u.rows[m] \in Placement /\ u.rows[m].axis \in DOMAIN u.axes
    BY SoundIs
  <2>2. DOMAIN r = DOMAIN u.rows /\ r = [m \in DOMAIN r |-> r[m]]
    OBVIOUS
  <2>3. \A m \in DOMAIN u.rows : r[m] = IF m = n THEN [u.rows[n] EXCEPT !.axis = i] ELSE u.rows[m]
    OBVIOUS
  <2>4. [u.rows[n] EXCEPT !.axis = i] \in Placement /\ [u.rows[n] EXCEPT !.axis = i].vis = u.rows[n].vis
        /\ [u.rows[n] EXCEPT !.axis = i].axis = i
    BY <1>1, <2>1 DEF Placement
  <2> HIDE DEF r
  <2>5. \A m \in DOMAIN u.rows : /\ r[m] \in Placement /\ r[m].vis = u.rows[m].vis
                                 /\ r[m].axis \in DOMAIN u.axes
    BY <2>1, <2>3, <2>4
  <2> QED BY <2>1, <2>2, <2>5, MapIs DEF Places
<1>3. s \in Places
  <2>1. u.saved \in Places
    BY WidgetIs DEF Sound
  <2>2. Get(u.saved, n, [vis |-> FALSE, axis |-> 1]) \in Placement
    <3>1. [vis |-> FALSE, axis |-> 1] \in Placement
      BY DEF Placement
    <3> QED BY <2>1, <3>1, GetIs DEF Places
  <2>3. e \in Placement
    BY <1>1, <2>2 DEF Placement
  <2> HIDE DEF e
  <2> QED BY <1>1, <2>1, <2>3, PutTyped DEF Places
<1>4. p \in MapsTo(Names, Nat) /\ DOMAIN p = DOMAIN u.plotted
  <2>1. u.plotted \in MapsTo(Names, Nat)
    BY WidgetIs DEF Sound
  <2>2. DOMAIN u.plotted \subseteq Names /\ \A c \in DOMAIN u.plotted : u.plotted[c] \in Nat
    BY <2>1, MapIs
  <2>3. \A c \in DOMAIN p : p[c] \in Nat
    BY <1>1, <2>2
  <2>4. DOMAIN p = DOMAIN u.plotted /\ p = [c \in DOMAIN p |-> p[c]]
    OBVIOUS
  <2> HIDE DEF p
  <2> QED BY <2>2, <2>3, <2>4, MapIs
<1>5. [u EXCEPT !.rows[n].axis = i,
                !.saved = Put(@, n, [Get(@, n, [vis |-> FALSE, axis |-> 1]) EXCEPT !.axis = i]),
                !.plotted = [c \in DOMAIN @ |-> IF c = n THEN i ELSE @[c]]] = t
  OBVIOUS
<1> HIDE DEF r, s, p
<1>6. /\ t \in Widget /\ t.chans = u.chans /\ t.view = u.view /\ t.x = u.x /\ t.combo = u.combo
      /\ t.rows = r /\ t.plotted = p /\ t.axes = u.axes
  BY <1>2, <1>3, <1>4 DEF Sound, Widget
<1> HIDE DEF t
<1>7. Sound(t)
  BY <1>2, <1>4, <1>6, AxesChanged
<1> QED BY <1>5, <1>7

Toggled(u, n, vis) ==
  redrawForActiveChannels(
      [u EXCEPT !.rows[n].vis = vis,
                !.saved = Put(@, n, [Get(@, n, [vis |-> FALSE, axis |-> 1]) EXCEPT !.vis = vis])])

LEMMA ToggledIs ==
  ASSUME NEW u, Sound(u), NEW n \in DOMAIN u.rows, NEW vis \in BOOLEAN
  PROVE  LET v == Toggled(u, n, vis)
         IN  /\ Sound(v) /\ v.chans = u.chans /\ v.view = u.view /\ v.x = u.x /\ v.combo = u.combo
             /\ v.axes = u.axes /\ v.by = u.by /\ v.on = u.on
             /\ DOMAIN v.rows = DOMAIN u.rows
             /\ \A m \in DOMAIN u.rows : v.rows[m].axis = u.rows[m].axis
             /\ DOMAIN v.saved = DOMAIN u.saved \cup {n}
             /\ \A m \in DOMAIN u.saved : v.saved[m].axis = u.saved[m].axis
<1> DEFINE r == [u.rows EXCEPT ![n].vis = vis]
           e == [Get(u.saved, n, [vis |-> FALSE, axis |-> 1]) EXCEPT !.vis = vis]
           s == Put(u.saved, n, e)
           t == [u EXCEPT !.rows = r, !.saved = s]
           v == redrawForActiveChannels(t)
<1>1. n \in Names
  BY SoundIs
<1>2. /\ r \in Places /\ DOMAIN r = DOMAIN u.rows
      /\ \A m \in DOMAIN u.rows : r[m].axis = u.rows[m].axis
  <2>1. DOMAIN u.rows \subseteq Names /\ \A m \in DOMAIN u.rows : u.rows[m] \in Placement
    BY SoundIs
  <2>2. DOMAIN r = DOMAIN u.rows /\ r = [m \in DOMAIN r |-> r[m]]
    OBVIOUS
  <2>3. \A m \in DOMAIN u.rows : r[m] = IF m = n THEN [u.rows[n] EXCEPT !.vis = vis] ELSE u.rows[m]
    OBVIOUS
  <2>4. [u.rows[n] EXCEPT !.vis = vis] \in Placement /\ [u.rows[n] EXCEPT !.vis = vis].axis = u.rows[n].axis
    BY <2>1 DEF Placement
  <2> HIDE DEF r
  <2>5. \A m \in DOMAIN u.rows : r[m] \in Placement /\ r[m].axis = u.rows[m].axis
    BY <2>1, <2>3, <2>4
  <2> QED BY <2>1, <2>2, <2>5, MapIs DEF Places
<1>3. /\ s \in Places /\ DOMAIN s = DOMAIN u.saved \cup {n}
      /\ \A m \in DOMAIN u.saved : s[m].axis = u.saved[m].axis
  <2>1. u.saved \in Places
    BY WidgetIs DEF Sound
  <2>2. Get(u.saved, n, [vis |-> FALSE, axis |-> 1]) \in Placement
    <3>1. [vis |-> FALSE, axis |-> 1] \in Placement
      BY DEF Placement
    <3> QED BY <2>1, <3>1, GetIs DEF Places
  <2>3. e \in Placement /\ e.axis = Get(u.saved, n, [vis |-> FALSE, axis |-> 1]).axis
    BY <2>2 DEF Placement
  <2>4. n \in DOMAIN u.saved => e.axis = u.saved[n].axis
    <3> HIDE DEF e
    <3> QED BY <2>3 DEF Get
  <2> HIDE DEF e
  <2>5. s \in Places
    BY <1>1, <2>1, <2>3, PutTyped DEF Places
  <2>6. DOMAIN s = DOMAIN u.saved \cup {n} /\ s[n] = e /\ \A m \in DOMAIN u.saved : m # n => s[m] = u.saved[m]
    BY DEF Put, Over, Only
  <2> HIDE DEF s
  <2> QED BY <2>4, <2>5, <2>6
<1>4. Toggled(u, n, vis) = v
  BY DEF Toggled
<1> HIDE DEF r, s
<1>5. /\ t \in Widget /\ t.chans = u.chans /\ t.view = u.view /\ t.x = u.x /\ t.combo = u.combo
      /\ t.rows = r /\ t.saved = s /\ t.axes = u.axes /\ t.by = u.by /\ t.on = u.on
  BY <1>2, <1>3 DEF Sound, Widget
<1> HIDE DEF t
<1>6. v \in Widget /\ Same(t, v) /\ v.rows = t.rows /\ DOMAIN v.plotted = activeChannels(v)
  BY <1>5, RedrawIs
<1> HIDE DEF v
<1>7. Listed(v) = Listed(u)
  BY <1>5, <1>6, SameListed DEF Same
<1>8. TableSound(v)
  BY <1>2, <1>5, <1>6, <1>7 DEF TableSound, Sound, Same
<1>9. ComboSound(v)
  BY <1>5, <1>6 DEF ComboSound, Sound, Same
<1> QED BY <1>2, <1>3, <1>4, <1>5, <1>6, <1>8, <1>9 DEF Sound, Same

LEMMA PutAwayIs ==
  ASSUME NEW u, Sound(u), NEW d \in Domains
  PROVE  Sound(snapshotIntoDomain(u, d)) /\ Settled(snapshotIntoDomain(u, d))
<1> DEFINE v == snapshotIntoDomain(u, d)
<1>1. /\ v \in Widget /\ v.saved = Sticky(u) /\ v.axes = u.axes /\ v.rows = u.rows
      /\ (ComboSound(u) => ComboSound(v)) /\ (TableSound(u) => TableSound(v))
  BY SnapshotIs DEF Sound
<1> HIDE DEF v
<1>2. Sound(v)
  BY <1>1 DEF Sound
<1>3. Settled(v)
  <2>1. u.axes \in Seq(Labels) \ {Empty} /\ u.rows \in Places
    BY SoundIs
  <2>2. \A n \in DOMAIN u.rows : u.rows[n].axis \in Nat \ {0} /\ u.rows[n].axis \in DOMAIN u.axes
    BY SoundIs
  <2>3. \A n \in DOMAIN u.rows : Least(u.rows[n].axis, Len(u.axes)) = u.rows[n].axis
    BY <2>1, <2>2, AxesAre
  <2>4. \A n \in DOMAIN u.rows : n \in DOMAIN Sticky(u) /\ Sticky(u)[n] = u.rows[n]
    BY DEF Sticky, Over
  <2> QED BY <1>1, <2>3, <2>4 DEF Settled
<1> QED BY <1>2, <1>3 DEF v

FileOf(f) ==
    LET j == f.json
        flat == IF j.view = "frequency" THEN "frequency" ELSE "time"
    IN  /\ j.axesBy # Empty => /\ j.axes = Get(j.axesBy, flat, Empty)
                               /\ j.chans = Get(j.chansBy, flat, Empty)
        /\ (j.axesBy = Empty /\ j.chansBy # Empty) => j.axes = Empty
        /\ f.chans # Empty =>
              /\ j.chansBy # Empty
              /\ \A d \in DOMAIN j.chansBy : DOMAIN j.chansBy[d] \subseteq ChannelsOf(f.chans, d)
        /\ \A d \in Domains : (f.chans # Empty /\ DOMAIN j.axesBy = {d}) =>
              j.view = d \/ (j.view = "xy" /\ j.x \in ChannelsOf(f.chans, d))

File == [chans : MapsTo(Names, Domains), json : Json]

LEMMA ToJsonIs ==
  ASSUME NEW l \in Layout
  PROVE  LET j == layoutToJson(l)
             flat == IF j.view = "frequency" THEN "frequency" ELSE "time"
         IN  /\ j \in Json /\ j.view = l.view /\ j.x = l.x /\ j.axesBy = l.axesBy /\ j.chansBy = l.chansBy
             /\ j.axes = Get(j.axesBy, flat, Empty) /\ j.chans = Get(j.chansBy, flat, Empty)
             /\ j.axesBy = Empty => j.axes = Empty
<1> DEFINE flat == IF l.view = "frequency" THEN "frequency" ELSE "time"
           a == Get(l.axesBy, flat, Empty)
           c == Get(l.chansBy, flat, Empty)
<1>1. a \in Seq(Labels) /\ c \in Indices
  BY LayoutIs
<1>2. layoutToJson(l) = [view |-> l.view, x |-> l.x, axes |-> a, chans |-> c,
                         axesBy |-> l.axesBy, chansBy |-> l.chansBy]
  BY DEF layoutToJson
<1>3. l.axesBy = Empty => a = Empty
  BY EmptyIs DEF Get
<1> HIDE DEF a, c
<1>4. layoutToJson(l) \in Json
  BY <1>1, <1>2, LayoutIs DEF Json
<1> QED BY <1>2, <1>3, <1>4 DEF a, c

LEMMA FromJsonIs ==
  ASSUME NEW j \in Json
  PROVE  /\ layoutFromJson(j) \in Layout
         /\ layoutFromJson(j).view = j.view /\ layoutFromJson(j).x = j.x
<1> DEFINE a == IF j.axesBy = Empty /\ j.axes # Empty THEN Only("time", j.axes) ELSE j.axesBy
           c == IF j.chansBy = Empty /\ j.chans # Empty THEN Only("time", j.chans) ELSE j.chansBy
<1>1. /\ j.view \in Views /\ j.x \in Names \cup {NoName} /\ j.axes \in Seq(Labels) /\ j.chans \in Indices
      /\ j.axesBy \in MapsTo(Domains, Seq(Labels)) /\ j.chansBy \in MapsTo(Domains, Indices)
  BY DEF Json
<1>2. Only("time", j.axes) \in MapsTo(Domains, Seq(Labels))
  BY <1>1, MapIs DEF Only, Domains
<1>3. Only("time", j.chans) \in MapsTo(Domains, Indices)
  BY <1>1, MapIs DEF Only, Domains
<1>4. a \in MapsTo(Domains, Seq(Labels)) /\ c \in MapsTo(Domains, Indices)
  BY <1>1, <1>2, <1>3
<1>5. layoutFromJson(j) = [view |-> j.view, x |-> j.x, axesBy |-> a, chansBy |-> c]
  BY DEF layoutFromJson
<1> HIDE DEF a, c
<1> QED BY <1>1, <1>4, <1>5 DEF Layout

LEMMA VersionOneIs ==
  ASSUME NEW l \in Layout
  PROVE  [chans |-> Empty, json |-> VersionOne(layoutToJson(l))] \in File
         /\ FileOf([chans |-> Empty, json |-> VersionOne(layoutToJson(l))])
<1> DEFINE j == layoutToJson(l)
           k == VersionOne(j)
<1>1. j \in Json
  BY ToJsonIs
<1> HIDE DEF j
<1>2. k \in Json /\ k.axesBy = Empty /\ k.chansBy = Empty
  BY <1>1, EmptyIs DEF VersionOne, Json
<1> HIDE DEF k
<1>3. [chans |-> Empty, json |-> k] \in File
  BY <1>2, EmptyIs DEF File
<1>4. FileOf([chans |-> Empty, json |-> k])
  BY <1>2 DEF FileOf
<1> QED BY <1>3, <1>4 DEF k, j

LEMMA LayoutFileIs ==
  ASSUME NEW l \in Layout, l.axesBy # Empty
  PROVE  [chans |-> Empty, json |-> layoutToJson(l)] \in File
         /\ FileOf([chans |-> Empty, json |-> layoutToJson(l)])
<1> DEFINE j == layoutToJson(l)
<1>1. /\ j \in Json /\ j.axesBy = l.axesBy
      /\ j.axes = Get(j.axesBy, IF j.view = "frequency" THEN "frequency" ELSE "time", Empty)
      /\ j.chans = Get(j.chansBy, IF j.view = "frequency" THEN "frequency" ELSE "time", Empty)
  BY ToJsonIs
<1> HIDE DEF j
<1>2. [chans |-> Empty, json |-> j] \in File
  BY <1>1, EmptyIs DEF File
<1>3. FileOf([chans |-> Empty, json |-> j])
  BY <1>1 DEF FileOf
<1> QED BY <1>2, <1>3 DEF j

\* A chart with any layout that places no channels but the chart's, and shows
\* its domain when it has one.
LEMMA ChartFileIs ==
  ASSUME NEW c \in MapsTo(Names, Domains), NEW l \in Layout, l.chansBy # Empty,
         \A d \in DOMAIN l.chansBy : DOMAIN l.chansBy[d] \subseteq ChannelsOf(c, d),
         \A d \in Domains : DOMAIN l.axesBy = {d} =>
             l.view = d \/ (l.view = "xy" /\ l.x \in ChannelsOf(c, d))
  PROVE  [chans |-> c, json |-> layoutToJson(l)] \in File
         /\ FileOf([chans |-> c, json |-> layoutToJson(l)])
<1> DEFINE j == layoutToJson(l)
<1>1. /\ j \in Json /\ j.axesBy = l.axesBy /\ j.chansBy = l.chansBy /\ j.view = l.view /\ j.x = l.x
      /\ j.axes = Get(j.axesBy, IF j.view = "frequency" THEN "frequency" ELSE "time", Empty)
      /\ j.chans = Get(j.chansBy, IF j.view = "frequency" THEN "frequency" ELSE "time", Empty)
      /\ j.axesBy = Empty => j.axes = Empty
  BY ToJsonIs
<1> HIDE DEF j
<1>2. [chans |-> c, json |-> j] \in File
  BY <1>1 DEF File
<1>3. FileOf([chans |-> c, json |-> j])
  BY <1>1 DEF FileOf
<1> QED BY <1>2, <1>3 DEF j

LEMMA ChartIs ==
  ASSUME NEW s, Whole(s)
  PROVE  /\ [chans |-> s.chans, json |-> layoutToJson(s.layout)] \in File
         /\ FileOf([chans |-> s.chans, json |-> layoutToJson(s.layout)])
<1>1. s.chans \in MapsTo(Names, Domains) /\ s.layout \in Layout
  BY DEF Whole, Document
<1>2. s.layout.chansBy # Empty
  BY EmptyIs DEF Whole, Domains
<1>3. \A d \in DOMAIN s.layout.chansBy : DOMAIN s.layout.chansBy[d] \subseteq ChannelsOf(s.chans, d)
  BY DEF Whole
<1>4. \A d \in Domains : DOMAIN s.layout.axesBy # {d}
  BY DEF Whole, Domains
<1> QED BY <1>1, <1>2, <1>3, <1>4, ChartFileIs

LEMMA BareChartIs ==
  ASSUME NEW s, Whole(s)
  PROVE  /\ [chans |-> s.chans, json |-> layoutToJson(stripLayout(s.layout))] \in File
         /\ FileOf([chans |-> s.chans, json |-> layoutToJson(stripLayout(s.layout))])
<1> DEFINE l == stripLayout(s.layout)
           c == [d \in DOMAIN s.layout.chansBy |-> [n \in DOMAIN s.layout.chansBy[d] |-> 1]]
<1>1. s.chans \in MapsTo(Names, Domains) /\ s.layout \in Layout /\ s.layout.chansBy \in MapsTo(Domains, Indices)
  BY LayoutIs DEF Whole, Document
<1>2. l = [view |-> "time", x |-> NoName, axesBy |-> Empty, chansBy |-> c]
  BY DEF stripLayout
<1>3. ASSUME NEW d \in DOMAIN s.layout.chansBy
      PROVE  [n \in DOMAIN s.layout.chansBy[d] |-> 1] \in Indices
  <2>1. s.layout.chansBy[d] \in Indices
    BY <1>1, MapIs
  <2>2. DOMAIN s.layout.chansBy[d] \subseteq Names
    BY <2>1, MapIs DEF Indices
  <2> QED BY <2>2, MapIs DEF Indices
<1>4. c \in MapsTo(Domains, Indices) /\ DOMAIN c = Domains
      /\ \A d \in Domains : DOMAIN c[d] = DOMAIN s.layout.chansBy[d]
  BY <1>1, <1>3, MapIs DEF Whole
<1> HIDE DEF l, c
<1>5. l \in Layout
  BY <1>2, <1>4, EmptyIs DEF Layout, Views
<1>6. l.chansBy # Empty
  BY <1>2, <1>4, EmptyIs DEF Domains
<1>7. \A d \in DOMAIN l.chansBy : DOMAIN l.chansBy[d] \subseteq ChannelsOf(s.chans, d)
  BY <1>2, <1>4 DEF Whole
<1>8. \A d \in Domains : DOMAIN l.axesBy # {d}
  BY <1>2, EmptyIs
<1>9. [chans |-> s.chans, json |-> layoutToJson(l)] \in File /\ FileOf([chans |-> s.chans, json |-> layoutToJson(l)])
  BY <1>1, <1>5, <1>6, <1>7, <1>8, ChartFileIs
<1> QED BY <1>9 DEF l

LEMMA SplitChartIs ==
  ASSUME NEW s, Whole(s), NEW d \in Domains
  PROVE  LET c == [n \in ChannelsOf(s.chans, d) |-> d]
         IN  /\ [chans |-> c, json |-> layoutToJson(restrictedToDomain(s.layout, d))] \in File
             /\ FileOf([chans |-> c, json |-> layoutToJson(restrictedToDomain(s.layout, d))])
<1> DEFINE c == [n \in ChannelsOf(s.chans, d) |-> d]
           l == restrictedToDomain(s.layout, d)
           a == Get(s.layout.axesBy, d, Empty)
           p == Get(s.layout.chansBy, d, Empty)
           keepXy == s.layout.view = "xy" /\ s.layout.x \in DOMAIN p
<1>1. s.chans \in MapsTo(Names, Domains) /\ s.layout \in Layout
  BY DEF Whole, Document
<1>2. a \in Seq(Labels) /\ p \in Indices /\ DOMAIN p = ChannelsOf(s.chans, d)
  <2>1. a \in Seq(Labels) /\ p \in Indices
    BY <1>1, LayoutIs
  <2> QED BY <2>1 DEF Whole, Get
<1>3. c \in MapsTo(Names, Domains) /\ ChannelsOf(c, d) = ChannelsOf(s.chans, d)
  <2>1. ChannelsOf(s.chans, d) \subseteq Names
    BY <1>1, MapIs DEF ChannelsOf
  <2>2. c \in MapsTo(Names, Domains)
    BY <2>1, MapIs
  <2> QED BY <2>2 DEF ChannelsOf
<1>4. l = [view |-> IF keepXy THEN "xy" ELSE d, x |-> IF keepXy THEN s.layout.x ELSE NoName,
           axesBy |-> Only(d, a), chansBy |-> Only(d, p)]
  BY DEF restrictedToDomain
<1> HIDE DEF a, p, c, l
<1>5. Only(d, a) \in MapsTo(Domains, Seq(Labels)) /\ Only(d, p) \in MapsTo(Domains, Indices)
  BY <1>2, MapIs DEF Only
<1>6. l \in Layout
  <2>1. (IF keepXy THEN "xy" ELSE d) \in Views
    BY DEF Views, Domains
  <2>2. (IF keepXy THEN s.layout.x ELSE NoName) \in Names \cup {NoName}
    BY <1>1, LayoutIs
  <2> HIDE DEF keepXy
  <2> QED BY <1>4, <1>5, <2>1, <2>2 DEF Layout
<1>7. /\ DOMAIN l.chansBy = {d} /\ l.chansBy[d] = p /\ DOMAIN l.axesBy = {d}
  BY <1>4 DEF Only
<1>8. l.chansBy # Empty
  BY <1>7, EmptyIs
<1>9. \A e \in DOMAIN l.chansBy : DOMAIN l.chansBy[e] \subseteq ChannelsOf(c, e)
  BY <1>2, <1>3, <1>7
<1>10. \A e \in Domains : DOMAIN l.axesBy = {e} => l.view = e \/ (l.view = "xy" /\ l.x \in ChannelsOf(c, e))
  BY <1>2, <1>3, <1>4, <1>7
<1>11. [chans |-> c, json |-> layoutToJson(l)] \in File /\ FileOf([chans |-> c, json |-> layoutToJson(l)])
  BY <1>3, <1>6, <1>8, <1>9, <1>10, ChartFileIs
<1> QED BY <1>11 DEF c, l

\* The names a layout uses become those the channels got in the store.
LEMMA RemappedIs ==
  ASSUME NEW l \in Layout, NEW D, D \subseteq Names, NEW r \in [D -> Names],
         \A n, m \in D : r[n] = r[m] => n = m,
         \A d \in DOMAIN l.chansBy : DOMAIN l.chansBy[d] \subseteq D
  PROVE  LET v == remapLayoutChannelNames(l, r)
         IN  /\ v \in Layout /\ v.view = l.view /\ v.axesBy = l.axesBy /\ v.x = Get(r, l.x, l.x)
             /\ DOMAIN v.chansBy = DOMAIN l.chansBy
             /\ \A d \in DOMAIN l.chansBy :
                  /\ DOMAIN v.chansBy[d] = {r[n] : n \in DOMAIN l.chansBy[d]}
                  /\ \A n \in DOMAIN l.chansBy[d] : v.chansBy[d][r[n]] = l.chansBy[d][n]
<1> DEFINE New(n) == Get(r, n, n)
           Moved(f) == [m \in {New(n) : n \in DOMAIN f} |-> f[CHOOSE n \in DOMAIN f : New(n) = m]]
           c == [d \in DOMAIN l.chansBy |-> Moved(l.chansBy[d])]
<1>1. l.x \in Names \cup {NoName} /\ l.chansBy \in MapsTo(Domains, Indices)
  BY LayoutIs
<1>2. remapLayoutChannelNames(l, r) = [l EXCEPT !.x = New(l.x), !.chansBy = c]
  BY DEF remapLayoutChannelNames
<1>3. New(l.x) \in Names \cup {NoName}
  BY <1>1 DEF Get
<1>4. \A n \in D : New(n) = r[n] /\ New(n) \in Names
  BY DEF Get
<1>5. ASSUME NEW d \in DOMAIN l.chansBy
      PROVE  /\ c[d] \in Indices /\ DOMAIN c[d] = {r[n] : n \in DOMAIN l.chansBy[d]}
             /\ \A n \in DOMAIN l.chansBy[d] : c[d][r[n]] = l.chansBy[d][n]
  <2> DEFINE f == l.chansBy[d]
             g == Moved(f)
  <2>1. DOMAIN f \subseteq D
    OBVIOUS
  <2>2. f \in Indices
    BY <1>1, MapIs
  <2>3. c[d] = g
    OBVIOUS
  <2> HIDE DEF f, c
  <2>4. DOMAIN g = {r[n] : n \in DOMAIN f}
    BY <1>4, <2>1
  <2>5. ASSUME NEW n \in DOMAIN f PROVE g[r[n]] = f[n]
    <3>1. New(n) = r[n] /\ r[n] \in DOMAIN g
      BY <1>4, <2>1, <2>4
    <3> DEFINE k == CHOOSE j \in DOMAIN f : New(j) = r[n]
    <3>2. g[r[n]] = f[k]
      BY <2>4, <3>1
    <3>3. k \in DOMAIN f /\ New(k) = r[n]
      BY <3>1
    <3> HIDE DEF k
    <3>4. k = n
      BY <1>4, <2>1, <3>3
    <3> QED BY <3>2, <3>4
  <2>6. DOMAIN g \subseteq Names
    BY <2>1, <2>4
  <2>7. g = [m \in DOMAIN g |-> g[m]]
    OBVIOUS
  <2> HIDE DEF g
  <2>8. \A m \in DOMAIN g : g[m] \in Nat \ {0}
    BY <2>2, <2>4, <2>5, MapIs DEF Indices
  <2>9. g \in Indices
    BY <2>6, <2>7, <2>8, MapIs DEF Indices
  <2> QED BY <2>3, <2>4, <2>5, <2>9 DEF f
<1>6. DOMAIN c = DOMAIN l.chansBy /\ c = [d \in DOMAIN c |-> c[d]]
  OBVIOUS
<1> HIDE DEF c, New
<1>7. c \in MapsTo(Domains, Indices)
  BY <1>1, <1>5, <1>6, MapIs
<1>8. [l EXCEPT !.x = New(l.x), !.chansBy = c] \in Layout
  BY <1>3, <1>7 DEF Layout
<1>9. LET v == [l EXCEPT !.x = New(l.x), !.chansBy = c]
      IN  v.view = l.view /\ v.axesBy = l.axesBy /\ v.x = New(l.x) /\ v.chansBy = c
  BY DEF Layout
<1> QED BY <1>2, <1>5, <1>6, <1>8, <1>9 DEF New

LEMMA MergingIs ==
  ASSUME NEW u, Sound(u), NEW l \in Layout
  PROVE  LET v == ApplyMerging(u, l)
             s == snapshotIntoDomain(u, activeDomain(u))
         IN  /\ Sound(v) /\ RowsFollow(v) /\ v.chans = u.chans /\ v.view = l.view
             /\ l.view # "xy" => v.x = l.x
             /\ l.view = "xy" => v.x = LET prev == IF u.combo = NoName THEN l.x ELSE u.combo
                                       IN  IF prev \in DOMAIN u.chans THEN prev ELSE NoName
             /\ v.on = activeDomain(v) /\ v.saved = v.by[v.on].rows
             /\ v.by[v.on].axes # Empty => v.axes = v.by[v.on].axes
             /\ v.by = [d \in Domains |-> MergeDomain(s.by[d], Get(l.axesBy, d, Empty), Get(l.chansBy, d, Empty))]
<1> DEFINE s == snapshotIntoDomain(u, activeDomain(u))
           b == [d \in Domains |-> MergeDomain(s.by[d], Get(l.axesBy, d, Empty), Get(l.chansBy, d, Empty))]
           h == Hydrated(s, l, MergeDomain)
           v == Applied(h, l)
<1>1. ApplyMerging(u, l) = v
  BY DEF ApplyMerging
<1>2. s \in Widget /\ ComboSound(s) /\ s.chans = u.chans /\ s.combo = u.combo
  BY DomainIs, SnapshotIs DEF Sound
<1> HIDE DEF s
<1>3. Placing(s, h, b)
  BY <1>2, HydratedIs
<1> HIDE DEF b, h
<1>4. h \in Widget /\ ComboSound(h) /\ h.chans = u.chans /\ h.combo = u.combo
  BY <1>2, <1>3 DEF Placing, ComboSound
<1>5. Shows(h, v, l)
  BY <1>4, AppliedIs
<1> HIDE DEF v
<1>6. v.by = b /\ v.chans = u.chans
  BY <1>3, <1>4, <1>5 DEF Placing, Shows
<1>7. l.view = "xy" => v.x = LET prev == IF u.combo = NoName THEN l.x ELSE u.combo
                             IN  IF prev \in DOMAIN u.chans THEN prev ELSE NoName
  BY <1>4, <1>5 DEF Shows
<1>8. v.on \in Domains /\ h.by = b
  BY <1>3, <1>5 DEF Shows, Sound, Widget, Placing
<1> QED BY <1>1, <1>5, <1>6, <1>7, <1>8 DEF Shows, b, s

-----------------------------------------------------------------------------
(* The invariant                                                            *)

\* The invariant, of a widget, a snapshot and a file.
Holds(u, q, o, s, f) == /\ Sound(u) /\ q \in BOOLEAN /\ o \in 0 .. MaxOps /\ Whole(s)
                        /\ f \in File /\ FileOf(f) /\ (~q => Settled(u))

LEMMA HoldsIs == IInv <=> Holds(w, due, ops, snap, disk)
<1>1. FileWhole <=> FileOf(disk)
  BY DEF FileWhole, FileOf
<1>2. Whole(snap) <=> /\ snap \in [layout : Layout, chans : MapsTo(Names, Domains)]
                      /\ SnapshotWhole
  BY DEF Whole, Document, SnapshotWhole
<1> QED BY <1>1, <1>2 DEF IInv, TypeOK, ViewsInv, Holds, Sound, File

LEMMA HoldsNext == IInv' <=> Holds(w', due', ops', snap', disk')
<1>1. FileWhole' <=> FileOf(disk')
  BY DEF FileWhole, FileOf
<1>2. Whole(snap') <=> /\ snap' \in [layout : Layout, chans : MapsTo(Names, Domains)]
                       /\ SnapshotWhole'
  BY DEF Whole, Document, SnapshotWhole
<1> QED BY <1>1, <1>2 DEF IInv, TypeOK, ViewsInv, Holds, Sound, File

LEMMA BlankIs == Blank \in Widget
<1>1. NoRows \in DomainState
  BY EmptyIs DEF NoRows, DomainState, Places
<1>2. <<Y1>> \in Seq(Labels) \ {Empty}
  <2>1. Y1 \in Labels
    BY LabelAssumption
  <2>2. <<Y1>> \in Seq(Labels) /\ Len(<<Y1>>) = 1
    BY <2>1
  <2> QED BY <2>2, EmptyIs
<1>3. "time" \in Views /\ "time" \in Domains
  BY DEF Views, Domains
<1>4. [d \in Domains |-> NoRows] \in [Domains -> DomainState]
  BY <1>1
<1>5. /\ Empty \in MapsTo(Names, Domains) /\ Empty \in Places /\ Empty \in Indices
      /\ Empty \in MapsTo(Names, Nat)
  BY EmptyIs DEF Places, Indices
<1> DEFINE b == [d \in Domains |-> NoRows]
           y == <<Y1>>
           e == Empty
<1>6. Blank = [chans |-> e, view |-> "time", x |-> NoName, combo |-> NoName, axes |-> y,
          saved |-> e, by |-> b, pending |-> e,
          rows |-> e, plotted |-> e, on |-> "time"]
  BY DEF Blank
<1>7. b \in [Domains -> DomainState] /\ y \in Seq(Labels) \ {Empty}
      /\ e \in MapsTo(Names, Domains) /\ e \in Places /\ e \in Indices /\ e \in MapsTo(Names, Nat)
  BY <1>2, <1>4, <1>5
<1> HIDE DEF b, y, e
<1> QED BY <1>3, <1>6, <1>7 DEF Widget, DomainState

LEMMA NoFileIs == NoFile \in File /\ FileOf(NoFile)
<1> DEFINE l == LayoutOf(Blank)
<1>1. l \in Layout /\ DOMAIN l.axesBy = Domains
  BY BlankIs, LayoutOfIs
<1> HIDE DEF l
<1>2. l.axesBy # Empty
  BY <1>1, EmptyIs DEF Domains
<1>3. /\ [chans |-> Empty, json |-> layoutToJson(l)] \in File
      /\ FileOf([chans |-> Empty, json |-> layoutToJson(l)])
  BY <1>1, <1>2, LayoutFileIs
<1>4. NoFile = [chans |-> Empty, json |-> layoutToJson(l)]
  BY DEF NoFile, l
<1> QED BY <1>3, <1>4

LEMMA InitHolds == Init => IInv
<1> SUFFICES ASSUME Init PROVE Holds(w, due, ops, snap, disk)
  BY HoldsIs
<1>1. PICK chans \in Stores :
         LET u == Refreshed(rebuildXyXCombo([Blank EXCEPT !.chans = chans]))
         IN  w = snapshotIntoDomain(u, "time") /\ snap = captureState(u)
  BY DEF Init
<1> DEFINE t == [Blank EXCEPT !.chans = chans]
           c == rebuildXyXCombo(t)
           u == Refreshed(c)
<1>2. t \in Widget
  <2>1. chans \in MapsTo(Names, Domains)
    BY StoresAssumption
  <2> QED BY <2>1, BlankIs DEF Widget
<1> HIDE DEF t
<1>3. c \in Widget /\ ComboSound(c)
  BY <1>2, XyComboIs
<1> HIDE DEF c
<1>4. Sound(u)
  BY <1>3, RefreshedIs DEF Sound
<1>5. w = snapshotIntoDomain(u, "time") /\ snap = captureState(u)
  BY <1>1 DEF t, c
<1> HIDE DEF u
<1>6. Sound(w) /\ Settled(w)
  BY <1>4, <1>5, PutAwayIs DEF Domains
<1>7. Whole(snap)
  BY <1>4, <1>5, CapturedIs DEF Sound
<1>8. due = FALSE /\ ops = 0 /\ disk = NoFile
  BY DEF Init
<1>9. 0 \in 0 .. MaxOps
  BY BoundAssumption
<1> QED BY <1>6, <1>7, <1>8, <1>9, NoFileIs DEF Holds

\* An edit keeps the invariant when the widget it leaves is sound.
LEMMA EditHolds ==
  ASSUME IInv, NEW u, Sound(u), Edit(u)
  PROVE  IInv'
<1>1. Holds(w, due, ops, snap, disk)
  BY HoldsIs
<1>2. ops < MaxOps /\ ops' = ops + 1 /\ w' = u /\ due' = TRUE /\ snap' = snap /\ disk' = disk
  BY DEF Edit
<1>3. ops' \in 0 .. MaxOps
  BY <1>1, <1>2, BoundAssumption DEF Holds
<1>4. due' \in BOOLEAN /\ due'
  BY <1>2
<1>5. Sound(w')
  BY <1>2
<1>6. Holds(w', due', ops', snap', disk')
  BY <1>1, <1>2, <1>3, <1>4, <1>5 DEF Holds
<1> QED BY <1>6, HoldsNext

LEMMA AddRemoveHolds ==
  ASSUME IInv, NEW n \in Names
  PROVE  /\ \A d \in Domains : AddChannel(n, d) => IInv'
         /\ RemoveChannel(n) => IInv'
         /\ \A m \in Names : RenameChannel(n, m) => IInv'
<1>1. Sound(w)
  BY HoldsIs DEF Holds
<1>2. ASSUME NEW d \in Domains, AddChannel(n, d) PROVE IInv'
  <2>1. Sound(StoreAdd(w, n, d))
    BY <1>1, StoreAddIs DEF Sound
  <2>2. Edit(StoreAdd(w, n, d))
    BY <1>2 DEF AddChannel
  <2> QED BY <2>1, <2>2, EditHolds
<1>3. ASSUME RemoveChannel(n) PROVE IInv'
  <2>1. Sound(StoreRemove(w, n))
    BY <1>1, StoreRemoveIs DEF Sound
  <2>2. Edit(StoreRemove(w, n))
    BY <1>3 DEF RemoveChannel
  <2> QED BY <2>1, <2>2, EditHolds
<1>4. ASSUME NEW m \in Names, RenameChannel(n, m) PROVE IInv'
  <2> DEFINE t == remapLocalChannelNames(RekeyStore(w, n, m), n, m)
             c == rebuildXyXCombo(t)
             u == Refreshed(c)
  <2>1. n \in DOMAIN w.chans /\ Edit(u)
    BY <1>4 DEF RenameChannel
  <2>2. t \in Widget
    BY <1>1, <2>1, RenamedIs DEF Sound
  <2> HIDE DEF t
  <2>3. c \in Widget /\ ComboSound(c)
    BY <2>2, XyComboIs
  <2> HIDE DEF c
  <2>4. Sound(u)
    BY <2>3, RefreshedIs DEF Sound
  <2> HIDE DEF u
  <2> QED BY <2>1, <2>4, EditHolds
<1> QED BY <1>2, <1>3, <1>4

LEMMA ViewHolds ==
  ASSUME IInv
  PROVE  /\ \A v \in Views : SetView(v) => IInv'
         /\ \A n \in Names \cup {NoName} : PickX(n) => IInv'
<1>1. Sound(w)
  BY HoldsIs DEF Holds
<1>2. activeDomain(w) \in Domains
  BY <1>1, DomainIs DEF Sound
<1>3. ASSUME NEW v \in Views, SetView(v) PROVE IInv'
  <2> DEFINE u == [w EXCEPT !.view = v]
             c == IF v = "xy" THEN rebuildXyXCombo(u) ELSE u
  <2>1. Edit(SwapDomain(activeDomain(w), c))
    BY <1>3 DEF SetView
  <2>2. u \in Widget /\ u.view = v /\ u.combo = w.combo /\ u.chans = w.chans
    BY <1>1 DEF Sound, Widget
  <2> HIDE DEF u
  <2>3. c \in Widget /\ ComboSound(c)
    <3>1. CASE v = "xy"
      BY <2>2, <3>1, XyComboIs
    <3>2. CASE v # "xy"
      <4>1. c = u
        BY <3>2
      <4> QED BY <1>1, <2>2, <3>2, <4>1 DEF ComboSound, Sound
    <3> QED BY <3>1, <3>2
  <2> HIDE DEF c
  <2>4. Sound(SwapDomain(activeDomain(w), c))
    BY <1>2, <2>3, SwapIs
  <2> QED BY <2>1, <2>4, EditHolds
<1>4. ASSUME NEW n \in Names \cup {NoName}, PickX(n) PROVE IInv'
  <2> DEFINE u == [w EXCEPT !.x = n, !.combo = n]
  <2>1. Edit(SwapDomain(activeDomain(w), u)) /\ n \in DOMAIN w.chans \cup {NoName}
    BY <1>4 DEF PickX
  <2>2. u \in Widget /\ u.combo = n /\ u.x = n /\ u.chans = w.chans
    BY <1>1 DEF Sound, Widget
  <2> HIDE DEF u
  <2>3. ComboSound(u)
    BY <2>1, <2>2 DEF ComboSound
  <2>4. Sound(SwapDomain(activeDomain(w), u))
    BY <1>2, <2>2, <2>3, SwapIs
  <2> QED BY <2>1, <2>4, EditHolds
<1> QED BY <1>3, <1>4

LEMMA AxesHold ==
  ASSUME IInv
  PROVE  /\ \A label \in Labels : AddAxis(label) => IInv'
         /\ \A i \in DOMAIN w.axes : \A label \in Labels : RenameAxis(i, label) => IInv'
         /\ \A i \in DOMAIN w.axes : RemoveAxis(i) => IInv'
         /\ \A n, i : onAxisComboChanged(n, i) => IInv'
<1>1. Sound(w)
  BY HoldsIs DEF Holds
<1>2. ASSUME NEW label \in Labels, AddAxis(label) PROVE IInv'
  <2> DEFINE u == rebuildAxisCombos([w EXCEPT !.axes = Append(@, label)])
  <2>1. Edit(u)
    BY <1>2 DEF AddAxis
  <2>2. Sound(u)
    BY <1>1, AddAxisIs
  <2> HIDE DEF u
  <2> QED BY <2>1, <2>2, EditHolds
<1>3. ASSUME NEW i \in DOMAIN w.axes, NEW label \in Labels, RenameAxis(i, label) PROVE IInv'
  <2> DEFINE u == [w EXCEPT !.axes[i] = label]
  <2>1. Edit(u)
    BY <1>3 DEF RenameAxis
  <2>2. Sound(u)
    BY <1>1, RenameAxisIs
  <2> HIDE DEF u
  <2> QED BY <2>1, <2>2, EditHolds
<1>4. ASSUME NEW i \in DOMAIN w.axes, RemoveAxis(i) PROVE IInv'
  <2> DEFINE u == rebuildAxisCombos(
               [w EXCEPT !.axes = RemoveAt(@, i),
                         !.plotted = [n \in DOMAIN @ |-> IF @[n] = i THEN 0
                                                         ELSE IF @[n] > i THEN @[n] - 1 ELSE @[n]]])
  <2>1. Edit(u) /\ i # 1
    BY <1>4 DEF RemoveAxis
  <2>2. Sound(u)
    BY <1>1, <2>1, RemoveAxisIs
  <2> HIDE DEF u
  <2> QED BY <2>1, <2>2, EditHolds
<1>5. ASSUME NEW n, NEW i, onAxisComboChanged(n, i) PROVE IInv'
  <2> DEFINE u == [w EXCEPT !.rows[n].axis = i,
                      !.saved = Put(@, n, [Get(@, n, [vis |-> FALSE, axis |-> 1]) EXCEPT !.axis = i]),
                      !.plotted = [c \in DOMAIN @ |-> IF c = n THEN i ELSE @[c]]]
  <2>1. Edit(u) /\ n \in DOMAIN w.rows /\ i \in DOMAIN w.axes
    BY <1>5 DEF onAxisComboChanged
  <2>2. Sound(u)
    BY <1>1, <2>1, AxisPickedIs
  <2> HIDE DEF u
  <2> QED BY <2>1, <2>2, EditHolds
<1> QED BY <1>2, <1>3, <1>4, <1>5

\* What hiding or showing a channel does.
LEMMA VisibilityIs ==
  ASSUME NEW n, onVisibilityChanged(n)
  PROVE  /\ w' = Toggled(w, n, ~w.rows[n].vis) /\ n \in DOMAIN w.rows
         /\ ops < MaxOps /\ ops' = ops + 1 /\ due' = due /\ snap' = snap /\ disk' = disk
<1> QED BY DEF onVisibilityChanged, Toggled

LEMMA VisibilityHolds ==
  ASSUME IInv, NEW n, onVisibilityChanged(n)
  PROVE  IInv'
<1>1. Holds(w, due, ops, snap, disk)
  BY HoldsIs
<1> DEFINE vis == ~w.rows[n].vis
<1>2. /\ w' = Toggled(w, n, vis) /\ n \in DOMAIN w.rows
      /\ ops < MaxOps /\ ops' = ops + 1 /\ due' = due /\ snap' = snap /\ disk' = disk
  BY VisibilityIs
<1>3. vis \in BOOLEAN
  OBVIOUS
<1> HIDE DEF vis
<1>4. Sound(w)
  BY <1>1 DEF Holds
<1>5. /\ Sound(w') /\ w'.axes = w.axes /\ DOMAIN w'.rows = DOMAIN w.rows
      /\ \A m \in DOMAIN w.rows : w'.rows[m].axis = w.rows[m].axis
      /\ DOMAIN w'.saved = DOMAIN w.saved \cup {n}
      /\ \A m \in DOMAIN w.saved : w'.saved[m].axis = w.saved[m].axis
  BY <1>2, <1>3, <1>4, ToggledIs
<1>6. Settled(w) => Settled(w')
  BY <1>5 DEF Settled
<1>7. ops' \in 0 .. MaxOps
  BY <1>1, <1>2, BoundAssumption DEF Holds
<1>8. Whole(snap') /\ disk' \in File /\ FileOf(disk') /\ due' \in BOOLEAN /\ (~due' => Settled(w'))
  BY <1>1, <1>2, <1>6 DEF Holds
<1>9. Holds(w', due', ops', snap', disk')
  BY <1>5, <1>7, <1>8 DEF Holds
<1> QED BY <1>9, HoldsNext

LEMMA CommitHolds ==
  ASSUME IInv, Commit
  PROVE  IInv'
<1>1. Holds(w, due, ops, snap, disk)
  BY HoldsIs
<1>2. /\ due' = FALSE /\ w' = snapshotIntoDomain(w, activeDomain(w))
      /\ snap' \in {snap, captureState(w)} /\ disk' = disk /\ ops' = ops
  BY DEF Commit
<1>3. Sound(w') /\ Settled(w')
  BY <1>1, <1>2, DomainIs, PutAwayIs DEF Holds, Sound
<1>4. Whole(captureState(w))
  BY <1>1, CapturedIs DEF Holds, Sound
<1>5. Whole(snap')
  <2>1. CASE snap' = snap
    BY <1>1, <2>1 DEF Holds
  <2>2. CASE snap' = captureState(w)
    BY <1>4, <2>2
  <2> QED BY <1>2, <2>1, <2>2
<1>6. due' \in BOOLEAN /\ ops' \in 0 .. MaxOps /\ disk' \in File /\ FileOf(disk')
  BY <1>1, <1>2 DEF Holds
<1>7. Holds(w', due', ops', snap', disk')
  BY <1>3, <1>5, <1>6 DEF Holds
<1> QED BY <1>7, HoldsNext

LEMMA UndoHolds ==
  ASSUME IInv, Undo
  PROVE  IInv'
<1>1. Holds(w, due, ops, snap, disk)
  BY HoldsIs
<1>2. /\ ops < MaxOps /\ ops' = ops + 1 /\ w' = restoreState(w, snap)
      /\ due' = due /\ snap' = snap /\ disk' = disk
  BY DEF Undo
<1>3. /\ Sound(w') /\ RowsFollow(w') /\ w'.chans = snap.chans
      /\ w'.on = activeDomain(w') /\ w'.saved = w'.by[w'.on].rows
      /\ \A d \in Domains : DOMAIN w'.by[d].rows = DOMAIN snap.layout.chansBy[d]
  BY <1>1, <1>2, RestoredIs DEF Holds
<1>4. Settled(w')
  <2>1. ASSUME NEW n \in DOMAIN w'.rows PROVE n \in DOMAIN w'.saved
    <3>1. n \in ChannelsOf(snap.chans, w'.on) /\ w'.on \in Domains
      BY <1>3, SoundIs, WidgetIs DEF ChannelsOf
    <3>2. DOMAIN snap.layout.chansBy[w'.on] = ChannelsOf(snap.chans, w'.on)
      BY <1>1, <3>1 DEF Holds, Whole
    <3> QED BY <1>3, <3>1, <3>2
  <2> QED BY <1>3, <2>1 DEF Settled, RowsFollow
<1>5. ops' \in 0 .. MaxOps
  BY <1>1, <1>2, BoundAssumption DEF Holds
<1>6. Whole(snap') /\ disk' \in File /\ FileOf(disk') /\ due' \in BOOLEAN
  BY <1>1, <1>2 DEF Holds
<1>7. Holds(w', due', ops', snap', disk')
  BY <1>3, <1>4, <1>5, <1>6 DEF Holds
<1> QED BY <1>7, HoldsNext

\* Writing a file puts the active domain away.
LEMMA WriteHolds ==
  ASSUME IInv, NEW c, NEW l, Write(c, l),
         [chans |-> c, json |-> l] \in File, FileOf([chans |-> c, json |-> l])
  PROVE  IInv'
<1>1. Holds(w, due, ops, snap, disk)
  BY HoldsIs
<1>2. /\ ops < MaxOps /\ ops' = ops + 1 /\ w' = snapshotIntoDomain(w, activeDomain(w))
      /\ due' = due /\ snap' = snap /\ disk' = [chans |-> c, json |-> l]
  BY DEF Write
<1>3. Sound(w') /\ Settled(w')
  BY <1>1, <1>2, DomainIs, PutAwayIs DEF Holds, Sound
<1>4. ops' \in 0 .. MaxOps
  BY <1>1, <1>2, BoundAssumption DEF Holds
<1>5. Whole(snap') /\ disk' \in File /\ FileOf(disk') /\ due' \in BOOLEAN
  BY <1>1, <1>2 DEF Holds
<1>6. Holds(w', due', ops', snap', disk')
  BY <1>3, <1>4, <1>5 DEF Holds
<1> QED BY <1>6, HoldsNext

LEMMA SaveHolds ==
  ASSUME IInv
  PROVE  (SaveLayout => IInv') /\ (SaveChart => IInv')
<1> DEFINE s == captureState(w)
           l == s.layout
<1>1. Whole(s) /\ s.chans = w.chans
  BY HoldsIs, CapturedIs DEF Holds, Sound
<1>2. ASSUME SaveLayout PROVE IInv'
  <2>1. \/ Write(Empty, layoutToJson(l)) \/ Write(Empty, VersionOne(layoutToJson(l)))
    BY <1>2 DEF SaveLayout
  <2> HIDE DEF s
  <2>2. l \in Layout /\ l.axesBy # Empty
    BY <1>1, EmptyIs DEF Whole, Document, Domains
  <2> HIDE DEF l
  <2>3. CASE Write(Empty, layoutToJson(l))
    <3>1. /\ [chans |-> Empty, json |-> layoutToJson(l)] \in File
          /\ FileOf([chans |-> Empty, json |-> layoutToJson(l)])
      BY <2>2, LayoutFileIs
    <3> QED BY <2>3, <3>1, WriteHolds
  <2>4. CASE Write(Empty, VersionOne(layoutToJson(l)))
    <3>1. /\ [chans |-> Empty, json |-> VersionOne(layoutToJson(l))] \in File
          /\ FileOf([chans |-> Empty, json |-> VersionOne(layoutToJson(l))])
      BY <2>2, VersionOneIs
    <3> QED BY <2>4, <3>1, WriteHolds
  <2> QED BY <2>1, <2>3, <2>4
<1>3. ASSUME SaveChart PROVE IInv'
  <2> DEFINE Of(d) == [n \in {c \in DOMAIN w.chans : w.chans[c] = d} |-> d]
             Part(d) == [n \in ChannelsOf(s.chans, d) |-> d]
  <2>1. \/ Write(w.chans, layoutToJson(l))
        \/ Write(w.chans, layoutToJson(stripLayout(l)))
        \/ \E d \in Domains : Write(Of(d), layoutToJson(restrictedToDomain(l, d)))
    BY <1>3 DEF SaveChart
  <2> HIDE DEF s
  <2>2. CASE Write(w.chans, layoutToJson(l))
    <3>1. /\ [chans |-> s.chans, json |-> layoutToJson(l)] \in File
          /\ FileOf([chans |-> s.chans, json |-> layoutToJson(l)])
      BY <1>1, ChartIs
    <3> QED BY <1>1, <2>2, <3>1, WriteHolds
  <2>3. CASE Write(w.chans, layoutToJson(stripLayout(l)))
    <3>1. /\ [chans |-> s.chans, json |-> layoutToJson(stripLayout(l))] \in File
          /\ FileOf([chans |-> s.chans, json |-> layoutToJson(stripLayout(l))])
      BY <1>1, BareChartIs
    <3> QED BY <1>1, <2>3, <3>1, WriteHolds
  <2>4. ASSUME NEW d \in Domains, Write(Of(d), layoutToJson(restrictedToDomain(l, d))) PROVE IInv'
    <3>1. Of(d) = Part(d)
      BY <1>1 DEF ChannelsOf
    <3>2. /\ [chans |-> Part(d), json |-> layoutToJson(restrictedToDomain(l, d))] \in File
          /\ FileOf([chans |-> Part(d), json |-> layoutToJson(restrictedToDomain(l, d))])
      BY <1>1, SplitChartIs
    <3> HIDE DEF Of, Part
    <3> QED BY <2>4, <3>1, <3>2, WriteHolds
  <2> QED BY <2>1, <2>2, <2>3, <2>4
<1> QED BY <1>2, <1>3

LEMMA LoadHolds ==
  ASSUME IInv, LoadLayout
  PROVE  IInv'
<1> DEFINE l == layoutFromJson(disk.json)
           u == ApplyReplacing(w, l)
<1>1. Edit(u)
  BY DEF LoadLayout
<1>2. w \in Widget /\ ComboSound(w) /\ disk.json \in Json
  BY HoldsIs DEF Holds, Sound, File
<1>3. l \in Layout
  BY <1>2, FromJsonIs
<1> HIDE DEF l
<1>4. Sound(u)
  BY <1>2, <1>3, ReplacingIs
<1> QED BY <1>1, <1>4, EditHolds

\* The channels a chart is opened with, and the layout they come with.
Fresh == [m \in {Renamed[n] : n \in DOMAIN disk.chans} |->
             disk.chans[CHOOSE n \in DOMAIN disk.chans : Renamed[n] = m]]
OpenedLayout == remapLayoutChannelNames(layoutFromJson(disk.json), Renamed)

LEMMA FreshIs ==
  ASSUME IInv, OpenChart
  PROVE  /\ Edit(ApplyMerging(StoreAddAll(w, Fresh), OpenedLayout))
         /\ DOMAIN disk.chans \subseteq Names /\ Renamed \in [DOMAIN disk.chans -> Names]
         /\ \A n, m \in DOMAIN disk.chans : Renamed[n] = Renamed[m] => n = m
         /\ Fresh \in MapsTo(Names, Domains)
         /\ DOMAIN Fresh = {Renamed[n] : n \in DOMAIN disk.chans}
         /\ DOMAIN Fresh \cap DOMAIN w.chans = {}
         /\ \A n \in DOMAIN disk.chans : Fresh[Renamed[n]] = disk.chans[n]
<1>1. /\ \A n, m \in DOMAIN disk.chans : Renamed[n] = Renamed[m] => n = m
      /\ {Renamed[n] : n \in DOMAIN disk.chans} \cap DOMAIN w.chans = {}
      /\ Edit(ApplyMerging(StoreAddAll(w, Fresh), OpenedLayout))
  BY DEF OpenChart, Fresh, OpenedLayout
<1>2. disk.chans \in MapsTo(Names, Domains)
  BY HoldsIs DEF Holds, File
<1>3. DOMAIN disk.chans \subseteq Names /\ \A n \in DOMAIN disk.chans : disk.chans[n] \in Domains
  BY <1>2, MapIs
<1>4. Renamed \in [DOMAIN disk.chans -> Names]
  <2>1. \A n \in DOMAIN disk.chans : uniqueStoreName(n) \in Names
    BY <1>3, OrderAssumption DEF uniqueStoreName
  <2> QED BY <2>1 DEF Renamed
<1>5. DOMAIN Fresh = {Renamed[n] : n \in DOMAIN disk.chans} /\ Fresh = [m \in DOMAIN Fresh |-> Fresh[m]]
  BY DEF Fresh
<1>6. ASSUME NEW n \in DOMAIN disk.chans PROVE Fresh[Renamed[n]] = disk.chans[n]
  <2> DEFINE k == CHOOSE j \in DOMAIN disk.chans : Renamed[j] = Renamed[n]
  <2>1. Fresh[Renamed[n]] = disk.chans[k]
    BY DEF Fresh
  <2>2. k \in DOMAIN disk.chans /\ Renamed[k] = Renamed[n]
    OBVIOUS
  <2> HIDE DEF k
  <2> QED BY <1>1, <2>1, <2>2
<1>7. \A m \in DOMAIN Fresh : m \in Names /\ Fresh[m] \in Domains
  BY <1>3, <1>4, <1>5, <1>6
<1>8. Fresh \in MapsTo(Names, Domains)
  BY <1>5, <1>7, MapIs
<1> QED BY <1>1, <1>3, <1>4, <1>5, <1>6, <1>8

LEMMA OpenedIs ==
  ASSUME IInv, OpenChart
  PROVE  LET l == layoutFromJson(disk.json)
         IN  /\ l \in Layout /\ l.axesBy = disk.json.axesBy /\ l.chansBy = disk.json.chansBy
             /\ l.view = disk.json.view /\ l.x = disk.json.x
             /\ \A d \in DOMAIN l.chansBy : DOMAIN l.chansBy[d] \subseteq ChannelsOf(disk.chans, d)
             /\ OpenedLayout \in Layout /\ OpenedLayout.view = l.view /\ OpenedLayout.axesBy = l.axesBy
             /\ OpenedLayout.x = Get(Renamed, l.x, l.x)
             /\ DOMAIN OpenedLayout.chansBy = DOMAIN l.chansBy
             /\ \A d \in DOMAIN l.chansBy :
                  /\ DOMAIN OpenedLayout.chansBy[d] = {Renamed[n] : n \in DOMAIN l.chansBy[d]}
                  /\ \A n \in DOMAIN l.chansBy[d] : OpenedLayout.chansBy[d][Renamed[n]] = l.chansBy[d][n]
<1> DEFINE l == layoutFromJson(disk.json)
<1>1. disk.json \in Json /\ FileOf(disk)
  BY HoldsIs DEF Holds, File
<1>2. l \in Layout /\ l.view = disk.json.view /\ l.x = disk.json.x
  BY <1>1, FromJsonIs
<1>3. disk.chans # Empty
  BY DEF OpenChart
<1>4. /\ disk.json.chansBy # Empty
      /\ \A d \in DOMAIN disk.json.chansBy : DOMAIN disk.json.chansBy[d] \subseteq ChannelsOf(disk.chans, d)
      /\ disk.json.axesBy = Empty => disk.json.axes = Empty
  BY <1>1, <1>3 DEF FileOf
<1>5. l.axesBy = disk.json.axesBy /\ l.chansBy = disk.json.chansBy
  BY <1>4 DEF layoutFromJson
<1> HIDE DEF l
<1>6. \A d \in DOMAIN l.chansBy : DOMAIN l.chansBy[d] \subseteq ChannelsOf(disk.chans, d)
  BY <1>4, <1>5
<1>7. \A d \in DOMAIN l.chansBy : DOMAIN l.chansBy[d] \subseteq DOMAIN disk.chans
  BY <1>6 DEF ChannelsOf
<1>8. /\ DOMAIN disk.chans \subseteq Names /\ Renamed \in [DOMAIN disk.chans -> Names]
      /\ \A n, m \in DOMAIN disk.chans : Renamed[n] = Renamed[m] => n = m
  BY FreshIs
<1>9. OpenedLayout = remapLayoutChannelNames(l, Renamed)
  BY DEF OpenedLayout, l
<1> DEFINE v == remapLayoutChannelNames(l, Renamed)
           D == DOMAIN disk.chans
           r == Renamed
<1> HIDE DEF D, r
<1>10. /\ v \in Layout /\ v.view = l.view /\ v.axesBy = l.axesBy /\ v.x = Get(r, l.x, l.x)
       /\ DOMAIN v.chansBy = DOMAIN l.chansBy
       /\ \A d \in DOMAIN l.chansBy :
            /\ DOMAIN v.chansBy[d] = {r[n] : n \in DOMAIN l.chansBy[d]}
            /\ \A n \in DOMAIN l.chansBy[d] : v.chansBy[d][r[n]] = l.chansBy[d][n]
  <2>1. /\ D \subseteq Names /\ r \in [D -> Names] /\ \A n, m \in D : r[n] = r[m] => n = m
        /\ \A d \in DOMAIN l.chansBy : DOMAIN l.chansBy[d] \subseteq D
        /\ v = remapLayoutChannelNames(l, r)
    BY <1>7, <1>8 DEF D, r
  <2> HIDE DEF v
  <2> QED BY <1>2, <2>1, RemappedIs
<1> HIDE DEF v
<1> QED BY <1>2, <1>5, <1>6, <1>9, <1>10 DEF v, r, l

LEMMA OpenHolds ==
  ASSUME IInv, OpenChart
  PROVE  IInv'
<1> DEFINE t == StoreAddAll(w, Fresh)
           u == ApplyMerging(t, OpenedLayout)
<1>1. Edit(u) /\ Fresh \in MapsTo(Names, Domains)
  BY FreshIs
<1>2. Sound(w)
  BY HoldsIs DEF Holds
<1>3. Sound(t)
  BY <1>1, <1>2, StoreAddAllIs
<1> HIDE DEF t
<1>4. Sound(u)
  BY <1>3, OpenedIs, MergingIs
<1> QED BY <1>1, <1>4, EditHolds

LEMMA StepHolds == IInv /\ [Next]_vars => IInv'
<1> SUFFICES ASSUME IInv, [Next]_vars PROVE IInv'
  OBVIOUS
<1>1. CASE UNCHANGED vars
  BY <1>1 DEF IInv, TypeOK, ViewsInv, TableSound, ComboSound, Settled, Listed, activeChannels,
              SnapshotWhole, FileWhole, vars
<1>2. ASSUME NEW n \in Names, NEW d \in Domains, AddChannel(n, d) PROVE IInv'
  BY <1>2, AddRemoveHolds
<1>3. ASSUME NEW n \in Names, RemoveChannel(n) PROVE IInv'
  BY <1>3, AddRemoveHolds
<1>4. ASSUME NEW n \in Names, onVisibilityChanged(n) PROVE IInv'
  BY <1>4, VisibilityHolds
<1>5. ASSUME NEW n \in Names, NEW m \in Names, RenameChannel(n, m) PROVE IInv'
  BY <1>5, AddRemoveHolds
<1>6. ASSUME NEW n \in Names, NEW i \in 1 .. MaxAxes, onAxisComboChanged(n, i) PROVE IInv'
  BY <1>6, AxesHold
<1>7. ASSUME NEW v \in Views, SetView(v) PROVE IInv'
  BY <1>7, ViewHolds
<1>8. ASSUME NEW n \in Names \cup {NoName}, PickX(n) PROVE IInv'
  BY <1>8, ViewHolds
<1>9. ASSUME NEW l \in Labels, AddAxis(l) PROVE IInv'
  BY <1>9, AxesHold
<1>10. ASSUME NEW l \in Labels, NEW i \in DOMAIN w.axes, RenameAxis(i, l) PROVE IInv'
  BY <1>10, AxesHold
<1>11. ASSUME NEW i \in DOMAIN w.axes, RemoveAxis(i) PROVE IInv'
  BY <1>11, AxesHold
<1>12. CASE Commit
  BY <1>12, CommitHolds
<1>13. CASE Undo
  BY <1>13, UndoHolds
<1>14. CASE SaveLayout
  BY <1>14, SaveHolds
<1>15. CASE SaveChart
  BY <1>15, SaveHolds
<1>16. CASE LoadLayout
  BY <1>16, LoadHolds
<1>17. CASE OpenChart
  BY <1>17, OpenHolds
<1> QED BY <1>1, <1>2, <1>3, <1>4, <1>5, <1>6, <1>7, <1>8, <1>9, <1>10, <1>11, <1>12,
           <1>13, <1>14, <1>15, <1>16, <1>17 DEF Next

\* The views' inductive invariant holds in every reachable state.
THEOREM Invariant == Spec => []IInv
<1> QED BY InitHolds, StepHolds, PTL DEF Spec

\* The widget's members, the undo snapshot and the file always have the shapes
\* the code gives them.
THEOREM TypeCorrect == Spec => []TypeOK
<1>1. IInv => TypeOK
  BY DEF IInv
<1> QED BY <1>1, Invariant, PTL

-----------------------------------------------------------------------------
(* The properties                                                           *)

LEMMA Agrees == IInv => ScreenAgrees
<1> SUFFICES ASSUME IInv PROVE ScreenAgrees
  OBVIOUS
<1> DEFINE a == activeDomain(w)
           s == snapshotIntoDomain(w, a)
           page(sampled) == htmlExportView(w, sampled)[a]
<1>1. Sound(w)
  BY HoldsIs DEF Holds
<1>2. a \in Domains
  BY <1>1, DomainIs DEF Sound
<1>3. /\ w.axes # Empty /\ w.axes \in Seq(Labels) \ {Empty} /\ DOMAIN w.rows \subseteq DOMAIN w.chans
      /\ \A n \in DOMAIN w.rows : /\ w.rows[n].axis \in DOMAIN w.axes /\ w.rows[n].axis \in Nat \ {0}
                                  /\ w.chans[n] = a
  BY <1>1, SoundIs
<1>4. s.chans = w.chans /\ s.by = [w.by EXCEPT ![a] = [axes |-> w.axes, rows |-> Sticky(w)]]
  BY <1>1, <1>2, SnapshotIs DEF Sound
<1>5. w.by \in [Domains -> DomainState]
  BY <1>1, WidgetIs DEF Sound, DomainState
<1>6. s.by[a].axes = w.axes /\ s.by[a].rows = Sticky(w)
  BY <1>2, <1>4, <1>5
<1> DEFINE axesOf == IF s.by[a].axes = Empty THEN <<Y1>> ELSE s.by[a].axes
           chans(sampled) == [n \in {c \in sampled : s.chans[c] = a} |->
                       LET r == Get(s.by[a].rows, n, [vis |-> TRUE, axis |-> 1])
                       IN  [visible |-> r.vis, axisIndex |-> Least(r.axis, Len(axesOf))]]
<1>7. ASSUME NEW sampled \in SUBSET DOMAIN w.chans
      PROVE  page(sampled) = [axes |-> axesOf, chans |-> chans(sampled)]
  BY <1>2 DEF htmlExportView
<1> HIDE DEF s, page
<1>8. axesOf = w.axes
  BY <1>3, <1>6
<1> HIDE DEF axesOf
<1>9. ASSUME NEW sampled \in SUBSET DOMAIN w.chans
      PROVE  /\ page(sampled).axes = w.axes
             /\ DOMAIN page(sampled).chans = {c \in sampled : w.chans[c] = a}
  <2>1. DOMAIN chans(sampled) = {c \in sampled : w.chans[c] = a}
    BY <1>4
  <2> HIDE DEF chans
  <2> QED BY <1>7, <1>8, <2>1
<1>10. ASSUME NEW sampled \in SUBSET DOMAIN w.chans, NEW n \in DOMAIN w.rows \cap sampled
       PROVE  /\ page(sampled).chans[n].visible = w.rows[n].vis
              /\ page(sampled).chans[n].axisIndex = w.rows[n].axis
  <2>1. n \in {c \in sampled : s.chans[c] = a}
    BY <1>3, <1>4
  <2>2. Get(s.by[a].rows, n, [vis |-> TRUE, axis |-> 1]) = w.rows[n]
    BY <1>6 DEF Get, Sticky, Over
  <2>3. chans(sampled)[n] = [visible |-> w.rows[n].vis, axisIndex |-> Least(w.rows[n].axis, Len(w.axes))]
    BY <1>8, <2>1, <2>2
  <2>4. Least(w.rows[n].axis, Len(w.axes)) = w.rows[n].axis
    BY <1>3, AxesAre
  <2> HIDE DEF chans
  <2> QED BY <1>7, <2>3, <2>4
<1>11. w.combo \in DOMAIN w.chans \cup {NoName} /\ DOMAIN w.plotted = activeChannels(w)
  BY <1>1 DEF Sound, ComboSound, TableSound
<1>12. ASSUME NEW sampled \in SUBSET DOMAIN w.chans
       PROVE  DOMAIN w.rows \cap DOMAIN page(sampled).chans = DOMAIN w.rows \cap sampled
  BY <1>3, <1>9
<1> HIDE DEF a, chans
<1> QED BY <1>3, <1>9, <1>10, <1>11, <1>12 DEF ScreenAgrees, a, page

\* The table, the chart and an exported page agree, whatever was done before:
\* each row is of a channel of the store and on an axis on screen, the chart draws
\* the checked rows, and the page, whichever channels have samples, has the table's
\* axes and exactly those rows, each as the table shows it.
THEOREM TheScreenAgrees == Spec => []ScreenAgrees
<1> QED BY Invariant, Agrees, PTL

\* Everything on screen comes from the state of the domain the view shows.
OnScreen(v) ==
  /\ Sound(v) /\ RowsFollow(v) /\ v.on = activeDomain(v) /\ v.saved = v.by[v.on].rows
  /\ v.by[v.on].axes # Empty => v.axes = v.by[v.on].axes

\* The label of a channel with a sticky place on screen.
LEMMA StickyLabel ==
  ASSUME NEW u, Sound(u), RowsFollow(u), NEW n \in DOMAIN u.saved
  PROVE  LabelOf(u, u.on, n) = LabelOn(u.axes, u.saved[n].axis)
<1>1. u.axes \in Seq(Labels) \ {Empty} /\ u.saved \in Places
  BY WidgetIs DEF Sound
<1>2. u.saved[n].axis \in Nat \ {0}
  BY <1>1, PlacesAre
<1>3. Least(Least(u.saved[n].axis, Len(u.axes)), Len(u.axes)) = Least(u.saved[n].axis, Len(u.axes))
  BY <1>1, <1>2, AxesAre
<1>4. AxesOf(u, u.on) = u.axes
  BY DEF AxesOf
<1>5. CASE n \in DOMAIN u.rows
  <2>1. AxisOf(u, u.on, n) = Least(u.saved[n].axis, Len(u.axes))
    BY <1>5 DEF AxisOf, RowsFollow
  <2> QED BY <1>1, <1>3, <1>4, <2>1 DEF LabelOf, LabelOn
<1>6. CASE n \notin DOMAIN u.rows
  <2>1. AxisOf(u, u.on, n) = u.saved[n].axis
    BY <1>6 DEF AxisOf, Get
  <2> QED BY <1>4, <2>1 DEF LabelOf
<1> QED BY <1>5, <1>6

\* Each domain then has the axes, and each of its channels the label, it is kept with.
LEMMA ShownLabel ==
  ASSUME NEW v, OnScreen(v), NEW d \in Domains, v.by[d].axes # Empty
  PROVE  /\ AxesOf(v, d) = v.by[d].axes
         /\ \A n \in DOMAIN v.by[d].rows : LabelOf(v, d, n) = LabelOn(v.by[d].axes, v.by[d].rows[n].axis)
<1>1. CASE d = v.on
  <2>1. v.axes = v.by[d].axes /\ v.saved = v.by[d].rows
    BY <1>1 DEF OnScreen
  <2>2. \A n \in DOMAIN v.saved : LabelOf(v, v.on, n) = LabelOn(v.axes, v.saved[n].axis)
    BY StickyLabel DEF OnScreen
  <2> QED BY <1>1, <2>1, <2>2 DEF AxesOf
<1>2. CASE d # v.on
  <2>1. AxesOf(v, d) = v.by[d].axes
    BY <1>2 DEF AxesOf
  <2>2. \A n \in DOMAIN v.by[d].rows : AxisOf(v, d, n) = v.by[d].rows[n].axis
    BY <1>2 DEF AxisOf, Get
  <2> QED BY <2>1, <2>2 DEF LabelOf
<1> QED BY <1>1, <1>2

LEMMA UndoStep ==
  ASSUME IInv, Undo
  PROVE  /\ w'.view = snap.layout.view /\ w'.chans = snap.chans
         /\ snap.layout.view # "xy" => w'.x = snap.layout.x
         /\ \A d \in Domains : snap.layout.axesBy[d] # Empty =>
               /\ AxesOf(w', d) = snap.layout.axesBy[d]
               /\ \A n \in DOMAIN snap.layout.chansBy[d] :
                     LabelOf(w', d, n) = LabelOn(snap.layout.axesBy[d], snap.layout.chansBy[d][n])
<1>1. Sound(w) /\ Whole(snap) /\ w' = restoreState(w, snap)
  BY HoldsIs DEF Holds, Undo
<1>2. /\ Sound(w') /\ RowsFollow(w') /\ w'.chans = snap.chans /\ w'.view = snap.layout.view
      /\ snap.layout.view # "xy" => w'.x = snap.layout.x
      /\ w'.on = activeDomain(w') /\ w'.saved = w'.by[w'.on].rows
      /\ w'.by[w'.on].axes # Empty => w'.axes = w'.by[w'.on].axes
      /\ \A d \in Domains :
           /\ w'.by[d].axes = snap.layout.axesBy[d]
           /\ DOMAIN w'.by[d].rows = DOMAIN snap.layout.chansBy[d]
           /\ \A n \in DOMAIN w'.by[d].rows : w'.by[d].rows[n].axis = snap.layout.chansBy[d][n]
  BY <1>1, RestoredIs
<1>3. OnScreen(w')
  BY <1>2 DEF OnScreen
<1>4. ASSUME NEW d \in Domains, snap.layout.axesBy[d] # Empty
      PROVE  /\ AxesOf(w', d) = snap.layout.axesBy[d]
             /\ \A n \in DOMAIN snap.layout.chansBy[d] :
                   LabelOf(w', d, n) = LabelOn(snap.layout.axesBy[d], snap.layout.chansBy[d][n])
  <2>1. w'.by[d].axes # Empty
    BY <1>2, <1>4
  <2>2. /\ AxesOf(w', d) = w'.by[d].axes
        /\ \A n \in DOMAIN w'.by[d].rows :
              LabelOf(w', d, n) = LabelOn(w'.by[d].axes, w'.by[d].rows[n].axis)
    BY <1>3, <2>1, ShownLabel
  <2> QED BY <1>2, <2>2
<1> QED BY <1>2, <1>4

\* Undo and redo put back the channels, the view, the axes of each domain and
\* the axis of every channel, from any state and any snapshot.
THEOREM UndoRestores == Spec => UndoRestoresDocument
<1> DEFINE A == Undo =>
         /\ w'.view = snap.layout.view /\ w'.chans = snap.chans
         /\ snap.layout.view # "xy" => w'.x = snap.layout.x
         /\ \A d \in Domains : snap.layout.axesBy[d] # Empty =>
               /\ AxesOf(w', d) = snap.layout.axesBy[d]
               /\ \A n \in DOMAIN snap.layout.chansBy[d] :
                     LabelOf(w', d, n) = LabelOn(snap.layout.axesBy[d], snap.layout.chansBy[d][n])
<1>1. IInv => A
  BY UndoStep
<1>2. UndoRestoresDocument <=> [][A]_vars
  BY DEF UndoRestoresDocument
<1> HIDE DEF A
<1>3. IInv /\ [Next]_vars => [A]_vars
  BY <1>1
<1> QED BY <1>2, <1>3, Invariant, PTL DEF Spec

\* Putting the active domain away, or taking another channel in or out, keeps
\* what each domain says of the channels that have a place.
LEMMA KeptLabels ==
  ASSUME NEW u, Sound(u), Settled(u), NEW v, Sound(v), RowsFollow(v),
         v.on = u.on, v.axes = u.axes, v.by = u.by, DOMAIN u.saved \subseteq DOMAIN v.saved,
         \A n \in DOMAIN u.saved : v.saved[n].axis = u.saved[n].axis
  PROVE  \A d \in Domains : /\ AxesOf(v, d) = AxesOf(u, d)
                            /\ \A n \in Placed(u, d) : LabelOf(v, d, n) = LabelOf(u, d, n)
<1>1. RowsFollow(u) /\ DOMAIN u.rows \subseteq DOMAIN u.saved
  BY DEF Settled, RowsFollow
<1>2. \A d : AxesOf(v, d) = AxesOf(u, d)
  BY DEF AxesOf
<1>3. ASSUME NEW d \in Domains, NEW n \in Placed(u, d), d = u.on PROVE LabelOf(v, d, n) = LabelOf(u, d, n)
  <2>1. n \in DOMAIN u.saved
    BY <1>1, <1>3 DEF Placed
  <2>2. LabelOf(u, d, n) = LabelOn(u.axes, u.saved[n].axis)
    BY <1>1, <1>3, <2>1, StickyLabel
  <2>3. LabelOf(v, v.on, n) = LabelOn(v.axes, v.saved[n].axis)
    BY <2>1, StickyLabel
  <2> QED BY <1>3, <2>1, <2>2, <2>3
<1>4. ASSUME NEW d \in Domains, NEW n \in Placed(u, d), d # u.on PROVE LabelOf(v, d, n) = LabelOf(u, d, n)
  <2>1. AxisOf(v, d, n) = AxisOf(u, d, n)
    BY <1>4 DEF AxisOf
  <2> QED BY <1>2, <2>1 DEF LabelOf
<1> QED BY <1>2, <1>3, <1>4

\* Switching the view or the X channel keeps them too.
LEMMA SwapKeeps ==
  ASSUME NEW u, Sound(u), Settled(u), InStep(u),
         NEW c \in Widget, ComboSound(c), c.chans = u.chans, c.axes = u.axes, c.saved = u.saved,
         c.by = u.by, c.on = u.on, c.rows = u.rows
  PROVE  LET v == SwapDomain(activeDomain(u), c)
         IN  \A d \in Domains : Visited(u, d) =>
                /\ AxesOf(v, d) = AxesOf(u, d)
                /\ \A n \in Placed(u, d) : LabelOf(v, d, n) = LabelOf(u, d, n)
<1> DEFINE old == activeDomain(u)
           new == activeDomain(c)
           v == SwapDomain(old, c)
<1>1. old \in Domains /\ new \in Domains /\ u.on = old /\ u.by \in [Domains -> DomainState]
  BY DomainIs, WidgetIs DEF Sound, InStep, DomainState
<1>2. /\ Sound(v) /\ RowsFollow(v)
      /\ old = new => Kept(c, v)
      /\ old # new => /\ v.on = new /\ v.axes = AxesBrought(c, new) /\ v.saved = c.by[new].rows
                      /\ v.by = [c.by EXCEPT ![old] = [axes |-> c.axes, rows |-> Sticky(c)]]
  BY <1>1, SwapIs
<1> HIDE DEF v, old, new
<1>3. CASE old = new
  <2>1. v.on = u.on /\ v.axes = u.axes /\ v.by = u.by /\ v.saved = u.saved
    BY <1>2, <1>3 DEF Kept
  <2> QED BY <1>2, <2>1, KeptLabels DEF v, old
<1>4. CASE old # new
  <2>1. /\ v.on = new /\ v.axes = AxesBrought(u, new) /\ v.saved = u.by[new].rows
        /\ v.by = [u.by EXCEPT ![old] = [axes |-> u.axes, rows |-> Sticky(u)]]
    BY <1>2, <1>4 DEF AxesBrought, Sticky
  <2>2. ASSUME NEW n \in Placed(u, old)
        PROVE  AxesOf(v, old) = u.axes /\ LabelOf(v, old, n) = LabelOf(u, old, n)
    <3>1. v.by[old].axes = u.axes /\ v.by[old].rows = Sticky(u)
      BY <1>1, <2>1
    <3>2. AxesOf(v, old) = u.axes /\ AxesOf(u, old) = u.axes
      BY <1>1, <1>4, <2>1, <3>1 DEF AxesOf
    <3>3. AxisOf(v, old, n) = Get(Sticky(u), n, [vis |-> TRUE, axis |-> 1]).axis
      BY <1>4, <2>1, <3>1 DEF AxisOf
    <3>4. Get(Sticky(u), n, [vis |-> TRUE, axis |-> 1]).axis = AxisOf(u, old, n)
      BY <1>1, <2>2 DEF AxisOf, Get, Sticky, Over, Placed
    <3> QED BY <3>2, <3>3, <3>4 DEF LabelOf
  <2>3. AxesOf(v, old) = AxesOf(u, old)
    BY <1>1, <1>4, <2>1 DEF AxesOf
  <2>4. ASSUME Visited(u, new)
        PROVE  /\ AxesOf(v, new) = AxesOf(u, new)
               /\ \A n \in Placed(u, new) : LabelOf(v, new, n) = LabelOf(u, new, n)
    <3>1. AxesOf(u, new) = u.by[new].axes /\ u.by[new].axes # Empty
      BY <1>1, <1>4, <2>4 DEF AxesOf, Visited
    <3>2. v.axes = u.by[new].axes /\ AxesOf(v, new) = v.axes
      BY <2>1, <3>1 DEF AxesBrought, AxesOf
    <3>3. ASSUME NEW n \in Placed(u, new) PROVE LabelOf(v, new, n) = LabelOf(u, new, n)
      <4>1. n \in DOMAIN u.by[new].rows
        BY <1>1, <1>4, <3>3 DEF Placed
      <4>2. LabelOf(u, new, n) = LabelOn(u.by[new].axes, u.by[new].rows[n].axis)
        BY <1>1, <1>4, <3>1, <4>1 DEF LabelOf, AxisOf, Get
      <4>3. LabelOf(v, v.on, n) = LabelOn(v.axes, v.saved[n].axis)
        BY <1>2, <2>1, <4>1, StickyLabel
      <4> QED BY <2>1, <3>2, <4>2, <4>3
    <3> QED BY <3>1, <3>2, <3>3
  <2>5. \A d \in Domains : d = old \/ d = new
    BY <1>1, <1>4 DEF Domains
  <2> QED BY <2>2, <2>3, <2>4, <2>5 DEF v, old
<1> QED BY <1>3, <1>4

\* What looking at the document keeps.
DocumentSame == \A d \in Domains : Visited(w, d) =>
                   /\ AxesOf(w', d) = AxesOf(w, d)
                   /\ \A n \in Placed(w, d) : Get(w'.chans, n, "") = d
                                               => LabelOf(w', d, n) = LabelOf(w, d, n)

LEMMA LookingStep ==
  ASSUME IInv, InStep(w), ~due,
         \/ \E v \in Views : SetView(v)
         \/ \E n \in Names \cup {NoName} : PickX(n)
         \/ \E n \in Names : \/ onVisibilityChanged(n) \/ RemoveChannel(n)
                             \/ \E d \in Domains : AddChannel(n, d)
  PROVE  DocumentSame
<1>1. Sound(w) /\ Settled(w)
  BY HoldsIs DEF Holds
<1>2. ASSUME NEW v \in Views, SetView(v) PROVE DocumentSame
  <2> DEFINE u == [w EXCEPT !.view = v]
             c == IF v = "xy" THEN rebuildXyXCombo(u) ELSE u
  <2>1. w' = SwapDomain(activeDomain(w), c)
    BY <1>2 DEF SetView, Edit
  <2>2. /\ u \in Widget /\ u.view = v /\ u.combo = w.combo /\ u.chans = w.chans /\ u.axes = w.axes
        /\ u.saved = w.saved /\ u.by = w.by /\ u.on = w.on /\ u.rows = w.rows
    BY <1>1 DEF Sound, Widget
  <2> HIDE DEF u
  <2>3. /\ c \in Widget /\ ComboSound(c) /\ c.chans = w.chans /\ c.axes = w.axes
        /\ c.saved = w.saved /\ c.by = w.by /\ c.on = w.on /\ c.rows = w.rows
    <3>1. CASE v = "xy"
      <4> DEFINE z == rebuildXyXCombo(u)
      <4>1. z \in Widget /\ SameButX(u, z) /\ ComboSound(z)
        BY <2>2, XyComboIs
      <4>2. c = z
        BY <3>1
      <4> HIDE DEF z, c
      <4> QED BY <2>2, <4>1, <4>2 DEF SameButX
    <3>2. CASE v # "xy"
      <4>1. c = u
        BY <3>2
      <4> HIDE DEF c
      <4> QED BY <1>1, <2>2, <3>2, <4>1 DEF ComboSound, Sound
    <3> QED BY <3>1, <3>2
  <2> HIDE DEF c
  <2> QED BY <1>1, <2>1, <2>3, SwapKeeps DEF DocumentSame
<1>3. ASSUME NEW n \in Names \cup {NoName}, PickX(n) PROVE DocumentSame
  <2> DEFINE u == [w EXCEPT !.x = n, !.combo = n]
  <2>1. w' = SwapDomain(activeDomain(w), u) /\ n \in DOMAIN w.chans \cup {NoName}
    BY <1>3 DEF PickX, Edit
  <2>2. /\ u \in Widget /\ u.combo = n /\ u.x = n /\ u.chans = w.chans /\ u.axes = w.axes
        /\ u.saved = w.saved /\ u.by = w.by /\ u.on = w.on /\ u.rows = w.rows
    BY <1>1 DEF Sound, Widget
  <2> HIDE DEF u
  <2>3. ComboSound(u)
    BY <2>1, <2>2 DEF ComboSound
  <2> QED BY <1>1, <2>1, <2>2, <2>3, SwapKeeps DEF DocumentSame
<1>4. ASSUME NEW n \in Names, onVisibilityChanged(n) PROVE DocumentSame
  <2> DEFINE vis == ~w.rows[n].vis
  <2>1. w' = Toggled(w, n, vis) /\ n \in DOMAIN w.rows
    BY <1>4, VisibilityIs
  <2>2. vis \in BOOLEAN
    OBVIOUS
  <2> HIDE DEF vis
  <2>3. /\ Sound(w') /\ w'.axes = w.axes /\ w'.by = w.by /\ w'.on = w.on /\ DOMAIN w'.rows = DOMAIN w.rows
        /\ \A m \in DOMAIN w.rows : w'.rows[m].axis = w.rows[m].axis
        /\ DOMAIN w'.saved = DOMAIN w.saved \cup {n}
        /\ \A m \in DOMAIN w.saved : w'.saved[m].axis = w.saved[m].axis
    BY <1>1, <2>1, <2>2, ToggledIs
  <2>4. RowsFollow(w')
    BY <1>1, <2>3 DEF Settled, RowsFollow
  <2> QED BY <1>1, <2>3, <2>4, KeptLabels DEF DocumentSame
<1>5. ASSUME NEW n \in Names, RemoveChannel(n) PROVE DocumentSame
  <2>1. w' = StoreRemove(w, n)
    BY <1>5 DEF RemoveChannel, Edit
  <2>2. Sound(w') /\ RowsFollow(w') /\ Kept(w, w')
    BY <1>1, <2>1, StoreRemoveIs DEF Sound
  <2> QED BY <1>1, <2>2, KeptLabels DEF DocumentSame, Kept
<1>6. ASSUME NEW n \in Names, NEW d \in Domains, AddChannel(n, d) PROVE DocumentSame
  <2>1. w' = StoreAdd(w, n, d)
    BY <1>6 DEF AddChannel, Edit
  <2>2. Sound(w') /\ RowsFollow(w') /\ Kept(w, w')
    BY <1>1, <2>1, StoreAddIs DEF Sound
  <2> QED BY <1>1, <2>2, KeptLabels DEF DocumentSame, Kept
<1> QED BY <1>2, <1>3, <1>4, <1>5, <1>6

\* Looking at the document does not change it: once the commit timer has fired,
\* switching the view or the X channel, hiding a channel, and adding or removing
\* another one keep the axes of both domains and each channel's axis.
THEOREM LookingKeepsTheDocument == Spec => DocumentKept
<1> DEFINE A == (/\ InStep(w) /\ ~due
                 /\ \/ \E v \in Views : SetView(v)
                    \/ \E n \in Names \cup {NoName} : PickX(n)
                    \/ \E n \in Names : \/ onVisibilityChanged(n) \/ RemoveChannel(n)
                                        \/ \E d \in Domains : AddChannel(n, d))
                => DocumentSame
<1>1. IInv => A
  BY LookingStep
<1>2. DocumentKept <=> [][A]_vars
  BY DEF DocumentKept, DocumentSame
<1> HIDE DEF A
<1>3. IInv /\ [Next]_vars => [A]_vars
  BY <1>1
<1> QED BY <1>2, <1>3, Invariant, PTL DEF Spec

\* The state an opened chart leaves, over the store its channels are already in.
LEMMA OpenStep ==
  ASSUME IInv, OpenChart
  PROVE  LET t == StoreAddAll(w, Fresh)
             s == snapshotIntoDomain(t, activeDomain(t))
             l == OpenedLayout
         IN  /\ OnScreen(w') /\ w'.chans = t.chans /\ w'.view = l.view
             /\ l.view # "xy" => w'.x = l.x
             /\ l.view = "xy" => w'.x = LET prev == IF t.combo = NoName THEN l.x ELSE t.combo
                                        IN  IF prev \in DOMAIN t.chans THEN prev ELSE NoName
             /\ w'.by = [d \in Domains |-> MergeDomain(s.by[d], Get(l.axesBy, d, Empty), Get(l.chansBy, d, Empty))]
             /\ Sound(t) /\ Kept(w, t) /\ (RowsFollow(w) => RowsFollow(t))
             /\ DOMAIN t.chans = DOMAIN w.chans \cup DOMAIN Fresh
             /\ \A n \in DOMAIN t.chans : t.chans[n] = IF n \in DOMAIN Fresh THEN Fresh[n] ELSE w.chans[n]
             /\ w.x = w.combo => t.x = w.x /\ t.combo = w.combo
             /\ s.by = [t.by EXCEPT ![activeDomain(t)] = [axes |-> t.axes, rows |-> Sticky(t)]]
             /\ s.by \in [Domains -> DomainState] /\ activeDomain(t) \in Domains
<1> DEFINE t == StoreAddAll(w, Fresh)
           s == snapshotIntoDomain(t, activeDomain(t))
           l == OpenedLayout
<1>1. /\ w' = ApplyMerging(t, l) /\ Fresh \in MapsTo(Names, Domains)
      /\ DOMAIN Fresh \cap DOMAIN w.chans = {}
  BY FreshIs DEF Edit
<1>2. Sound(w)
  BY HoldsIs DEF Holds
<1>3. /\ Sound(t) /\ Kept(w, t) /\ (RowsFollow(w) => RowsFollow(t))
      /\ DOMAIN t.chans = DOMAIN w.chans \cup DOMAIN Fresh
      /\ \A n \in DOMAIN t.chans : t.chans[n] = IF n \in DOMAIN Fresh THEN Fresh[n] ELSE w.chans[n]
      /\ (DOMAIN Fresh \cap DOMAIN w.chans = {} /\ w.x = w.combo) => t.x = w.x /\ t.combo = w.combo
  BY <1>1, <1>2, StoreAddAllIs
<1> HIDE DEF t
<1>4. l \in Layout
  BY OpenedIs
<1> HIDE DEF l
<1>5. activeDomain(t) \in Domains
  BY <1>3, DomainIs DEF Sound
<1>6. /\ s \in Widget
      /\ s.by = [t.by EXCEPT ![activeDomain(t)] = [axes |-> t.axes, rows |-> Sticky(t)]]
  BY <1>3, <1>5, SnapshotIs DEF Sound
<1>7. s.by \in [Domains -> DomainState]
  BY <1>6, WidgetIs DEF DomainState
<1> DEFINE v == ApplyMerging(t, l)
<1>8. /\ Sound(v) /\ RowsFollow(v) /\ v.chans = t.chans /\ v.view = l.view
      /\ l.view # "xy" => v.x = l.x
      /\ l.view = "xy" => v.x = LET prev == IF t.combo = NoName THEN l.x ELSE t.combo
                                IN  IF prev \in DOMAIN t.chans THEN prev ELSE NoName
      /\ v.on = activeDomain(v) /\ v.saved = v.by[v.on].rows
      /\ v.by[v.on].axes # Empty => v.axes = v.by[v.on].axes
      /\ v.by = [d \in Domains |-> MergeDomain(s.by[d], Get(l.axesBy, d, Empty), Get(l.chansBy, d, Empty))]
  BY <1>3, <1>4, MergingIs
<1> HIDE DEF s
<1>9. w' = v
  BY <1>1
<1> HIDE DEF v
<1>10. OnScreen(v)
  BY <1>8 DEF OnScreen
<1> QED BY <1>1, <1>3, <1>5, <1>6, <1>7, <1>8, <1>9, <1>10 DEF t, s, l

\* The X channel, and with it the domain on screen, is the same while channels
\* of other names are added; no row is taken from the table.
LEMMA NextTo ==
  ASSUME NEW u, Sound(u), NEW t, Sound(t), t.view = u.view,
         DOMAIN u.chans \subseteq DOMAIN t.chans,
         \A n \in DOMAIN u.chans : t.chans[n] = u.chans[n],
         u.x = u.combo => t.x = u.x
  PROVE  activeDomain(t) = activeDomain(u) /\ DOMAIN u.rows \subseteq DOMAIN t.rows
<1>1. CASE u.view # "xy"
  <2>1. activeDomain(t) = activeDomain(u)
    BY <1>1 DEF activeDomain
  <2>2. Listed(u) \subseteq Listed(t)
    BY <1>1 DEF Listed
  <2> QED BY <2>1, <2>2 DEF Sound, TableSound
<1>2. CASE u.view = "xy"
  <2>1. u.x = u.combo /\ u.x \in DOMAIN u.chans \cup {NoName} /\ t.x = u.x
    BY <1>2 DEF Sound, ComboSound
  <2>2. NoName \notin DOMAIN t.chans /\ NoName \notin DOMAIN u.chans
    <3>1. t.chans \in MapsTo(Names, Domains) /\ u.chans \in MapsTo(Names, Domains)
      BY WidgetIs DEF Sound
    <3> QED BY <3>1, MapIs, OrderAssumption
  <2>3. activeDomain(t) = activeDomain(u)
    BY <1>2, <2>1, <2>2 DEF activeDomain, Get
  <2>4. Listed(u) \subseteq Listed(t)
    BY <1>2, <2>1, <2>2 DEF Listed
  <2> QED BY <2>3, <2>4 DEF Sound, TableSound
<1> QED BY <1>1, <1>2

\* A place that names an axis names the same one when axes are added behind.
LEMMA LabelStays ==
  ASSUME NEW have \in Seq(Labels), NEW axes \in Seq(Labels), NEW m, HasAxes(m, have, axes, Len(axes)),
         NEW i \in DOMAIN have
  PROVE  LabelOn(m, i) = LabelOn(have, i)
<1>1. Len(have) \in Nat /\ Len(m) \in Nat /\ DOMAIN have = 1 .. Len(have) /\ DOMAIN m = 1 .. Len(m)
  BY DEF HasAxes
<1>2. Len(have) <= Len(m) /\ \A k \in 1 .. Len(have) : m[k] = have[k]
  BY DEF HasAxes
<1>3. i \in 1 .. Len(have)
  BY <1>1
<1>4. have # Empty /\ m # Empty
  <2>1. Len(Empty) = 0
    BY EmptyIs
  <2> QED BY <1>1, <1>2, <1>3, <2>1
<1>5. Least(i, Len(have)) = i /\ Least(i, Len(m)) = i
  <2>1. \A k, q \in Nat : \A j \in 1 .. k : k <= q => Least(j, k) = j /\ Least(j, q) = j
    BY DEF Least
  <2> QED BY <1>1, <1>2, <1>3, <2>1
<1> QED BY <1>2, <1>3, <1>4, <1>5 DEF LabelOn

\* The channels that were there keep their axes.
LEMMA OthersStay ==
  ASSUME IInv, OpenChart, InStep(w), ~due, NEW d \in Domains, NEW n \in Placed(w, d),
         AxisOf(w, d, n) \in DOMAIN AxesOf(w, d)
  PROVE  LabelOf(w', d, n) = LabelOf(w, d, n)
<1> DEFINE t == StoreAddAll(w, Fresh)
           a == activeDomain(t)
           s == snapshotIntoDomain(t, a)
           l == OpenedLayout
           axes == Get(l.axesBy, d, Empty)
           chans == Get(l.chansBy, d, Empty)
           st == s.by[d]
           r == MergeDomain(st, axes, chans)
<1>1. Sound(w) /\ Settled(w)
  BY HoldsIs DEF Holds
<1>2. RowsFollow(w) /\ DOMAIN w.rows \subseteq DOMAIN w.saved
  BY <1>1 DEF Settled, RowsFollow
<1>3. /\ OnScreen(w')
      /\ w'.by = [e \in Domains |-> MergeDomain(s.by[e], Get(l.axesBy, e, Empty), Get(l.chansBy, e, Empty))]
      /\ Sound(t) /\ Kept(w, t) /\ RowsFollow(t)
      /\ DOMAIN t.chans = DOMAIN w.chans \cup DOMAIN Fresh
      /\ \A m \in DOMAIN t.chans : t.chans[m] = IF m \in DOMAIN Fresh THEN Fresh[m] ELSE w.chans[m]
      /\ w.x = w.combo => t.x = w.x /\ t.combo = w.combo
      /\ s.by = [t.by EXCEPT ![a] = [axes |-> t.axes, rows |-> Sticky(t)]]
      /\ s.by \in [Domains -> DomainState] /\ a \in Domains
  BY <1>2, OpenStep
<1>4. /\ DOMAIN Fresh = {Renamed[m] : m \in DOMAIN disk.chans}
      /\ DOMAIN Fresh \cap DOMAIN w.chans = {}
  BY FreshIs
<1>5. axes \in Seq(Labels) /\ chans \in Indices
  BY OpenedIs, LayoutIs
<1>6. DOMAIN chans \subseteq DOMAIN Fresh
  <2> DEFINE k == layoutFromJson(disk.json)
  <2>1. /\ \A e \in DOMAIN k.chansBy : DOMAIN k.chansBy[e] \subseteq ChannelsOf(disk.chans, e)
        /\ DOMAIN l.chansBy = DOMAIN k.chansBy
        /\ \A e \in DOMAIN k.chansBy : DOMAIN l.chansBy[e] = {Renamed[m] : m \in DOMAIN k.chansBy[e]}
    BY OpenedIs
  <2> HIDE DEF k, l
  <2>2. CASE d \in DOMAIN l.chansBy
    BY <1>4, <2>1, <2>2 DEF ChannelsOf, Get
  <2>3. CASE d \notin DOMAIN l.chansBy
    BY <2>3, EmptyIs DEF Get
  <2> QED BY <2>2, <2>3
<1> HIDE DEF t, a, l, axes, chans
<1>7. a = activeDomain(w) /\ DOMAIN w.rows \subseteq DOMAIN t.rows
  <2>1. \A m \in DOMAIN w.chans : t.chans[m] = w.chans[m]
    BY <1>3, <1>4
  <2>2. t.view = w.view
    BY <1>3 DEF Kept
  <2> QED BY <1>1, <1>3, <2>1, <2>2, NextTo DEF a
<1>8. /\ t.axes = w.axes /\ t.saved = w.saved /\ t.by = w.by /\ w.on = a
  BY <1>3, <1>7 DEF Kept, InStep
<1>9. w'.by[d] = r
  BY <1>3 DEF axes, chans
<1> HIDE DEF s
<1>10. st \in DomainState
  BY <1>3
<1>11. w.axes \in Seq(Labels) \ {Empty} /\ w.saved \in Places /\ w.by \in [Domains -> DomainState]
  BY <1>1, WidgetIs DEF Sound, DomainState
<1> DEFINE i == AxisOf(w, d, n)
<1>12. st.axes = AxesOf(w, d) /\ n \in DOMAIN st.rows /\ st.rows[n].axis = i
  <2>1. CASE d = a
    <3>1. st = [axes |-> w.axes, rows |-> Sticky(t)]
      BY <1>3, <1>8, <1>11, <2>1
    <3>2. n \in DOMAIN w.saved
      BY <1>2, <1>8, <2>1 DEF Placed
    <3>3. n \in DOMAIN Sticky(t)
      BY <1>8, <3>2 DEF Sticky, Over
    <3>4. AxesOf(w, d) = w.axes
      BY <1>8, <2>1 DEF AxesOf
    <3>5. CASE n \in DOMAIN w.rows
      <4>1. i = w.rows[n].axis /\ i = Least(w.saved[n].axis, Len(w.axes))
        BY <1>2, <1>8, <2>1, <3>2, <3>5 DEF AxisOf, RowsFollow
      <4>2. n \in DOMAIN t.rows /\ t.rows[n].axis = Least(w.saved[n].axis, Len(w.axes))
        BY <1>3, <1>7, <1>8, <3>2, <3>5 DEF RowsFollow
      <4>3. Sticky(t)[n] = t.rows[n]
        BY <4>2 DEF Sticky, Over
      <4> QED BY <3>1, <3>3, <3>4, <4>1, <4>2, <4>3
    <3>6. CASE n \notin DOMAIN w.rows
      <4>1. i = w.saved[n].axis
        BY <1>8, <2>1, <3>2, <3>6 DEF AxisOf, Get
      <4>2. Least(i, Len(w.axes)) = i
        <5>1. i \in Nat \ {0} /\ i \in DOMAIN w.axes
          BY <1>11, <3>2, <3>4, <4>1, PlacesAre
        <5> QED BY <1>11, <5>1, AxesAre
      <4>3. n \in DOMAIN t.rows => t.rows[n].axis = i
        BY <1>3, <1>8, <3>2, <4>1, <4>2 DEF RowsFollow
      <4>4. Sticky(t)[n] = IF n \in DOMAIN t.rows THEN t.rows[n] ELSE w.saved[n]
        BY <1>8, <3>3 DEF Sticky, Over
      <4> QED BY <3>1, <3>3, <3>4, <4>1, <4>3, <4>4
    <3> QED BY <3>5, <3>6
  <2>2. CASE d # a
    <3>1. st = w.by[d]
      BY <1>3, <1>8, <2>2
    <3>2. n \in DOMAIN w.by[d].rows
      BY <1>8, <2>2 DEF Placed
    <3> QED BY <1>8, <2>2, <3>1, <3>2 DEF AxesOf, AxisOf, Get
  <2> QED BY <2>1, <2>2
<1> HIDE DEF st, i
<1>13. n \notin DOMAIN chans
  BY <1>4, <1>6 DEF Placed
<1>14. HasAxes(r.axes, st.axes, axes, Len(axes)) /\ r.rows[n] = st.rows[n] /\ n \in DOMAIN r.rows
  BY <1>5, <1>10, <1>12, <1>13, MergeIs
<1> HIDE DEF r
<1>15. i \in DOMAIN st.axes /\ i \in Nat \ {0} /\ st.axes \in Seq(Labels)
  <2>1. st.axes \in Seq(Labels) /\ st.rows \in Places
    BY <1>10 DEF DomainState
  <2> QED BY <1>12, <2>1, PlacesAre DEF i
<1>16. st.axes # Empty
  BY <1>15, EmptyIs
<1>17. LabelOn(r.axes, i) = LabelOn(st.axes, i)
  BY <1>5, <1>14, <1>15, LabelStays
<1>18. r.axes # Empty
  <2>1. Len(st.axes) >= 1 /\ Len(st.axes) \in Nat
    BY <1>15, <1>16, AxesAre
  <2>2. Len(r.axes) \in Nat /\ Len(st.axes) <= Len(r.axes)
    BY <1>14 DEF HasAxes
  <2>3. Len(Empty) = 0
    BY EmptyIs
  <2> QED BY <2>1, <2>2, <2>3
<1>19. LabelOf(w', d, n) = LabelOn(r.axes, r.rows[n].axis)
  BY <1>3, <1>9, <1>14, <1>18, ShownLabel
<1>20. LabelOf(w, d, n) = LabelOn(st.axes, i)
  BY <1>12 DEF LabelOf, i
<1> QED BY <1>12, <1>14, <1>17, <1>19, <1>20

\* The opened channels come on the axes the file names.
LEMMA OpenedPlaced ==
  ASSUME IInv, OpenChart
  PROVE  LET l == layoutFromJson(disk.json)
         IN  \A d \in DOMAIN l.axesBy : \A n \in DOMAIN Get(l.chansBy, d, Empty) :
                (n \in DOMAIN disk.chans /\ l.chansBy[d][n] \in DOMAIN l.axesBy[d])
                  => LabelOf(w', d, Renamed[n]) = l.axesBy[d][l.chansBy[d][n]]
<1> DEFINE l == layoutFromJson(disk.json)
           o == OpenedLayout
           t == StoreAddAll(w, Fresh)
           s == snapshotIntoDomain(t, activeDomain(t))
<1>1. /\ OnScreen(w') /\ s.by \in [Domains -> DomainState]
      /\ w'.by = [e \in Domains |-> MergeDomain(s.by[e], Get(o.axesBy, e, Empty), Get(o.chansBy, e, Empty))]
  BY OpenStep
<1>2. /\ l \in Layout /\ o \in Layout /\ o.axesBy = l.axesBy /\ DOMAIN o.chansBy = DOMAIN l.chansBy
      /\ \A d \in DOMAIN l.chansBy :
           /\ DOMAIN o.chansBy[d] = {Renamed[n] : n \in DOMAIN l.chansBy[d]}
           /\ \A n \in DOMAIN l.chansBy[d] : o.chansBy[d][Renamed[n]] = l.chansBy[d][n]
  BY OpenedIs
<1> HIDE DEF l, o, s, t
<1>3. l.axesBy \in MapsTo(Domains, Seq(Labels))
  BY <1>2, LayoutIs
<1> SUFFICES ASSUME NEW d \in DOMAIN l.axesBy, NEW n \in DOMAIN Get(l.chansBy, d, Empty),
                    l.chansBy[d][n] \in DOMAIN l.axesBy[d]
             PROVE  LabelOf(w', d, Renamed[n]) = l.axesBy[d][l.chansBy[d][n]]
  BY DEF l
<1> DEFINE axes == Get(o.axesBy, d, Empty)
           chans == Get(o.chansBy, d, Empty)
           r == MergeDomain(s.by[d], axes, chans)
           m == Renamed[n]
           k == l.chansBy[d][n]
<1>4. d \in Domains /\ l.axesBy[d] \in Seq(Labels)
  BY <1>3, MapIs
<1>5. d \in DOMAIN l.chansBy /\ n \in DOMAIN l.chansBy[d]
  BY EmptyIs DEF Get
<1>6. axes = l.axesBy[d] /\ chans = o.chansBy[d] /\ m \in DOMAIN chans /\ chans[m] = k
  BY <1>2, <1>5 DEF Get
<1>7. axes \in Seq(Labels) /\ chans \in Indices
  BY <1>2, LayoutIs
<1>8. w'.by[d] = r /\ s.by[d] \in DomainState
  BY <1>1, <1>4
<1> HIDE DEF axes, chans, m, k
<1>9. k \in DOMAIN axes
  BY <1>6 DEF k
<1>10. /\ r \in DomainState /\ m \in DOMAIN r.rows
       /\ r.rows[m].axis \in DOMAIN r.axes /\ r.axes[r.rows[m].axis] = axes[k]
  BY <1>6, <1>7, <1>8, <1>9, MergeIs
<1> HIDE DEF r
<1>11. r.axes \in Seq(Labels) \ {Empty} /\ r.rows[m].axis \in Nat \ {0}
  <2>1. r.axes \in Seq(Labels) /\ r.rows \in Places
    BY <1>10 DEF DomainState
  <2> QED BY <1>10, <2>1, PlacesAre, EmptyIs
<1>12. LabelOf(w', d, m) = LabelOn(r.axes, r.rows[m].axis)
  BY <1>1, <1>4, <1>8, <1>10, <1>11, ShownLabel
<1>13. LabelOn(r.axes, r.rows[m].axis) = axes[k]
  BY <1>10, <1>11, AxesAre DEF LabelOn
<1> QED BY <1>6, <1>12, <1>13 DEF m, k

LEMMA SplitStep ==
  ASSUME IInv, NEW d \in Domains, OpenChart, w.combo = NoName, w.x = NoName,
         DOMAIN disk.json.axesBy = {d}
  PROVE  activeDomain(w') = d
<1> DEFINE l == layoutFromJson(disk.json)
           o == OpenedLayout
           t == StoreAddAll(w, Fresh)
           j == disk.json
<1>1. j.view = d \/ (j.view = "xy" /\ j.x \in ChannelsOf(disk.chans, d))
  BY HoldsIs DEF Holds, FileOf, OpenChart
<1>2. o.view = j.view /\ o.x = Get(Renamed, j.x, j.x)
  BY OpenedIs
<1>3. /\ w'.chans = t.chans /\ w'.view = o.view
      /\ o.view = "xy" => w'.x = LET prev == IF t.combo = NoName THEN o.x ELSE t.combo
                                 IN  IF prev \in DOMAIN t.chans THEN prev ELSE NoName
      /\ DOMAIN t.chans = DOMAIN w.chans \cup DOMAIN Fresh
      /\ \A n \in DOMAIN t.chans : t.chans[n] = IF n \in DOMAIN Fresh THEN Fresh[n] ELSE w.chans[n]
      /\ t.combo = NoName
  BY OpenStep
<1>4. /\ Renamed \in [DOMAIN disk.chans -> Names]
      /\ DOMAIN Fresh = {Renamed[n] : n \in DOMAIN disk.chans}
      /\ \A n \in DOMAIN disk.chans : Fresh[Renamed[n]] = disk.chans[n]
  BY FreshIs
<1> HIDE DEF o, t, j
<1>5. CASE j.view = d
  BY <1>2, <1>3, <1>5 DEF activeDomain, Domains
<1>6. CASE j.view = "xy" /\ j.x \in ChannelsOf(disk.chans, d)
  <2>1. j.x \in DOMAIN disk.chans /\ disk.chans[j.x] = d
    BY <1>6 DEF ChannelsOf
  <2>2. o.x = Renamed[j.x] /\ o.x \in DOMAIN Fresh /\ Fresh[o.x] = d
    BY <1>2, <1>4, <2>1 DEF Get
  <2>3. w'.x = o.x /\ o.x \in DOMAIN t.chans /\ t.chans[o.x] = d
    BY <1>2, <1>3, <1>6, <2>2
  <2> QED BY <1>2, <1>3, <1>6, <2>3 DEF activeDomain, Get
<1> QED BY <1>1, <1>5, <1>6

LEMMA LoadStep ==
  ASSUME IInv, LoadLayout
  PROVE  LET j == disk.json
             flat == IF j.view = "frequency" /\ j.axesBy # Empty THEN "frequency" ELSE "time"
         IN  \A n \in DOMAIN j.chans :
               j.chans[n] \in DOMAIN j.axes => LabelOf(w', flat, n) = j.axes[j.chans[n]]
<1> DEFINE j == disk.json
           flat == IF j.view = "frequency" /\ j.axesBy # Empty THEN "frequency" ELSE "time"
           l == layoutFromJson(j)
<1> SUFFICES ASSUME NEW n \in DOMAIN j.chans, j.chans[n] \in DOMAIN j.axes
             PROVE  LabelOf(w', flat, n) = j.axes[j.chans[n]]
  OBVIOUS
<1>1. Sound(w) /\ j \in Json /\ FileOf(disk)
  BY HoldsIs DEF Holds, File
<1>2. j.axes \in Seq(Labels) \ {Empty} /\ j.chans \in Indices /\ j.chans # Empty
  <2>1. j.axes \in Seq(Labels) /\ j.chans \in Indices
    BY <1>1 DEF Json
  <2> QED BY <2>1, EmptyIs
<1>3. flat \in Domains
  BY DEF Domains
<1>4. Get(l.axesBy, flat, Empty) = j.axes /\ Get(l.chansBy, flat, Empty) = j.chans
  <2>1. CASE j.axesBy # Empty
    <3>1. flat = IF j.view = "frequency" THEN "frequency" ELSE "time"
      BY <2>1
    <3>2. j.axes = Get(j.axesBy, flat, Empty) /\ j.chans = Get(j.chansBy, flat, Empty)
      BY <1>1, <2>1, <3>1 DEF FileOf
    <3>3. j.chansBy # Empty
      BY <1>2, <3>2, EmptyIs DEF Get
    <3>4. l.axesBy = j.axesBy /\ l.chansBy = j.chansBy
      BY <2>1, <3>3 DEF layoutFromJson
    <3> QED BY <3>2, <3>4
  <2>2. CASE j.axesBy = Empty
    <3>1. j.chansBy = Empty
      BY <1>1, <1>2, <2>2 DEF FileOf
    <3>2. l.axesBy = Only("time", j.axes) /\ l.chansBy = Only("time", j.chans)
      BY <1>2, <2>2, <3>1 DEF layoutFromJson
    <3> QED BY <2>2, <3>2 DEF Get, Only
  <2> QED BY <2>1, <2>2
<1>5. w' = ApplyReplacing(w, l)
  BY DEF LoadLayout, Edit
<1>6. l \in Layout
  BY <1>1, FromJsonIs
<1> HIDE DEF l, flat, j
<1> DEFINE v == ApplyReplacing(w, l)
<1>7. /\ Sound(v) /\ RowsFollow(v)
      /\ v.on = activeDomain(v) /\ v.saved = v.by[v.on].rows
      /\ v.by[v.on].axes # Empty => v.axes = v.by[v.on].axes
      /\ \A d \in Domains :
           /\ v.by[d].axes = Get(l.axesBy, d, Empty)
           /\ DOMAIN v.by[d].rows = DOMAIN Get(l.chansBy, d, Empty)
           /\ \A m \in DOMAIN v.by[d].rows : v.by[d].rows[m].axis = Get(l.chansBy, d, Empty)[m]
  BY <1>1, <1>6, ReplacingIs DEF Sound
<1> HIDE DEF v
<1>8. OnScreen(v)
  BY <1>7 DEF OnScreen
<1>9. v.by[flat].axes = j.axes /\ n \in DOMAIN v.by[flat].rows /\ v.by[flat].rows[n].axis = j.chans[n]
  BY <1>3, <1>4, <1>7
<1>10. LabelOf(v, flat, n) = LabelOn(j.axes, j.chans[n])
  BY <1>2, <1>3, <1>8, <1>9, ShownLabel
<1>11. j.chans[n] \in Nat \ {0}
  BY <1>2, MapIs DEF Indices
<1>12. LabelOn(j.axes, j.chans[n]) = j.axes[j.chans[n]]
  BY <1>2, <1>11, AxesAre DEF LabelOn
<1> QED BY <1>5, <1>10, <1>12 DEF v

LEMMA FilesStep == IInv => MergeKeepsPlacement /\ LoadHonoursFile /\ SplitFileShowsItsDomain
<1> SUFFICES ASSUME IInv PROVE MergeKeepsPlacement /\ LoadHonoursFile /\ SplitFileShowsItsDomain
  OBVIOUS
<1>1. MergeKeepsPlacement
  BY OthersStay, OpenedPlaced DEF MergeKeepsPlacement
<1>2. LoadHonoursFile
  BY LoadStep DEF LoadHonoursFile
<1>3. SplitFileShowsItsDomain
  BY SplitStep DEF SplitFileShowsItsDomain
<1> QED BY <1>1, <1>2, <1>3

\* A file is honoured: a chart opened next to another leaves its channels on their
\* axes and puts its own on the axes it names, a layout file of either version
\* gives back what it was written from, and a file of one domain opens in a view
\* that shows it.
THEOREM FilesAreHonoured == Spec => FileAxesHonoured
<1> DEFINE A == MergeKeepsPlacement /\ LoadHonoursFile /\ SplitFileShowsItsDomain
<1>1. IInv => A
  BY FilesStep
<1>2. FileAxesHonoured <=> [][A]_vars
  BY DEF FileAxesHonoured
<1> HIDE DEF A
<1>3. IInv /\ [Next]_vars => [A]_vars
  BY <1>1
<1> QED BY <1>2, <1>3, Invariant, PTL DEF Spec
=============================================================================
