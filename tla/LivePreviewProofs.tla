------------------------- MODULE LivePreviewProofs -------------------------
(***************************************************************************)
(* The Recorder's live preview, for any channels, labels and layouts and   *)
(* any number of axes, measurements, recordings and edits: what refers to   *)
(* an axis never loses it, the measurement table keeps its height, the view  *)
(* follows the recording, and layouts and hand-set ranges are honoured.      *)
(***************************************************************************)
EXTENDS LivePreview, FiniteSetTheorems, FunctionTheorems, SequenceTheorems,
        NaturalsInduction, WellFoundedInduction, TLAPS

-----------------------------------------------------------------------------
(* Numbers and sequences                                                    *)

LEMMA LeastExists ==
  ASSUME NEW S, S \subseteq Nat, S # {}
  PROVE  \E x \in S : \A y \in S : x <= y
<1> DEFINE R == {ss \in Nat \X Nat : ss[1] < ss[2]}
<1>1. IsWellFoundedOn(R, Nat)
  BY NatLessThanWellFounded DEF OpToRel
<1>2. \A x, y \in Nat : <<y, x>> \in R <=> y < x
  OBVIOUS
<1> HIDE DEF R
<1>3. PICK x \in S : \A y \in S : ~ (<<y, x>> \in R)
  BY <1>1, WFMin
<1>4. ASSUME NEW y \in S PROVE x <= y
  <2>1. ~ (y < x)
    BY <1>2, <1>3, Zenon
  <2> QED BY <2>1
<1> QED BY <1>4

LEMMA MinIsMember ==
  ASSUME NEW S, S \subseteq Nat, S # {}
  PROVE  Min(S) \in S /\ \A y \in S : Min(S) <= y
<1>1. PICK x \in S : \A y \in S : x <= y
  BY LeastExists
<1> QED BY <1>1 DEF Min

LEMMA MaxIsMember ==
  ASSUME NEW n \in Nat, NEW S, S \subseteq 0 .. n, S # {}
  PROVE  Max(S) \in S /\ \A y \in S : y <= Max(S)
<1> DEFINE T == {n - x : x \in S}
<1>1. T \subseteq Nat /\ T # {}
  <2>1. \A x \in S : x \in 0 .. n
    OBVIOUS
  <2>2. \A x \in S : n - x \in Nat
    BY <2>1
  <2>3. PICK x \in S : TRUE
    OBVIOUS
  <2>4. n - x \in T
    BY <2>3
  <2> QED BY <2>2, <2>4
<1>2. PICK t \in T : \A y \in T : t <= y
  BY <1>1, LeastExists
<1>3. PICK x \in S : t = n - x
  OBVIOUS
<1>4. \A y \in S : n - x <= n - y
  BY <1>2, <1>3
<1>5. \A y \in S : x >= y
  BY <1>4
<1>6. Max(S) \in S /\ \A y \in S : Max(S) >= y
  BY <1>5 DEF Max
<1> QED BY <1>6

LEMMA RemoveAtIs ==
  ASSUME NEW S, NEW s \in Seq(S), NEW i \in DOMAIN s
  PROVE  /\ RemoveAt(s, i) \in Seq(S) /\ Len(RemoveAt(s, i)) = Len(s) - 1
         /\ \A j \in 1 .. Len(s) - 1 : RemoveAt(s, i)[j] = IF j < i THEN s[j] ELSE s[j + 1]
<1> DEFINE a == SubSeq(s, 1, i - 1)
           b == SubSeq(s, i + 1, Len(s))
<1>1. Len(s) \in Nat /\ i \in 1 .. Len(s) /\ \A j \in 1 .. Len(s) : s[j] \in S
  BY LenProperties, ElementOfSeq
<1>2. /\ a \in Seq(S) /\ Len(a) = i - 1 /\ \A j \in 1 .. i - 1 : a[j] = s[j]
  <2>1. \A j \in 1 .. i - 1 : s[j] \in S
    BY <1>1
  <2>2. /\ a \in Seq(S) /\ Len(a) = IF 1 <= i - 1 THEN (i - 1) - 1 + 1 ELSE 0
        /\ \A j \in 1 .. (i - 1) - 1 + 1 : a[j] = s[1 + j - 1]
    BY <1>1, <2>1, SubSeqProperties
  <2> HIDE DEF a
  <2> QED BY <1>1, <2>2
<1>3. /\ b \in Seq(S) /\ Len(b) = Len(s) - i /\ \A j \in 1 .. Len(s) - i : b[j] = s[i + j]
  <2>1. \A j \in i + 1 .. Len(s) : s[j] \in S
    BY <1>1
  <2>2. /\ b \in Seq(S) /\ Len(b) = IF i + 1 <= Len(s) THEN Len(s) - (i + 1) + 1 ELSE 0
        /\ \A j \in 1 .. Len(s) - (i + 1) + 1 : b[j] = s[(i + 1) + j - 1]
    BY <1>1, <2>1, SubSeqProperties
  <2> HIDE DEF b
  <2> QED BY <1>1, <2>2
<1> HIDE DEF a, b
<1>4. /\ a \o b \in Seq(S) /\ Len(a \o b) = Len(s) - 1
      /\ \A j \in 1 .. Len(s) - 1 : (a \o b)[j] = IF j < i THEN s[j] ELSE s[j + 1]
  <2>1. /\ a \o b \in Seq(S) /\ Len(a \o b) = Len(a) + Len(b)
        /\ \A j \in 1 .. Len(a) + Len(b) : (a \o b)[j] = IF j <= Len(a) THEN a[j] ELSE b[j - Len(a)]
    BY <1>2, <1>3, ConcatProperties
  <2>2. Len(a) + Len(b) = Len(s) - 1
    BY <1>1, <1>2, <1>3
  <2>3. ASSUME NEW j \in 1 .. Len(s) - 1, j < i PROVE (a \o b)[j] = s[j]
    <3>1. j \in 1 .. i - 1 /\ j <= Len(a) /\ j \in 1 .. Len(a) + Len(b)
      BY <1>1, <1>2, <2>2, <2>3
    <3> QED BY <1>2, <2>1, <3>1
  <2>4. ASSUME NEW j \in 1 .. Len(s) - 1, ~(j < i) PROVE (a \o b)[j] = s[j + 1]
    <3>1. /\ j - Len(a) \in 1 .. Len(s) - i /\ ~(j <= Len(a)) /\ j \in 1 .. Len(a) + Len(b)
          /\ i + (j - Len(a)) = j + 1
      BY <1>1, <1>2, <2>2, <2>4
    <3> QED BY <1>3, <2>1, <3>1
  <2> QED BY <2>1, <2>2, <2>3, <2>4
<1> QED BY <1>4 DEF RemoveAt, a, b

LEMMA AppendIs ==
  ASSUME NEW S, NEW s \in Seq(S), NEW x \in S
  PROVE  /\ Append(s, x) \in Seq(S) /\ Len(Append(s, x)) = Len(s) + 1
         /\ \A j \in 1 .. Len(s) : Append(s, x)[j] = s[j]
         /\ Append(s, x)[Len(s) + 1] = x
  OBVIOUS

-----------------------------------------------------------------------------
(* The axis list                                                            *)

\* b is the axis list a with other flags and ranges.
Redrawn(a, b) ==
  /\ b \in Seq(Axis) /\ Len(b) = Len(a)
  /\ \A i \in 1 .. Len(a) : b[i].id = a[i].id /\ b[i].label = a[i].label

LEMMA AxisListIs ==
  ASSUME NEW a, IsAxisList(a)
  PROVE  /\ a \in Seq(Axis) /\ Len(a) \in 1 .. MaxAxes /\ DOMAIN a = 1 .. Len(a)
         /\ \A i \in 1 .. Len(a) : a[i] \in Axis /\ a[i].id \in AxisIds
         /\ \A i, j \in 1 .. Len(a) : a[i].id = a[j].id => i = j
<1>1. a \in Seq(Axis) /\ Len(a) \in 1 .. MaxAxes /\ DOMAIN a = 1 .. Len(a)
  BY LenProperties DEF IsAxisList
<1>2. \A i \in 1 .. Len(a) : a[i] \in Axis
  BY <1>1, ElementOfSeq
<1>3. \A x \in Axis : x.id \in AxisIds
  BY DEF Axis
<1> QED BY <1>1, <1>2, <1>3 DEF IsAxisList

LEMMA RedrawnList ==
  ASSUME NEW a, IsAxisList(a), NEW b, Redrawn(a, b)
  PROVE  IsAxisList(b)
<1>1. DOMAIN a = 1 .. Len(a) /\ DOMAIN b = 1 .. Len(a)
  BY LenProperties DEF IsAxisList, Redrawn
<1> QED BY <1>1 DEF IsAxisList, Redrawn

LEMMA RedrawnTwice ==
  ASSUME NEW a, NEW b, NEW c, Redrawn(a, b), Redrawn(b, c)
  PROVE  Redrawn(a, c)
  BY DEF Redrawn

\* Any redrawing of the axes one by one.
LEMMA RedrawnEach ==
  ASSUME NEW a, IsAxisList(a), NEW b, b = [i \in DOMAIN a |-> b[i]],
         \A i \in DOMAIN a : b[i] \in Axis /\ b[i].id = a[i].id /\ b[i].label = a[i].label
  PROVE  Redrawn(a, b)
<1>1. DOMAIN a = 1 .. Len(a) /\ Len(a) \in Nat
  BY LenProperties DEF IsAxisList
<1>2. b = [i \in 1 .. Len(a) |-> b[i]] /\ \A i \in 1 .. Len(a) : b[i] \in Axis
  BY <1>1
<1>3. b \in Seq(Axis) /\ Len(b) = Len(a)
  BY <1>1, <1>2
<1> QED BY <1>1, <1>3 DEF Redrawn

LEMMA RangedIs ==
  ASSUME NEW ax \in Axis, NEW who \in {"auto", "user"}, NEW moved
  PROVE  /\ Ranged(ax, who, moved) \in Axis
         /\ Ranged(ax, who, moved).id = ax.id /\ Ranged(ax, who, moved).label = ax.label
         /\ Ranged(ax, who, moved).range = who
<1> DEFINE b == ax.fit /\ ~(mouse = "drag" /\ ax.id \in moved)
<1>1. b \in BOOLEAN
  BY Zenon
<1>2. Ranged(ax, who, moved) = [ax EXCEPT !.range = who, !.fit = b]
  BY DEF Ranged, Axis
<1> HIDE DEF b
<1> QED BY <1>1, <1>2 DEF Axis

\* rescaleAllYAxes() leaves an axis without auto-fit as it is.
LEMMA RescaleAllIs ==
  ASSUME NEW axs, IsAxisList(axs), NEW gs, NEW moved
  PROVE  /\ Redrawn(axs, rescaleAllYAxes(axs, gs, moved))
         /\ \A i \in DOMAIN axs : ~axs[i].fit => rescaleAllYAxes(axs, gs, moved)[i] = axs[i]
<1> DEFINE b == rescaleAllYAxes(axs, gs, moved)
<1>1. \A i \in DOMAIN axs : axs[i] \in Axis
  BY AxisListIs
<1>2. b = [i \in DOMAIN axs |-> b[i]]
  BY DEF rescaleAllYAxes
<1>3. \A i \in DOMAIN axs : b[i] = IF axs[i].fit /\ ShowsData(gs, axs[i])
                                  THEN Ranged(axs[i], "auto", moved) ELSE axs[i]
  BY DEF rescaleAllYAxes
<1> HIDE DEF b
<1>4. \A i \in DOMAIN axs : b[i] \in Axis /\ b[i].id = axs[i].id /\ b[i].label = axs[i].label
  BY <1>1, <1>3, RangedIs
<1>5. Redrawn(axs, b)
  BY <1>2, <1>4, RedrawnEach
<1> QED BY <1>3, <1>5 DEF b

LEMMA RescaleWindowIs ==
  ASSUME NEW axs, IsAxisList(axs), NEW gs, NEW lo, NEW hi, NEW moved
  PROVE  Redrawn(axs, rescaleYAxesToWindow(axs, gs, lo, hi, moved))
<1> DEFINE b == rescaleYAxesToWindow(axs, gs, lo, hi, moved)
<1>1. \A i \in DOMAIN axs : axs[i] \in Axis
  BY AxisListIs
<1>2. b = [i \in DOMAIN axs |-> b[i]]
  BY DEF rescaleYAxesToWindow
<1>3. \A i \in DOMAIN axs : b[i] = Ranged(axs[i], "auto", moved) \/ b[i] = axs[i]
  BY DEF rescaleYAxesToWindow
<1> HIDE DEF b
<1>4. \A i \in DOMAIN axs : b[i] \in Axis /\ b[i].id = axs[i].id /\ b[i].label = axs[i].label
  BY <1>1, <1>3, RangedIs
<1> QED BY <1>2, <1>4, RedrawnEach DEF b

LEMMA FitAllIs ==
  ASSUME NEW axs, IsAxisList(axs), NEW gs, NEW moved
  PROVE  Redrawn(axs, FitAllAxes(axs, gs, moved))
<1> DEFINE b == [i \in DOMAIN axs |-> [axs[i] EXCEPT !.fit = TRUE]]
<1>1. \A i \in DOMAIN axs : axs[i] \in Axis
  BY AxisListIs
<1>2. b = [i \in DOMAIN axs |-> b[i]]
  OBVIOUS
<1>3. \A i \in DOMAIN axs : b[i] \in Axis /\ b[i].id = axs[i].id /\ b[i].label = axs[i].label
  BY <1>1 DEF Axis
<1> HIDE DEF b
<1>4. Redrawn(axs, b)
  BY <1>2, <1>3, RedrawnEach
<1>5. Redrawn(b, rescaleAllYAxes(b, gs, moved))
  BY <1>4, RedrawnList, RescaleAllIs
<1>6. Redrawn(axs, rescaleAllYAxes(b, gs, moved))
  BY <1>4, <1>5, RedrawnTwice
<1> QED BY <1>6 DEF FitAllAxes, b

LEMMA ByHandIs ==
  ASSUME NEW axs, IsAxisList(axs), NEW S
  PROVE  Redrawn(axs, ByHand(axs, S))
<1> DEFINE b == ByHand(axs, S)
<1>1. \A i \in DOMAIN axs : axs[i] \in Axis
  BY AxisListIs
<1>2. b = [i \in DOMAIN axs |-> b[i]]
  BY DEF ByHand
<1>3. \A i \in DOMAIN axs : b[i] = IF i \in S THEN [axs[i] EXCEPT !.fit = FALSE, !.range = "user"]
                                  ELSE axs[i]
  BY DEF ByHand
<1> HIDE DEF b
<1>4. \A i \in DOMAIN axs : b[i] \in Axis /\ b[i].id = axs[i].id /\ b[i].label = axs[i].label
  BY <1>1, <1>3 DEF Axis
<1> QED BY <1>2, <1>4, RedrawnEach DEF b

\* addYAxis(): as long as there is room an identity is free.
LEMMA FreeIdIs ==
  ASSUME IsAxisList(axes), Len(axes) < MaxAxes
  PROVE  FreeId \in AxisIds /\ \A i \in Indices : axes[i].id # FreeId
<1> DEFINE ids == {axes[i].id : i \in Indices}
           ptr == [i \in Indices |-> axes[i].id]
<1>1. /\ Len(axes) \in Nat /\ MaxAxes \in Nat
      /\ \A i \in Indices : axes[i].id \in AxisIds
  BY AxisListIs, PlotAssumption DEF Indices
<1>2. /\ IsFiniteSet(Indices) /\ Cardinality(Indices) = Len(axes)
      /\ IsFiniteSet(AxisIds) /\ Cardinality(AxisIds) = MaxAxes
  <2>0. \A k \in Nat : IsFiniteSet(1 .. k) /\ Cardinality(1 .. k) = k
    BY FS_Interval
  <2>1. IsFiniteSet(1 .. Len(axes)) /\ Cardinality(1 .. Len(axes)) = Len(axes)
    BY <1>1, <2>0
  <2>2. IsFiniteSet(1 .. MaxAxes) /\ Cardinality(1 .. MaxAxes) = MaxAxes
    BY <1>1, <2>0
  <2> QED BY <2>1, <2>2 DEF Indices, AxisIds
<1>3. ptr \in Surjection(Indices, ids)
  BY DEF Surjection
<1>4. IsFiniteSet(ids) /\ Cardinality(ids) <= Len(axes)
  BY <1>2, <1>3, FS_Surjection
<1>5. ids # AxisIds
  <2> HIDE DEF ids
  <2>1. Cardinality(ids) \in Nat
    BY <1>4, FS_CardinalityType
  <2>2. Cardinality(ids) # MaxAxes
    BY <1>1, <1>4, <2>1
  <2> QED BY <1>2, <2>2
<1>6. ids \subseteq AxisIds
  BY <1>1
<1>7. AxisIds \ ids # {} /\ AxisIds \ ids \subseteq Nat
  BY <1>5, <1>6 DEF AxisIds
<1> HIDE DEF ids
<1>8. Min(AxisIds \ ids) \in AxisIds \ ids
  BY <1>7, MinIsMember
<1>9. FreeId \in AxisIds \ ids
  BY <1>8 DEF FreeId, ids
<1> QED BY <1>9 DEF ids

LEMMA AddedIs ==
  ASSUME IsAxisList(axes), Len(axes) < MaxAxes, NEW label \in Labels
  PROVE  LET b == Append(axes, NewAxis(FreeId, label))
         IN  /\ IsAxisList(b) /\ Len(b) = Len(axes) + 1
             /\ \A i \in Indices : b[i] = axes[i]
             /\ b[Len(axes) + 1].id = FreeId
<1> DEFINE n == NewAxis(FreeId, label)
           b == Append(axes, n)
<1>1. FreeId \in AxisIds /\ \A i \in Indices : axes[i].id # FreeId
  BY FreeIdIs
<1>2. n \in Axis /\ n.id = FreeId
  BY <1>1 DEF NewAxis, Axis
<1>3. /\ axes \in Seq(Axis) /\ Len(axes) \in 1 .. MaxAxes /\ Len(axes) \in Nat
      /\ \A i, j \in 1 .. Len(axes) : axes[i].id = axes[j].id => i = j
  BY AxisListIs
<1> HIDE DEF n
<1>4. /\ b \in Seq(Axis) /\ Len(b) = Len(axes) + 1
      /\ \A i \in 1 .. Len(axes) : b[i] = axes[i]
      /\ b[Len(axes) + 1] = n
  BY <1>2, <1>3, AppendIs
<1> HIDE DEF b
<1>5. DOMAIN b = 1 .. Len(axes) + 1 /\ Len(b) \in 1 .. MaxAxes
  BY <1>3, <1>4, PlotAssumption, LenProperties
<1>6. \A i \in 1 .. Len(axes) : b[i].id # b[Len(axes) + 1].id
  BY <1>1, <1>2, <1>4 DEF Indices
<1>7. \A i \in DOMAIN b : i \in 1 .. Len(axes) \/ i = Len(axes) + 1
  BY <1>3, <1>5
<1>8. \A i, j \in DOMAIN b : b[i].id = b[j].id => i = j
  BY <1>3, <1>4, <1>6, <1>7
<1>9. IsAxisList(b)
  BY <1>4, <1>5, <1>8 DEF IsAxisList
<1> QED BY <1>2, <1>4, <1>9 DEF b, n, Indices

\* removeYAxis(): the other axes keep their identities and close up.
LEMMA RemovedIs ==
  ASSUME IsAxisList(axes), NEW i \in Indices, i # 1
  PROVE  /\ IsAxisList(RemoveAt(axes, i)) /\ Len(RemoveAt(axes, i)) = Len(axes) - 1
         /\ \A j \in DOMAIN RemoveAt(axes, i) : \E k \in Indices : k # i /\ RemoveAt(axes, i)[j] = axes[k]
         /\ \A k \in Indices : k # i => \E j \in DOMAIN RemoveAt(axes, i) : RemoveAt(axes, i)[j] = axes[k]
<1> DEFINE b == RemoveAt(axes, i)
           up(j) == IF j < i THEN j ELSE j + 1
<1>1. /\ axes \in Seq(Axis) /\ Len(axes) \in 1 .. MaxAxes /\ DOMAIN axes = 1 .. Len(axes)
      /\ Len(axes) \in Nat /\ i \in 1 .. Len(axes)
      /\ \A j, k \in 1 .. Len(axes) : axes[j].id = axes[k].id => j = k
  BY AxisListIs DEF Indices
<1>2. /\ b \in Seq(Axis) /\ Len(b) = Len(axes) - 1
      /\ \A j \in 1 .. Len(axes) - 1 : b[j] = IF j < i THEN axes[j] ELSE axes[j + 1]
  BY <1>1, RemoveAtIs
<1>3. DOMAIN b = 1 .. Len(axes) - 1
  BY <1>2, LenProperties
<1> HIDE DEF b
<1>4. Len(b) \in 1 .. MaxAxes
  BY <1>1, <1>2, PlotAssumption
<1>5. \A j \in DOMAIN b : up(j) \in 1 .. Len(axes) /\ up(j) # i /\ b[j] = axes[up(j)]
  BY <1>1, <1>2, <1>3
<1>6. \A j, k \in DOMAIN b : up(j) = up(k) => j = k
  BY <1>1, <1>3
<1>7. ASSUME NEW k \in 1 .. Len(axes), k # i PROVE \E j \in DOMAIN b : b[j] = axes[k]
  <2>1. CASE k < i
    <3>1. k \in 1 .. Len(axes) - 1
      BY <1>1, <2>1
    <3> QED BY <1>2, <1>3, <2>1, <3>1
  <2>2. CASE ~(k < i)
    <3>1. k - 1 \in 1 .. Len(axes) - 1 /\ ~(k - 1 < i) /\ (k - 1) + 1 = k
      BY <1>1, <1>7, <2>2
    <3>2. b[k - 1] = axes[k]
      BY <1>2, <3>1
    <3> QED BY <1>3, <3>1, <3>2
  <2> QED BY <2>1, <2>2
<1> HIDE DEF up
<1>8. \A j, k \in DOMAIN b : b[j].id = b[k].id => j = k
  BY <1>1, <1>5, <1>6
<1>9. IsAxisList(b)
  BY <1>2, <1>4, <1>8 DEF IsAxisList
<1>10. \A j \in DOMAIN b : \E k \in Indices : k # i /\ b[j] = axes[k]
  BY <1>5 DEF Indices
<1>11. \A k \in Indices : k # i => \E j \in DOMAIN b : b[j] = axes[k]
  BY <1>7 DEF Indices
<1> QED BY <1>2, <1>9, <1>10, <1>11 DEF b

\* The axis list that a layout leaves: Y1 is the axis it was.
LEMMA LaidOutIs ==
  ASSUME IsAxisList(axes), NEW l, IsLayout(l)
  PROVE  /\ IsAxisList(LaidOut(l)) /\ Len(LaidOut(l)) = Larger(1, Len(l.axes))
         /\ LaidOut(l)[1].id = axes[1].id
         /\ \A i \in 1 .. Len(l.axes) : LaidOut(l)[i].label = l.axes[i]
<1> DEFINE S == AxisIds \ {axes[1].id}
           free == SetToSeq(S)
           n == Larger(1, Len(l.axes))
           lab(i) == IF i <= Len(l.axes) THEN l.axes[i] ELSE axes[1].label
           b == LaidOut(l)
<1>1. /\ l.axes \in Seq(Labels) /\ Len(l.axes) \in Nat /\ Len(l.axes) <= MaxAxes
      /\ MaxAxes \in Nat /\ MaxAxes >= 1 /\ \A i \in 1 .. Len(l.axes) : l.axes[i] \in Labels
  BY PlotAssumption, LenProperties, ElementOfSeq DEF IsLayout
<1>2. n \in 1 .. MaxAxes /\ Len(l.axes) <= n
  BY <1>1 DEF Larger
<1>3. 1 \in 1 .. Len(axes) /\ axes[1] \in Axis /\ axes[1].id \in AxisIds
  <2>1. Len(axes) \in 1 .. MaxAxes /\ \A i \in 1 .. Len(axes) : axes[i] \in Axis /\ axes[i].id \in AxisIds
    BY AxisListIs
  <2>2. 1 \in 1 .. Len(axes)
    BY <2>1
  <2> QED BY <2>1, <2>2
<1>4. IsFiniteSet(S) /\ Cardinality(S) = MaxAxes - 1
  <2>1. IsFiniteSet(AxisIds) /\ Cardinality(AxisIds) = MaxAxes
    BY <1>1, FS_Interval DEF AxisIds
  <2> QED BY <1>3, <2>1, FS_RemoveElement
<1>5. free \in [1 .. Cardinality(S) -> S] /\ IsInjective(free)
  <2>1. PICK f \in Bijection(1 .. Cardinality(S), S) : TRUE
    BY <1>4, FS_CardinalityType DEF ExistsBijection
  <2>2. f \in [1 .. Cardinality(S) -> S] /\ IsInjective(f)
    BY <2>1 DEF Bijection, Injection, IsInjective
  <2> QED BY <2>2 DEF SetToSeq
<1>6. b = [i \in 1 .. n |->
            IF i = 1
            THEN [axes[1] EXCEPT !.label = lab(1), !.range = IF l.axes = << >> THEN @ ELSE "user"]
            ELSE [NewAxis(free[i - 1], lab(i)) EXCEPT !.range = "user"]]
  BY DEF LaidOut
<1> HIDE DEF b, free
<1>7. \A i \in 1 .. n : lab(i) \in Labels
  BY <1>1, <1>2, <1>3 DEF Axis
<1>8. b[1] \in Axis /\ b[1].id = axes[1].id /\ b[1].label = lab(1)
  <2> DEFINE who == IF l.axes = << >> THEN axes[1].range ELSE "user"
  <2>1. b[1] = [axes[1] EXCEPT !.label = lab(1), !.range = who]
    BY <1>2, <1>3, <1>6 DEF Axis
  <2>2. who \in {"auto", "user"} /\ lab(1) \in Labels
    BY <1>2, <1>3, <1>7 DEF Axis
  <2> HIDE DEF who, lab
  <2> QED BY <1>3, <2>1, <2>2 DEF Axis
<1>9. ASSUME NEW i \in 1 .. n, i # 1
      PROVE  b[i] \in Axis /\ b[i].id = free[i - 1] /\ free[i - 1] \in S /\ b[i].label = lab(i)
             /\ i - 1 \in 1 .. Cardinality(S)
  <2>1. i - 1 \in 1 .. Cardinality(S)
    BY <1>1, <1>2, <1>4, <1>9
  <2>2. free[i - 1] \in S
    BY <1>5, <2>1
  <2>3. b[i] = [NewAxis(free[i - 1], lab(i)) EXCEPT !.range = "user"]
    BY <1>6, <1>9
  <2>4. lab(i) \in Labels
    BY <1>7
  <2> HIDE DEF lab
  <2>5. b[i] = [id |-> free[i - 1], label |-> lab(i), fit |-> TRUE, range |-> "user"]
    BY <2>3 DEF NewAxis
  <2> QED BY <2>1, <2>2, <2>4, <2>5 DEF Axis
<1>10. \A i \in 1 .. n : b[i] \in Axis /\ b[i].label = lab(i)
  BY <1>8, <1>9
<1>11. b \in Seq(Axis) /\ Len(b) = n /\ DOMAIN b = 1 .. n
  <2>1. b = [i \in 1 .. n |-> b[i]] /\ n \in Nat
    BY <1>2, <1>6
  <2>2. \A i \in 1 .. n : b[i] \in Axis
    BY <1>10
  <2> HIDE DEF n
  <2> QED BY <2>1, <2>2
<1>12. ASSUME NEW i \in 1 .. n, NEW j \in 1 .. n, i # j PROVE b[i].id # b[j].id
  <2>1. CASE i # 1 /\ j # 1
    <3>1. /\ b[i].id = free[i - 1] /\ i - 1 \in 1 .. Cardinality(S)
          /\ b[j].id = free[j - 1] /\ j - 1 \in 1 .. Cardinality(S)
      BY <1>9, <2>1
    <3>2. i - 1 # j - 1
      BY <1>2, <1>12
    <3>3. \A x, y \in 1 .. Cardinality(S) : free[x] = free[y] => x = y
      BY <1>5 DEF IsInjective
    <3> QED BY <3>1, <3>2, <3>3
  <2>2. CASE i = 1
    <3>1. b[j].id \in S
      BY <1>9, <1>12, <2>2
    <3> QED BY <1>8, <2>2, <3>1
  <2>3. CASE j = 1
    <3>1. b[i].id \in S
      BY <1>9, <1>12, <2>3
    <3> QED BY <1>8, <2>3, <3>1
  <2> QED BY <2>1, <2>2, <2>3
<1>13. IsAxisList(b)
  BY <1>2, <1>11, <1>12 DEF IsAxisList
<1>14. \A i \in 1 .. Len(l.axes) : b[i].label = l.axes[i]
  BY <1>1, <1>2, <1>10
<1> QED BY <1>8, <1>11, <1>13, <1>14 DEF b

-----------------------------------------------------------------------------
(* Rows and graphs                                                          *)

\* What NothingOnARemovedAxis says of the rows rs and the graphs gs.
RowsOn(rs, n) == \A c \in DOMAIN rs : rs[c].axis \in 1 .. n
Live(axs, gs) == \A c \in DOMAIN gs : \E i \in 1 .. Len(axs) : axs[i].id = gs[c].axis

LEMMA RowIs ==
  ASSUME NEW rs, IsRows(rs), NEW c \in DOMAIN rs
  PROVE  rs[c].axis \in AxisIds /\ rs[c].axis \in Nat /\ rs[c].axis >= 1 /\ rs[c].axis <= MaxAxes
<1>1. rs[c].axis \in AxisIds
  BY DEF IsRows
<1> QED BY <1>1, PlotAssumption DEF AxisIds

LEMMA LiveRedrawn ==
  ASSUME NEW a, NEW b, Redrawn(a, b), NEW gs, Live(a, gs),
         NEW hs, DOMAIN hs = DOMAIN gs, \A c \in DOMAIN gs : hs[c].axis = gs[c].axis
  PROVE  Live(b, hs)
  BY DEF Redrawn, Live

\* rebuildAxisCombos(): every combo on an axis of the list.
LEMMA CombosIs ==
  ASSUME NEW rs, IsRows(rs), NEW n \in 1 .. MaxAxes
  PROVE  /\ IsRows(rebuildAxisCombos(rs, n)) /\ RowsOn(rebuildAxisCombos(rs, n), n)
         /\ DOMAIN rebuildAxisCombos(rs, n) = DOMAIN rs
<1> DEFINE b == rebuildAxisCombos(rs, n)
<1>1. DOMAIN b = DOMAIN rs /\ b = [c \in DOMAIN rs |-> b[c]]
      /\ \A c \in DOMAIN rs : b[c] = [rs[c] EXCEPT !.axis = Lesser(rs[c].axis, n)]
  BY DEF rebuildAxisCombos
<1> HIDE DEF b
<1>2. ASSUME NEW c \in DOMAIN rs
      PROVE  b[c] \in [vis : BOOLEAN, axis : AxisIds] /\ b[c].axis \in 1 .. n
  <2>1. Lesser(rs[c].axis, n) \in 1 .. n /\ Lesser(rs[c].axis, n) \in AxisIds
    BY RowIs, PlotAssumption DEF Lesser, AxisIds
  <2>2. rs[c] \in [vis : BOOLEAN, axis : AxisIds]
    BY DEF IsRows
  <2> QED BY <1>1, <2>1, <2>2
<1>3. IsRows(b)
  BY <1>1, <1>2 DEF IsRows
<1>4. RowsOn(b, n)
  BY <1>1, <1>2 DEF RowsOn
<1> QED BY <1>1, <1>3, <1>4 DEF b

\* reapplyChannelAssignments(): the combos a layout leaves.
LEMMA ReassignedIs ==
  ASSUME NEW rs, IsRows(rs), NEW n \in 1 .. MaxAxes, RowsOn(rs, n), NEW l, IsLayout(l)
  PROVE  /\ IsRows(Reassigned(rs, l, n)) /\ RowsOn(Reassigned(rs, l, n), n)
         /\ DOMAIN Reassigned(rs, l, n) = DOMAIN rs
         /\ \A c \in DOMAIN rs \cap DOMAIN l.chans :
              l.chans[c] <= n => Reassigned(rs, l, n)[c].axis = l.chans[c]
<1> DEFINE b == Reassigned(rs, l, n)
<1>1. /\ DOMAIN b = DOMAIN rs /\ b = [c \in DOMAIN rs |-> b[c]]
      /\ \A c \in DOMAIN rs : b[c] = IF c \in DOMAIN l.chans
                                    THEN [rs[c] EXCEPT !.axis = Lesser(l.chans[c], n)] ELSE rs[c]
  BY DEF Reassigned
<1> HIDE DEF b
<1>2. ASSUME NEW c \in DOMAIN rs
      PROVE  /\ b[c] \in [vis : BOOLEAN, axis : AxisIds] /\ b[c].axis \in 1 .. n
             /\ c \in DOMAIN l.chans /\ l.chans[c] <= n => b[c].axis = l.chans[c]
  <2>1. rs[c] \in [vis : BOOLEAN, axis : AxisIds] /\ rs[c].axis \in 1 .. n
    BY DEF IsRows, RowsOn
  <2>2. CASE c \in DOMAIN l.chans
    <3>1. l.chans[c] \in AxisIds
      BY <2>2 DEF IsLayout
    <3>2. Lesser(l.chans[c], n) \in 1 .. n /\ Lesser(l.chans[c], n) \in AxisIds
          /\ (l.chans[c] <= n => Lesser(l.chans[c], n) = l.chans[c])
      BY <3>1, PlotAssumption DEF Lesser, AxisIds
    <3> QED BY <1>1, <2>1, <2>2, <3>2
  <2>3. CASE c \notin DOMAIN l.chans
    BY <1>1, <2>1, <2>3
  <2> QED BY <2>2, <2>3
<1>3. IsRows(b)
  BY <1>1, <1>2 DEF IsRows
<1>4. RowsOn(b, n)
  BY <1>1, <1>2 DEF RowsOn
<1> QED BY <1>1, <1>2, <1>3, <1>4 DEF b

\* The graphs follow the combos that changed.
LEMMA FollowIs ==
  ASSUME NEW axs, IsAxisList(axs), NEW gs, IsGraphs(gs), NEW old, NEW new, IsRows(new),
         DOMAIN new = DOMAIN gs, RowsOn(new, Len(axs))
  PROVE  /\ IsGraphs(FollowCombos(gs, old, new, axs))
         /\ DOMAIN FollowCombos(gs, old, new, axs) = DOMAIN gs
         /\ \A c \in DOMAIN gs : FollowCombos(gs, old, new, axs)[c].axis =
              IF new[c].axis # old[c].axis THEN axs[new[c].axis].id ELSE gs[c].axis
         /\ Live(axs, gs) => Live(axs, FollowCombos(gs, old, new, axs))
<1> DEFINE b == FollowCombos(gs, old, new, axs)
<1>1. /\ DOMAIN b = DOMAIN gs /\ b = [c \in DOMAIN gs |-> b[c]]
      /\ \A c \in DOMAIN gs : b[c] = IF new[c].axis # old[c].axis
                                    THEN [gs[c] EXCEPT !.axis = axs[new[c].axis].id] ELSE gs[c]
  BY DEF FollowCombos
<1> HIDE DEF b
<1>2. ASSUME NEW c \in DOMAIN gs
      PROVE  /\ new[c].axis \in 1 .. Len(axs) /\ axs[new[c].axis].id \in AxisIds
             /\ b[c] \in [axis : AxisIds, vis : BOOLEAN, data : Seq(Int)]
             /\ b[c].axis = IF new[c].axis # old[c].axis THEN axs[new[c].axis].id ELSE gs[c].axis
  <2>1. new[c].axis \in 1 .. Len(axs)
    BY DEF RowsOn
  <2>2. axs[new[c].axis].id \in AxisIds
    BY <2>1, AxisListIs
  <2>3. gs[c] \in [axis : AxisIds, vis : BOOLEAN, data : Seq(Int)]
    BY DEF IsGraphs
  <2> QED BY <1>1, <2>1, <2>2, <2>3
<1>3. IsGraphs(b)
  BY <1>1, <1>2 DEF IsGraphs
<1>4. Live(axs, gs) => Live(axs, b)
  BY <1>1, <1>2 DEF Live
<1> QED BY <1>1, <1>2, <1>3, <1>4 DEF b

LEMMA PickAxisIs ==
  ASSUME NEW axs, IsAxisList(axs), NEW u
  PROVE  pickAxisForUnit(axs, u) \in 1 .. Len(axs)
<1> DEFINE S == {i \in DOMAIN axs : axs[i].label = u}
<1>1. DOMAIN axs = 1 .. Len(axs) /\ 1 \in 1 .. Len(axs)
  BY AxisListIs
<1>2. CASE S # {}
  <2>1. S \subseteq Nat
    BY <1>1
  <2>2. Min(S) \in S
    BY <1>2, <2>1, MinIsMember
  <2> QED BY <1>1, <2>2 DEF pickAxisForUnit
<1>3. CASE S = {}
  BY <1>1, <1>3 DEF pickAxisForUnit
<1> QED BY <1>2, <1>3

\* An axis pointer of the list denotes the one index it is at.
LEMMA IndexIs ==
  ASSUME NEW axs, IsAxisList(axs), NEW i \in 1 .. Len(axs)
  PROVE  graphYAxisIndex(axs, axs[i].id) = i
<1>1. DOMAIN axs = 1 .. Len(axs) /\ \A j \in DOMAIN axs : axs[j].id = axs[i].id => j = i
  BY AxisListIs
<1> QED BY <1>1 DEF graphYAxisIndex

-----------------------------------------------------------------------------
(* The widget's own steps                                                   *)

\* Zooming, panning, fitting and the mouse: flags and ranges only.
LEMMA ViewStep ==
  ASSUME TypeOK,
         \/ fitAll \/ fitWindow \/ Wheel \/ togglePause \/ MousePress \/ MouseDrag \/ MouseRelease
         \/ \E i \in Indices : setAxisRange(i) \/ autoScaleAxis(i)
  PROVE  /\ Redrawn(axes, axes') /\ UNCHANGED <<graph, measureVars>>
         /\ mouse' \in {"up", "drag", "region"} /\ paused' \in BOOLEAN
<1>t. IsAxisList(axes) /\ mouse \in {"up", "drag", "region"} /\ paused \in BOOLEAN
  BY DEF TypeOK
<1>0. Redrawn(axes, axes)
  BY <1>t, AxisListIs DEF Redrawn
<1>z. ASSUME NEW x, NEW ys, Zoomed(x, ys) PROVE Redrawn(axes, axes') /\ UNCHANGED graph
  BY <1>t, <1>z, ByHandIs DEF Zoomed
<1>1. CASE fitAll
  BY <1>t, <1>1, FitAllIs DEF fitAll
<1>2. CASE fitWindow
  BY <1>t, <1>2, RescaleWindowIs DEF fitWindow
<1>3. CASE Wheel
  <2>1. Redrawn(axes, axes') /\ UNCHANGED graph
    BY <1>z, <1>3 DEF Wheel, zoomX, zoomY, panBy
  <2> QED BY <1>t, <1>3, <2>1 DEF Wheel
<1>4. CASE togglePause
  <2>1. paused' \in BOOLEAN
    BY <1>4, Zenon DEF togglePause
  <2> QED BY <1>t, <1>0, <1>4, <2>1 DEF togglePause, viewVars
<1>5. CASE MousePress
  BY <1>t, <1>0, <1>5 DEF MousePress, viewVars
<1>6. CASE MouseDrag
  BY <1>t, <1>z, <1>6 DEF MouseDrag
<1>7. CASE MouseRelease
  <2>1. Redrawn(axes, axes') /\ UNCHANGED graph
    BY <1>0, <1>z, <1>7 DEF MouseRelease, endRegionZoom, panBy, viewVars
  <2> QED BY <1>t, <1>7, <2>1 DEF MouseRelease
<1>8. ASSUME NEW i \in Indices, setAxisRange(i)
      PROVE  /\ Redrawn(axes, axes') /\ UNCHANGED <<graph, measureVars>>
             /\ mouse' \in {"up", "drag", "region"} /\ paused' \in BOOLEAN
  BY <1>t, <1>8, ByHandIs DEF setAxisRange
<1>9. ASSUME NEW i \in Indices, autoScaleAxis(i)
      PROVE  /\ Redrawn(axes, axes') /\ UNCHANGED <<graph, measureVars>>
             /\ mouse' \in {"up", "drag", "region"} /\ paused' \in BOOLEAN
  <2> DEFINE who == IF ShowsData(graph, axes[i]) THEN "auto" ELSE axes[i].range
             ax == [axes[i] EXCEPT !.fit = TRUE, !.range = who]
  <2>1. axes \in Seq(Axis) /\ DOMAIN axes = 1 .. Len(axes) /\ i \in 1 .. Len(axes) /\ axes[i] \in Axis
    BY <1>t, AxisListIs DEF Indices
  <2>2. who \in {"auto", "user"}
    BY <2>1 DEF Axis
  <2>3. axes' = [axes EXCEPT ![i] = ax]
    BY <1>9, <2>1 DEF autoScaleAxis, Axis
  <2> HIDE DEF who
  <2>4. ax \in Axis /\ ax.id = axes[i].id /\ ax.label = axes[i].label
    BY <2>1, <2>2 DEF Axis
  <2> HIDE DEF ax
  <2>5. /\ axes' \in Seq(Axis) /\ Len(axes') = Len(axes)
        /\ \A j \in 1 .. Len(axes) : axes'[j] = IF j = i THEN ax ELSE axes[j]
    BY <2>1, <2>3, <2>4, ExceptSeq
  <2>6. Redrawn(axes, axes')
    BY <2>4, <2>5 DEF Redrawn
  <2> QED BY <1>t, <1>9, <2>6 DEF autoScaleAxis
<1> QED BY <1>1, <1>2, <1>3, <1>4, <1>5, <1>6, <1>7, <1>8, <1>9

\* The measurement actions: the view stays.
Measuring ==
  \/ \E s \in 0 .. Len(axes) : placeMeasurePoint(s)
  \/ removeMeasurement \/ foldPanel \/ (\E h \in DragHeights : dragDivider(h))
  \/ setMeasureMode \/ afterReplot

LEMMA MeasuringKeeps ==
  ASSUME TypeOK, Measuring
  PROVE  UNCHANGED <<axes, graph, mouse, paused>> /\ measureMode' \in BOOLEAN
<1>1. UNCHANGED <<axes, graph, mouse, paused>>
  BY DEF Measuring, placeMeasurePoint, removeMeasurement, foldPanel, dragDivider, setMeasureMode,
         afterReplot, viewVars
<1>2. CASE setMeasureMode
  <2>1. measureMode' \in BOOLEAN
    BY <1>2, Zenon DEF setMeasureMode
  <2> QED BY <1>1, <2>1
<1>3. CASE ~setMeasureMode
  <2>1. measureMode' = measureMode
    BY <1>3 DEF Measuring, placeMeasurePoint, removeMeasurement, foldPanel, dragDivider, afterReplot
  <2> QED BY <1>1, <2>1 DEF TypeOK
<1> QED BY <1>2, <1>3

\* Every step of the widget is one of the two.
LEMMA PlotStep ==
  ASSUME TypeOK, PlotGesture \/ PlotMode
  PROVE  /\ UNCHANGED hostVars /\ ops' \in Nat
         /\ Redrawn(axes, axes') /\ UNCHANGED graph
         /\ mouse' \in {"up", "drag", "region"} /\ paused' \in BOOLEAN /\ measureMode' \in BOOLEAN
         /\ UNCHANGED measureVars \/ (Measuring /\ UNCHANGED axes)
<1>t. IsAxisList(axes) /\ mouse \in {"up", "drag", "region"} /\ paused \in BOOLEAN
      /\ measureMode \in BOOLEAN /\ ops \in Nat
  BY DEF TypeOK
<1>1. UNCHANGED hostVars /\ ops' \in Nat
  BY <1>t DEF PlotGesture, PlotMode, Edits
<1>2. \/ fitAll \/ fitWindow \/ Wheel \/ togglePause \/ MousePress \/ MouseDrag \/ MouseRelease
      \/ \E i \in Indices : setAxisRange(i) \/ autoScaleAxis(i)
      \/ Measuring
  BY DEF PlotGesture, PlotMode, Gesture, Mode, Measuring
<1>3. CASE Measuring
  <2>1. Redrawn(axes, axes)
    BY <1>t, AxisListIs DEF Redrawn
  <2>2. UNCHANGED <<axes, graph, mouse, paused>> /\ measureMode' \in BOOLEAN
    BY <1>3, MeasuringKeeps
  <2> QED BY <1>t, <1>1, <1>3, <2>1, <2>2
<1>4. CASE ~Measuring
  <2>1. /\ Redrawn(axes, axes') /\ UNCHANGED <<graph, measureVars>>
        /\ mouse' \in {"up", "drag", "region"} /\ paused' \in BOOLEAN
    BY <1>2, <1>4, ViewStep
  <2>2. measureMode' = measureMode
    BY <2>1 DEF measureVars
  <2> QED BY <1>t, <1>1, <2>1, <2>2
<1> QED BY <1>3, <1>4

-----------------------------------------------------------------------------
(* Samples                                                                  *)

LEMMA SignalIs ==
  ASSUME IsSignals(sig), NEW c \in WithData
  PROVE  c \in DOMAIN sig /\ sig[c][1] \in 0 .. MaxTime /\ sig[c][2] \in 0 .. MaxTime
<1>1. c \in DOMAIN sig /\ sig[c] \in {<<a, b>> : a, b \in 0 .. MaxTime}
  BY DEF WithData, IsSignals
<1>2. PICK a \in 0 .. MaxTime, b \in 0 .. MaxTime : sig[c] = <<a, b>>
  BY <1>1
<1> QED BY <1>1, <1>2

\* refreshData() draws every signal of the store from the origin.
LEMMA ReloadedIs ==
  ASSUME NEW gs, IsGraphs(gs), IsSignals(sig), DOMAIN gs \subseteq DOMAIN sig, NEW o \in Int
  PROVE  /\ IsGraphs(Reloaded(gs, o)) /\ DOMAIN Reloaded(gs, o) = DOMAIN gs
         /\ \A c \in DOMAIN gs : Reloaded(gs, o)[c].axis = gs[c].axis
<1> DEFINE b == Reloaded(gs, o)
<1>1. /\ DOMAIN b = DOMAIN gs /\ b = [c \in DOMAIN gs |-> b[c]]
      /\ \A c \in DOMAIN gs : b[c] = [gs[c] EXCEPT !.data = Relative(o, sig[c])]
  BY DEF Reloaded
<1> HIDE DEF b
<1>2. ASSUME NEW c \in DOMAIN gs
      PROVE  b[c] \in [axis : AxisIds, vis : BOOLEAN, data : Seq(Int)] /\ b[c].axis = gs[c].axis
  <2>1. gs[c] \in [axis : AxisIds, vis : BOOLEAN, data : Seq(Int)]
    BY DEF IsGraphs
  <2>2. Relative(o, sig[c]) \in Seq(Int)
    <3>1. CASE sig[c] = << >>
      <4>1. << >> \in Seq(Int)
        BY EmptySeq
      <4> QED BY <3>1, <4>1 DEF Relative
    <3>2. CASE sig[c] # << >>
      <4>1. c \in WithData
        BY <3>2 DEF WithData
      <4>2. sig[c][1] \in Int /\ sig[c][2] \in Int
        BY <4>1, SignalIs
      <4>3. sig[c][1] - o \in Int /\ sig[c][2] - o \in Int
        BY <4>2
      <4>4. <<sig[c][1] - o, sig[c][2] - o>> \in Seq(Int)
        BY <4>3
      <4> QED BY <3>2, <4>4 DEF Relative
    <3> QED BY <3>1, <3>2
  <2> QED BY <1>1, <2>1, <2>2
<1>3. IsGraphs(b)
  BY <1>1, <1>2 DEF IsGraphs
<1> QED BY <1>1, <1>2, <1>3 DEF b

\* The origin is the first sample of a channel that has some.
LEMMA OriginIs ==
  ASSUME IsSignals(sig), NEW o \in Int, NEW isSet
  PROVE  /\ originAt(o, isSet) \in Int
         /\ isSet \/ WithData = {} => originAt(o, isSet) = o
         /\ ~isSet /\ WithData # {} => \E c \in WithData : originAt(o, isSet) = sig[c][1]
<1> DEFINE S == {sig[c][1] : c \in WithData}
<1>1. CASE isSet \/ WithData = {}
  BY <1>1 DEF originAt
<1>2. CASE ~isSet /\ WithData # {}
  <2>1. S # {}
    BY <1>2
  <2>2. S \subseteq Nat
    BY SignalIs, PreviewAssumption
  <2>3. Min(S) \in S
    BY <2>1, <2>2, MinIsMember
  <2>4. originAt(o, isSet) = Min(S)
    BY <1>2 DEF originAt
  <2> HIDE DEF S
  <2>5. originAt(o, isSet) \in S /\ originAt(o, isSet) \in Nat
    BY <2>2, <2>3, <2>4
  <2> QED BY <1>2, <2>5 DEF S
<1> QED BY <1>1, <1>2

LEMMA NewestIs ==
  ASSUME IsSignals(sig), NEW d \in WithData
  PROVE  Newest \in 0 .. MaxTime /\ sig[d][2] <= Newest
<1> DEFINE S == {sig[c][2] : c \in WithData}
<1>1. S \subseteq 0 .. MaxTime /\ S # {} /\ sig[d][2] \in S /\ MaxTime \in Nat
  BY SignalIs, PreviewAssumption
<1>2. Max(S) \in S /\ \A y \in S : y <= Max(S)
  <2> HIDE DEF S
  <2> QED BY <1>1, MaxIsMember
<1>3. Newest = Max(S)
  BY DEF Newest
<1> HIDE DEF S
<1> QED BY <1>1, <1>2, <1>3

-----------------------------------------------------------------------------
(* Axes, rows and graphs                                                    *)

AxesInv == /\ IsAxisList(axes) /\ IsGraphs(graph) /\ IsRows(rows)
           /\ DOMAIN rows = DOMAIN graph /\ DOMAIN rows = DOMAIN sig
           /\ RowsOn(rows, Len(axes)) /\ Live(axes, graph)

LEMMA AxesInvIs == TypeOK => (AxesInv <=> GraphsOnLiveAxes /\ RowsOnLiveAxes)
  BY DEF TypeOK, AxesInv, GraphsOnLiveAxes, RowsOnLiveAxes, RowsOn, Live, Indices

\* The flags and ranges change, and perhaps the data: nothing refers to those.
LEMMA AxesRedrawn ==
  ASSUME AxesInv, Redrawn(axes, axes'), IsGraphs(graph'), DOMAIN graph' = DOMAIN graph,
         \A c \in DOMAIN graph : graph'[c].axis = graph[c].axis,
         rows' = rows, DOMAIN sig' = DOMAIN sig
  PROVE  AxesInv'
<1>1. IsAxisList(axes') /\ Len(axes') = Len(axes)
  BY RedrawnList DEF AxesInv, Redrawn
<1>2. Live(axes', graph')
  <2>1. Live(axes, graph)
    BY DEF AxesInv
  <2> QED BY <2>1, LiveRedrawn
<1> QED BY <1>1, <1>2 DEF AxesInv

LEMMA AddAxisStep == ASSUME AxesInv, AddAxis PROVE AxesInv'
<1>1. IsAxisList(axes) /\ Len(axes) < MaxAxes /\ DefaultLabel \in Labels
  BY PlotAssumption DEF AxesInv, AddAxis
<1>2. /\ IsAxisList(axes') /\ Len(axes') = Len(axes) + 1
      /\ \A i \in Indices : axes'[i] = axes[i]
  BY <1>1, AddedIs DEF AddAxis, addYAxis
<1>3. Len(axes) \in Nat /\ Len(axes) + 1 \in 1 .. MaxAxes
  BY <1>1, <1>2, AxisListIs
<1>4. rows' = rebuildAxisCombos(rows, Len(axes) + 1) /\ UNCHANGED <<graph, sig>>
  BY DEF AddAxis
<1>5. IsRows(rows') /\ RowsOn(rows', Len(axes')) /\ DOMAIN rows' = DOMAIN rows
  BY <1>2, <1>3, <1>4, CombosIs DEF AxesInv
<1>6. Live(axes', graph')
  <2>1. \A i \in 1 .. Len(axes) : i \in 1 .. Len(axes') /\ axes'[i] = axes[i]
    BY <1>2, <1>3 DEF Indices
  <2> QED BY <1>4, <2>1 DEF AxesInv, Live
<1> QED BY <1>2, <1>4, <1>5, <1>6 DEF AxesInv

LEMMA RemoveAxisStep == ASSUME AxesInv, NEW i \in Indices, RemoveAxis(i) PROVE AxesInv'
<1>1. /\ IsAxisList(axes) /\ i # 1 /\ axes' = RemoveAt(axes, i)
      /\ \A c \in DOMAIN graph : graph[c].axis # axes[i].id
      /\ rows' = rebuildAxisCombos(rows, Len(axes) - 1) /\ UNCHANGED <<graph, sig>>
  BY DEF AxesInv, RemoveAxis, removable, removeYAxis
<1>2. /\ IsAxisList(axes') /\ Len(axes') = Len(axes) - 1
      /\ \A k \in Indices : k # i => \E j \in DOMAIN axes' : axes'[j] = axes[k]
  BY <1>1, RemovedIs
<1>3. Len(axes) - 1 \in 1 .. MaxAxes /\ DOMAIN axes' = 1 .. Len(axes')
  BY <1>2, AxisListIs
<1>4. IsRows(rows') /\ RowsOn(rows', Len(axes')) /\ DOMAIN rows' = DOMAIN rows
  BY <1>1, <1>2, <1>3, CombosIs DEF AxesInv
<1>5. Live(axes', graph')
  <2> SUFFICES ASSUME NEW c \in DOMAIN graph PROVE \E j \in 1 .. Len(axes') : axes'[j].id = graph[c].axis
    BY <1>1 DEF Live
  <2>1. PICK k \in 1 .. Len(axes) : axes[k].id = graph[c].axis
    BY DEF AxesInv, Live
  <2>2. PICK j \in DOMAIN axes' : axes'[j] = axes[k]
    BY <1>1, <1>2, <2>1 DEF Indices
  <2> QED BY <1>3, <2>1, <2>2
<1> QED BY <1>1, <1>2, <1>4, <1>5 DEF AxesInv

LEMMA RenameAxisStep ==
  ASSUME AxesInv, NEW i \in Indices, NEW l \in Labels, RenameAxis(i, l)
  PROVE  /\ IsAxisList(axes') /\ Len(axes') = Len(axes)
         /\ \A j \in 1 .. Len(axes) : axes'[j].id = axes[j].id /\ axes'[j].range = axes[j].range
         /\ AxesInv'
<1> DEFINE ax == [axes[i] EXCEPT !.label = l]
<1>1. /\ axes \in Seq(Axis) /\ DOMAIN axes = 1 .. Len(axes) /\ i \in 1 .. Len(axes) /\ axes[i] \in Axis
      /\ Len(axes) \in 1 .. MaxAxes /\ \A j, k \in 1 .. Len(axes) : axes[j].id = axes[k].id => j = k
  BY AxisListIs DEF AxesInv, Indices
<1>2. axes' = [axes EXCEPT ![i] = ax] /\ UNCHANGED <<graph, rows, sig>>
  BY <1>1 DEF RenameAxis, hostVars
<1>3. ax \in Axis /\ ax.id = axes[i].id /\ ax.range = axes[i].range
  BY <1>1 DEF Axis
<1> HIDE DEF ax
<1>4. /\ axes' \in Seq(Axis) /\ Len(axes') = Len(axes)
      /\ \A j \in 1 .. Len(axes) : axes'[j] = IF j = i THEN ax ELSE axes[j]
  BY <1>1, <1>2, <1>3, ExceptSeq
<1>5. \A j \in 1 .. Len(axes) : axes'[j].id = axes[j].id /\ axes'[j].range = axes[j].range
  BY <1>3, <1>4
<1>6. DOMAIN axes' = 1 .. Len(axes)
  BY <1>4, LenProperties
<1>7. IsAxisList(axes')
  BY <1>1, <1>4, <1>5, <1>6 DEF IsAxisList
<1>8. Live(axes', graph')
  <2> SUFFICES ASSUME NEW c \in DOMAIN graph PROVE \E j \in 1 .. Len(axes') : axes'[j].id = graph[c].axis
    BY <1>2 DEF Live
  <2>1. PICK k \in 1 .. Len(axes) : axes[k].id = graph[c].axis
    BY DEF AxesInv, Live
  <2> QED BY <1>4, <1>5, <2>1
<1> QED BY <1>2, <1>4, <1>5, <1>7, <1>8 DEF AxesInv

LEMMA ComboStep ==
  ASSUME AxesInv, NEW c \in DOMAIN rows, NEW i \in Indices, onAxisComboChanged(c, i)
  PROVE  AxesInv' /\ Redrawn(axes, axes')
<1>1. /\ IsAxisList(axes) /\ IsGraphs(graph) /\ IsRows(rows) /\ c \in DOMAIN graph
      /\ rows' = [rows EXCEPT ![c].axis = i] /\ graph' = [graph EXCEPT ![c].axis = axes[i].id]
      /\ axes' = rescaleAllYAxes(axes, graph', {}) /\ sig' = sig
  BY DEF AxesInv, onAxisComboChanged, setGraphYAxis
<1>2. Redrawn(axes, axes')
  BY <1>1, RescaleAllIs
<1>3. IsAxisList(axes') /\ Len(axes') = Len(axes)
  BY <1>1, <1>2, RedrawnList DEF Redrawn
<1>4. i \in 1 .. Len(axes) /\ i \in AxisIds /\ axes[i].id \in AxisIds
  <2>1. Len(axes) \in 1 .. MaxAxes /\ \A j \in 1 .. Len(axes) : axes[j].id \in AxisIds
    BY <1>1, AxisListIs
  <2> QED BY <2>1, PlotAssumption DEF Indices, AxisIds
<1>5. DOMAIN rows' = DOMAIN rows /\ IsRows(rows') /\ RowsOn(rows', Len(axes))
  <2>1. DOMAIN rows' = DOMAIN rows
        /\ \A d \in DOMAIN rows : rows'[d] = IF d = c THEN [rows[c] EXCEPT !.axis = i] ELSE rows[d]
    BY <1>1 DEF IsRows
  <2>2. \A d \in DOMAIN rows : rows[d] \in [vis : BOOLEAN, axis : AxisIds] /\ rows[d].axis \in 1 .. Len(axes)
    BY <1>1 DEF IsRows, AxesInv, RowsOn
  <2>3. \A d \in DOMAIN rows : rows'[d] \in [vis : BOOLEAN, axis : AxisIds] /\ rows'[d].axis \in 1 .. Len(axes)
    BY <1>4, <2>1, <2>2
  <2>4. rows' = [d \in DOMAIN rows |-> rows'[d]]
    BY <1>1 DEF IsRows
  <2> QED BY <2>1, <2>3, <2>4 DEF IsRows, RowsOn
<1>6. DOMAIN graph' = DOMAIN graph /\ IsGraphs(graph') /\ Live(axes, graph')
  <2> DEFINE G == [axis : AxisIds, vis : BOOLEAN, data : Seq(Int)]
  <2>1. DOMAIN graph' = DOMAIN graph
        /\ \A d \in DOMAIN graph : graph'[d] = IF d = c THEN [graph[c] EXCEPT !.axis = axes[i].id] ELSE graph[d]
    BY <1>1 DEF IsGraphs
  <2>2. \A d \in DOMAIN graph : graph[d] \in G /\ \E j \in 1 .. Len(axes) : axes[j].id = graph[d].axis
    BY <1>1 DEF IsGraphs, AxesInv, Live
  <2>3. \A d \in DOMAIN graph : graph'[d] \in G /\ \E j \in 1 .. Len(axes) : axes[j].id = graph'[d].axis
    BY <1>1, <1>4, <2>1, <2>2
  <2>4. graph' = [d \in DOMAIN graph |-> graph'[d]]
    BY <1>1 DEF IsGraphs
  <2> QED BY <2>1, <2>3, <2>4 DEF IsGraphs, Live
<1>7. Live(axes', graph')
  BY <1>2, <1>6, LiveRedrawn
<1> QED BY <1>1, <1>2, <1>3, <1>5, <1>6, <1>7 DEF AxesInv

LEMMA VisibilityStep ==
  ASSUME AxesInv, NEW c \in DOMAIN rows, onVisibilityChanged(c)
  PROVE  AxesInv'
<1> DEFINE b == ~rows[c].vis
<1>1. b \in BOOLEAN
  BY Zenon
<1>2. rows' = [rows EXCEPT ![c] = [rows[c] EXCEPT !.vis = b]]
  BY DEF onVisibilityChanged, AxesInv, IsRows
<1>3. /\ graph' = [d \in DOMAIN graph |-> [graph[d] EXCEPT !.vis = rows'[d].vis]]
      /\ UNCHANGED <<axes, sig>>
  BY DEF onVisibilityChanged
<1> HIDE DEF b
<1>4. \A d \in DOMAIN rows : rows[d] \in [vis : BOOLEAN, axis : AxisIds]
  BY DEF AxesInv, IsRows
<1>5. /\ DOMAIN rows' = DOMAIN rows /\ rows' = [d \in DOMAIN rows |-> rows'[d]]
      /\ \A d \in DOMAIN rows : rows'[d] = IF d = c THEN [rows[c] EXCEPT !.vis = b] ELSE rows[d]
  BY <1>2 DEF AxesInv, IsRows
<1>6. \A d \in DOMAIN rows : /\ rows'[d] \in [vis : BOOLEAN, axis : AxisIds]
                            /\ rows'[d].axis = rows[d].axis /\ rows'[d].vis \in BOOLEAN
  BY <1>1, <1>4, <1>5
<1>7. IsRows(rows') /\ RowsOn(rows', Len(axes))
  BY <1>5, <1>6 DEF AxesInv, IsRows, RowsOn
<1>8. \A d \in DOMAIN graph : /\ graph'[d] \in [axis : AxisIds, vis : BOOLEAN, data : Seq(Int)]
                             /\ graph'[d].axis = graph[d].axis
  <2>1. \A d \in DOMAIN graph : graph[d] \in [axis : AxisIds, vis : BOOLEAN, data : Seq(Int)]
    BY DEF AxesInv, IsGraphs
  <2>2. \A d \in DOMAIN graph : rows'[d].vis \in BOOLEAN
    BY <1>6 DEF AxesInv
  <2> QED BY <1>3, <2>1, <2>2
<1>9. DOMAIN graph' = DOMAIN graph /\ IsGraphs(graph')
  BY <1>3, <1>8 DEF IsGraphs
<1>10. Live(axes, graph')
  BY <1>8, <1>9 DEF AxesInv, Live
<1> QED BY <1>3, <1>5, <1>7, <1>9, <1>10 DEF AxesInv

\* applyPlotLayout(): every graph is drawn on the axis that its row names.
LEMMA LayoutStep ==
  ASSUME AxesInv, NEW l, IsLayout(l), applyPlotLayout(l)
  PROVE  /\ AxesInv' /\ Redrawn(LaidOut(l), axes') /\ axes'[1].id = axes[1].id
         /\ DOMAIN rows' = DOMAIN rows /\ sig' = sig /\ pending' = Deferred(rows', l)
         /\ \A c \in DOMAIN rows' : graph'[c].axis = axes'[rows'[c].axis].id
         /\ \A c \in DOMAIN rows' \cap DOMAIN l.chans :
              l.chans[c] <= Len(axes') => rows'[c].axis = l.chans[c]
<1> DEFINE axs == LaidOut(l)
           gs == [c \in DOMAIN graph |-> [graph[c] EXCEPT !.axis = axes[1].id]]
           base == rebuildAxisCombos(rows, 1)
           new == Reassigned(base, l, Len(axs))
           drawn == FollowCombos(gs, base, new, axs)
<1>1. /\ rows' = new /\ graph' = drawn /\ sig' = sig /\ pending' = Deferred(new, l)
      /\ axes' = IF new # base THEN rescaleAllYAxes(axs, graph', {}) ELSE axs
  BY DEF applyPlotLayout
<1>2. /\ IsAxisList(axes) /\ IsGraphs(graph) /\ IsRows(rows)
      /\ DOMAIN rows = DOMAIN graph /\ DOMAIN rows = DOMAIN sig /\ axes[1].id \in AxisIds
  <2>1. IsAxisList(axes)
    BY DEF AxesInv
  <2>2. axes[1].id \in AxisIds
    BY <2>1, AxisListIs
  <2> QED BY <2>2 DEF AxesInv
<1>3. /\ DOMAIN gs = DOMAIN graph /\ IsGraphs(gs)
      /\ \A c \in DOMAIN gs : gs[c].axis = axes[1].id
  <2>1. \A c \in DOMAIN graph : graph[c] \in [axis : AxisIds, vis : BOOLEAN, data : Seq(Int)]
    BY <1>2 DEF IsGraphs
  <2>2. \A c \in DOMAIN graph : /\ gs[c] \in [axis : AxisIds, vis : BOOLEAN, data : Seq(Int)]
                               /\ gs[c].axis = axes[1].id
    BY <1>2, <2>1
  <2>3. DOMAIN gs = DOMAIN graph /\ gs = [c \in DOMAIN graph |-> gs[c]]
    OBVIOUS
  <2> HIDE DEF gs
  <2> QED BY <2>2, <2>3 DEF IsGraphs
<1>4. /\ IsRows(base) /\ DOMAIN base = DOMAIN rows /\ \A c \in DOMAIN rows : base[c].axis = 1
  <2>1. 1 \in 1 .. MaxAxes
    BY PlotAssumption
  <2>2. IsRows(base) /\ RowsOn(base, 1) /\ DOMAIN base = DOMAIN rows
    BY <1>2, <2>1, CombosIs
  <2> HIDE DEF base
  <2> QED BY <2>2 DEF RowsOn
<1>5. /\ IsAxisList(axs) /\ axs[1].id = axes[1].id
      /\ Len(axs) \in 1 .. MaxAxes /\ RowsOn(base, Len(axs))
  <2>1. IsAxisList(axs) /\ axs[1].id = axes[1].id
    BY <1>2, LaidOutIs
  <2> HIDE DEF axs, base
  <2>2. Len(axs) \in 1 .. MaxAxes
    BY <2>1, AxisListIs
  <2> QED BY <1>4, <2>1, <2>2 DEF RowsOn
<1> HIDE DEF axs, base, gs
<1>6. /\ IsRows(new) /\ RowsOn(new, Len(axs)) /\ DOMAIN new = DOMAIN rows
      /\ \A c \in DOMAIN rows \cap DOMAIN l.chans : l.chans[c] <= Len(axs) => new[c].axis = l.chans[c]
  BY <1>4, <1>5, ReassignedIs
<1> HIDE DEF new
<1>7. Live(axs, gs)
  BY <1>3, <1>5 DEF Live
<1>8. /\ IsGraphs(drawn) /\ DOMAIN drawn = DOMAIN graph /\ Live(axs, drawn)
      /\ \A c \in DOMAIN gs : drawn[c].axis =
            IF new[c].axis # base[c].axis THEN axs[new[c].axis].id ELSE gs[c].axis
  <2>1. /\ IsAxisList(axs) /\ IsGraphs(gs) /\ IsRows(new) /\ DOMAIN new = DOMAIN gs
        /\ RowsOn(new, Len(axs))
    BY <1>2, <1>3, <1>5, <1>6
  <2>2. /\ IsGraphs(drawn) /\ DOMAIN drawn = DOMAIN gs
        /\ Live(axs, gs) => Live(axs, drawn)
        /\ \A c \in DOMAIN gs : drawn[c].axis =
             IF new[c].axis # base[c].axis THEN axs[new[c].axis].id ELSE gs[c].axis
    BY <2>1, FollowIs
  <2> QED BY <1>3, <1>7, <2>2
<1> HIDE DEF drawn
<1>9. \A c \in DOMAIN rows : drawn[c].axis = axs[new[c].axis].id
  BY <1>2, <1>3, <1>4, <1>5, <1>8
<1>10. Redrawn(axs, axes')
  <2>1. CASE new # base
    BY <1>1, <1>5, <2>1, RescaleAllIs
  <2>2. CASE new = base
    BY <1>1, <1>5, <2>2, AxisListIs DEF Redrawn
  <2> QED BY <2>1, <2>2
<1>11. IsAxisList(axes') /\ Len(axes') = Len(axs) /\ \A i \in 1 .. Len(axs) : axes'[i].id = axs[i].id
  BY <1>5, <1>10, RedrawnList DEF Redrawn
<1>12. Live(axes', drawn)
  BY <1>8, <1>10, LiveRedrawn
<1>13. AxesInv'
  BY <1>1, <1>2, <1>6, <1>8, <1>11, <1>12 DEF AxesInv
<1>14. \A c \in DOMAIN rows : drawn[c].axis = axes'[new[c].axis].id
  BY <1>6, <1>9, <1>11 DEF RowsOn
<1> QED BY <1>1, <1>5, <1>6, <1>10, <1>11, <1>13, <1>14 DEF axs

\* onChannelAdded(): a new graph is drawn on an axis of the list, the one that
\* the loaded layout asks for if there is one.
LEMMA GraphAxisIs ==
  ASSUME IsAxisList(axes), IsLayout(loaded), DeferredInv, NEW c
  PROVE  /\ \E i \in 1 .. Len(axes) : GraphAxis(c) = axes[i].id
         /\ c \in DOMAIN loaded.chans \ DOMAIN rows /\ loaded.chans[c] <= Len(axes)
              => GraphAxis(c) = axes[loaded.chans[c]].id
<1> DEFINE i == IF c \in DOMAIN pending THEN pending[c] ELSE pickAxisForUnit(axes, Unit[c])
           k == IF i > Len(axes) THEN 1 ELSE i
<1>1. Len(axes) \in 1 .. MaxAxes /\ MaxAxes \in Nat
  BY AxisListIs, PlotAssumption
<1>2. /\ DOMAIN pending = DOMAIN loaded.chans \ DOMAIN rows
      /\ \A d \in DOMAIN pending : pending[d] = loaded.chans[d]
  BY DEF DeferredInv, Deferred, Without
<1>3. \A d \in DOMAIN loaded.chans : loaded.chans[d] \in 1 .. MaxAxes
  BY DEF IsLayout, AxisIds
<1>4. i \in 1 .. MaxAxes
  <2>1. CASE c \in DOMAIN pending
    BY <1>2, <1>3, <2>1
  <2>2. CASE c \notin DOMAIN pending
    <3>1. pickAxisForUnit(axes, Unit[c]) \in 1 .. Len(axes)
      BY PickAxisIs
    <3> QED BY <1>1, <2>2, <3>1
  <2> QED BY <2>1, <2>2
<1>5. GraphAxis(c) = axes[k].id
  BY DEF GraphAxis
<1>6. c \in DOMAIN loaded.chans \ DOMAIN rows => i = loaded.chans[c]
  BY <1>2
<1> HIDE DEF i
<1>7. k \in 1 .. Len(axes) /\ (i <= Len(axes) => k = i)
  BY <1>1, <1>4
<1> QED BY <1>5, <1>6, <1>7

LEMMA ExtendIs ==
  ASSUME NEW f, NEW g
  PROVE  /\ DOMAIN Extend(f, g) = DOMAIN f \cup DOMAIN g
         /\ Extend(f, g) = [x \in DOMAIN f \cup DOMAIN g |-> Extend(f, g)[x]]
         /\ \A x \in DOMAIN g : Extend(f, g)[x] = g[x]
         /\ \A x \in DOMAIN f \ DOMAIN g : Extend(f, g)[x] = f[x]
  BY DEF Extend

\* onStartClicked(): the rows and graphs of the channels it puts in the store.
LEMMA StartStep ==
  ASSUME AxesInv, IsLayout(loaded), DeferredInv, NEW cs \in SUBSET Channels, NEW ok \in BOOLEAN,
         Start(cs, ok)
  PROVE  /\ AxesInv' /\ Redrawn(axes, axes') /\ DOMAIN rows' = DOMAIN rows \cup cs
         /\ pending' = Deferred(rows', loaded)
         /\ \A c \in (DOMAIN rows' \ DOMAIN rows) \cap DOMAIN loaded.chans :
              loaded.chans[c] <= Len(axes) => /\ rows'[c].axis = loaded.chans[c]
                                              /\ graph'[c].axis = axes[loaded.chans[c]].id
<1> DEFINE added == [c \in cs |-> [vis |-> TRUE, axis |-> RowAxis(c)]]
           drawnNew == [c \in cs |-> [axis |-> GraphAxis(c), vis |-> TRUE, data |-> << >>]]
           old == Extend(added, rows)
           gs == Extend(graph, drawnNew)
           new == Reassigned(old, loaded, Len(axes))
           drawn == FollowCombos(gs, old, new, axes)
           axs == IF new # old THEN rescaleAllYAxes(axes, drawn, {}) ELSE axes
           R == [vis : BOOLEAN, axis : AxisIds]
           G == [axis : AxisIds, vis : BOOLEAN, data : Seq(Int)]
<1>1. /\ rows' = new /\ graph' = drawn /\ pending' = Deferred(new, loaded)
      /\ sig' = Extend(sig, [c \in cs |-> << >>])
      /\ axes' = FitAllAxes(axs, drawn, {}) \/ axes' = axs
  BY DEF Start
<1>2. /\ IsAxisList(axes) /\ IsGraphs(graph) /\ IsRows(rows) /\ Live(axes, graph)
      /\ RowsOn(rows, Len(axes)) /\ DOMAIN rows = DOMAIN graph /\ DOMAIN rows = DOMAIN sig
  BY DEF AxesInv
<1>3. /\ Len(axes) \in 1 .. MaxAxes /\ MaxAxes \in Nat
      /\ \A i \in 1 .. Len(axes) : axes[i].id \in AxisIds
  BY <1>2, AxisListIs, PlotAssumption
<1>4. /\ DOMAIN old = DOMAIN rows \cup cs /\ old = [c \in DOMAIN rows \cup cs |-> old[c]]
      /\ \A c \in DOMAIN rows : old[c] = rows[c]
      /\ \A c \in cs \ DOMAIN rows : old[c] = [vis |-> TRUE, axis |-> RowAxis(c)]
  <2>1. DOMAIN added = cs /\ \A c \in cs : added[c] = [vis |-> TRUE, axis |-> RowAxis(c)]
    OBVIOUS
  <2> HIDE DEF added
  <2>2. /\ DOMAIN old = DOMAIN added \cup DOMAIN rows
        /\ old = [c \in DOMAIN added \cup DOMAIN rows |-> old[c]]
        /\ \A c \in DOMAIN rows : old[c] = rows[c]
        /\ \A c \in DOMAIN added \ DOMAIN rows : old[c] = added[c]
    BY ExtendIs
  <2>3. DOMAIN added \cup DOMAIN rows = DOMAIN rows \cup cs
    BY <2>1
  <2> HIDE DEF old
  <2> QED BY <2>1, <2>2, <2>3
<1>5. /\ DOMAIN gs = DOMAIN graph \cup cs /\ gs = [c \in DOMAIN graph \cup cs |-> gs[c]]
      /\ \A c \in cs : gs[c] = [axis |-> GraphAxis(c), vis |-> TRUE, data |-> << >>]
      /\ \A c \in DOMAIN graph \ cs : gs[c] = graph[c]
  <2>1. /\ DOMAIN drawnNew = cs
        /\ \A c \in cs : drawnNew[c] = [axis |-> GraphAxis(c), vis |-> TRUE, data |-> << >>]
    OBVIOUS
  <2> HIDE DEF drawnNew
  <2>2. /\ DOMAIN gs = DOMAIN graph \cup DOMAIN drawnNew
        /\ gs = [c \in DOMAIN graph \cup DOMAIN drawnNew |-> gs[c]]
        /\ \A c \in DOMAIN drawnNew : gs[c] = drawnNew[c]
        /\ \A c \in DOMAIN graph \ DOMAIN drawnNew : gs[c] = graph[c]
    BY ExtendIs
  <2> HIDE DEF gs
  <2> QED BY <2>1, <2>2
<1>6. DOMAIN sig' = DOMAIN rows \cup cs
  <2> DEFINE none == [c \in cs |-> << >>]
  <2>1. DOMAIN none = cs
    OBVIOUS
  <2> HIDE DEF none
  <2>2. DOMAIN Extend(sig, none) = DOMAIN sig \cup DOMAIN none
    BY ExtendIs
  <2>3. sig' = Extend(sig, none)
    BY <1>1 DEF none
  <2> QED BY <1>2, <2>1, <2>2, <2>3
<1> HIDE DEF old, gs, added, drawnNew
<1>7. IsRows(old) /\ RowsOn(old, Len(axes))
  <2>1. ASSUME NEW c \in DOMAIN old PROVE old[c] \in R /\ old[c].axis \in 1 .. Len(axes)
    <3>1. CASE c \in DOMAIN rows
      BY <1>2, <1>4, <3>1 DEF IsRows, RowsOn
    <3>2. CASE c \notin DOMAIN rows
      <4>1. pickAxisForUnit(axes, Unit[c]) \in 1 .. Len(axes)
        BY <1>2, PickAxisIs
      <4>2. RowAxis(c) \in 1 .. Len(axes) /\ RowAxis(c) \in AxisIds
        BY <1>3, <4>1 DEF RowAxis, Lesser, AxisIds
      <4>3. [vis |-> TRUE, axis |-> RowAxis(c)] \in R
        BY <4>2
      <4>4. old[c] = [vis |-> TRUE, axis |-> RowAxis(c)]
        BY <1>4, <3>2
      <4>5. old[c].axis = RowAxis(c)
        BY <4>4
      <4> QED BY <4>2, <4>3, <4>4, <4>5
    <3> QED BY <3>1, <3>2
  <2> QED BY <1>4, <2>1 DEF IsRows, RowsOn
<1>8. IsGraphs(gs) /\ Live(axes, gs)
  <2>1. ASSUME NEW c \in DOMAIN gs
        PROVE  gs[c] \in G /\ \E i \in 1 .. Len(axes) : axes[i].id = gs[c].axis
    <3>1. CASE c \in cs
      <4>1. PICK i \in 1 .. Len(axes) : GraphAxis(c) = axes[i].id
        BY <1>2, GraphAxisIs
      <4>2. GraphAxis(c) \in AxisIds /\ << >> \in Seq(Int)
        BY <1>3, <4>1
      <4>3. [axis |-> GraphAxis(c), vis |-> TRUE, data |-> << >>] \in G
        BY <4>2
      <4>4. gs[c] = [axis |-> GraphAxis(c), vis |-> TRUE, data |-> << >>]
        BY <1>5, <3>1
      <4>5. gs[c].axis = GraphAxis(c)
        BY <4>4
      <4> QED BY <4>1, <4>3, <4>4, <4>5
    <3>2. CASE c \notin cs
      BY <1>2, <1>5, <3>2 DEF IsGraphs, Live
    <3> QED BY <3>1, <3>2
  <2> QED BY <1>5, <2>1 DEF IsGraphs, Live
<1>9. /\ IsRows(new) /\ RowsOn(new, Len(axes)) /\ DOMAIN new = DOMAIN old
      /\ \A c \in DOMAIN old \cap DOMAIN loaded.chans :
           loaded.chans[c] <= Len(axes) => new[c].axis = loaded.chans[c]
  BY <1>3, <1>7, ReassignedIs
<1> HIDE DEF new
<1>10. /\ IsGraphs(drawn) /\ DOMAIN drawn = DOMAIN gs /\ Live(axes, drawn)
       /\ \A c \in DOMAIN gs : drawn[c].axis =
            IF new[c].axis # old[c].axis THEN axes[new[c].axis].id ELSE gs[c].axis
  <2>1. /\ IsAxisList(axes) /\ IsGraphs(gs) /\ IsRows(new) /\ DOMAIN new = DOMAIN gs
        /\ RowsOn(new, Len(axes))
    BY <1>2, <1>4, <1>5, <1>8, <1>9
  <2>2. /\ IsGraphs(drawn) /\ DOMAIN drawn = DOMAIN gs
        /\ Live(axes, gs) => Live(axes, drawn)
        /\ \A c \in DOMAIN gs : drawn[c].axis =
             IF new[c].axis # old[c].axis THEN axes[new[c].axis].id ELSE gs[c].axis
    BY <2>1, FollowIs
  <2> QED BY <1>8, <2>2
<1> HIDE DEF drawn
<1>11. Redrawn(axes, axes')
  <2>1. Redrawn(axes, axs)
    BY <1>2, RescaleAllIs, AxisListIs DEF Redrawn
  <2> HIDE DEF axs
  <2>2. IsAxisList(axs)
    BY <1>2, <2>1, RedrawnList
  <2>3. Redrawn(axs, FitAllAxes(axs, drawn, {}))
    BY <2>2, FitAllIs
  <2> QED BY <1>1, <2>1, <2>3, RedrawnTwice
<1>12. IsAxisList(axes') /\ Len(axes') = Len(axes)
  BY <1>2, <1>11, RedrawnList DEF Redrawn
<1>13. Live(axes', drawn)
  BY <1>10, <1>11, LiveRedrawn
<1>14. AxesInv'
  BY <1>1, <1>2, <1>4, <1>5, <1>6, <1>9, <1>10, <1>12, <1>13 DEF AxesInv
<1>15. ASSUME NEW c \in (DOMAIN new \ DOMAIN rows) \cap DOMAIN loaded.chans,
              loaded.chans[c] <= Len(axes)
       PROVE  /\ new[c].axis = loaded.chans[c] /\ drawn[c].axis = axes[loaded.chans[c]].id
  <2>1. c \in cs /\ c \in DOMAIN gs /\ new[c].axis = loaded.chans[c]
    BY <1>4, <1>5, <1>9, <1>15
  <2>2. gs[c].axis = axes[loaded.chans[c]].id
    <3>1. c \in DOMAIN loaded.chans \ DOMAIN rows
      OBVIOUS
    <3>2. GraphAxis(c) = axes[loaded.chans[c]].id
      BY <1>2, <1>15, <3>1, GraphAxisIs
    <3> QED BY <1>5, <2>1, <3>2
  <2> QED BY <1>10, <2>1, <2>2
<1> QED BY <1>1, <1>4, <1>9, <1>11, <1>14, <1>15

LEMMA NoLayoutIs == IsLayout(NoLayout)
<1>1. NoLayout.axes = << >> /\ NoLayout.chans = << >> /\ NoLayout = [axes |-> << >>, chans |-> << >>]
  BY DEF NoLayout
<1>2. << >> \in Seq(Labels) /\ Len(<< >>) = 0 /\ 0 <= MaxAxes
  BY PlotAssumption
<1>3. DOMAIN << >> \subseteq Channels /\ << >> \in [DOMAIN << >> -> AxisIds]
  OBVIOUS
<1> QED BY <1>1, <1>2, <1>3 DEF IsLayout

\* The drain appends a sample to a channel of the running recording.
LEMMA SampleStep ==
  ASSUME IsSignals(sig), SpansInv, NEW c \in DOMAIN sig, NEW t \in 0 .. MaxTime, Sample(c, t)
  PROVE  /\ IsSignals(sig') /\ DOMAIN sig' = DOMAIN sig /\ SpansInv'
         /\ WithData' = WithData \cup {c}
         /\ \A d \in WithData : sig[d][2] <= sig'[d][2]
<1> DEFINE s == IF sig[c] = << >> THEN <<t, t>> ELSE <<sig[c][1], t>>
           Span == {<<a, b>> : a, b \in 0 .. MaxTime}
<1>1. sig' = [sig EXCEPT ![c] = s] /\ (sig[c] # << >> => t > sig[c][2])
  BY DEF Sample
<1>2. DOMAIN sig \subseteq Channels /\ sig \in [DOMAIN sig -> {<< >>} \cup Span]
  BY DEF IsSignals
<1>3. /\ DOMAIN sig' = DOMAIN sig /\ sig' = [d \in DOMAIN sig |-> sig'[d]]
      /\ sig'[c] = s /\ \A d \in DOMAIN sig \ {c} : sig'[d] = sig[d]
  BY <1>1, <1>2
<1>4. MaxTime \in Nat
  BY PreviewAssumption
<1>5. sig[c] # << >> => /\ sig[c][1] \in 0 .. MaxTime /\ sig[c][2] \in 0 .. MaxTime
                        /\ sig[c][1] <= sig[c][2] /\ c \in WithData
  <2>1. sig[c] # << >> => c \in WithData
    BY DEF WithData
  <2> QED BY <2>1, SignalIs DEF SpansInv
<1>6. s \in Span /\ s # << >> /\ s[1] <= s[2] /\ (sig[c] # << >> => sig[c][2] <= s[2])
  <2>1. CASE sig[c] = << >>
    BY <1>4, <2>1
  <2>2. CASE sig[c] # << >>
    <3>1. t > sig[c][2] /\ sig[c][1] \in 0 .. MaxTime /\ sig[c][2] \in 0 .. MaxTime
          /\ sig[c][1] <= sig[c][2]
      BY <1>1, <1>5, <2>2
    <3>2. s = <<sig[c][1], t>> /\ s[1] = sig[c][1] /\ s[2] = t /\ s # << >>
      BY <2>2
    <3> HIDE DEF s
    <3>3. s \in Span
      BY <3>1, <3>2
    <3> QED BY <1>4, <3>1, <3>2, <3>3
  <2> QED BY <2>1, <2>2
<1> HIDE DEF s
<1>7. IsSignals(sig')
  <2>1. \A d \in DOMAIN sig : sig'[d] \in {<< >>} \cup Span
    BY <1>2, <1>3, <1>6
  <2> HIDE DEF Span
  <2>2. sig' \in [DOMAIN sig' -> {<< >>} \cup Span]
    BY <1>3, <2>1
  <2> QED BY <1>2, <1>3, <2>2 DEF IsSignals, Span
<1>8. WithData' = WithData \cup {c}
  BY <1>3, <1>6 DEF WithData
<1>9. \A d \in WithData : sig[d][2] <= sig'[d][2]
  <2> SUFFICES ASSUME NEW d \in WithData PROVE sig[d][2] <= sig'[d][2]
    OBVIOUS
  <2>1. d \in DOMAIN sig /\ sig[d] # << >> /\ sig[d][2] \in 0 .. MaxTime
    BY SignalIs DEF WithData
  <2> QED BY <1>3, <1>6, <2>1
<1>10. SpansInv'
  <2> SUFFICES ASSUME NEW d \in WithData' PROVE sig'[d][1] <= sig'[d][2]
    BY DEF SpansInv
  <2>1. CASE d = c
    BY <1>3, <1>6, <2>1
  <2>2. CASE d # c
    <3>1. d \in WithData /\ d \in DOMAIN sig
      BY <1>8, <2>2 DEF WithData
    <3> QED BY <1>3, <2>2, <3>1 DEF SpansInv
  <2> QED BY <2>1, <2>2
<1> QED BY <1>3, <1>7, <1>8, <1>9, <1>10

\* onTick() and onStopClicked() draw what the store has, on the axes there are.
LEMMA DrawStep ==
  ASSUME AxesInv, IsSignals(sig), origin \in Int, originSet \in BOOLEAN, onTick \/ Stop
  PROVE  /\ Redrawn(axes, axes') /\ IsGraphs(graph') /\ DOMAIN graph' = DOMAIN graph
         /\ \A c \in DOMAIN graph : graph'[c].axis = graph[c].axis
         /\ UNCHANGED <<rows, sig, mouse, paused, measureVars, pending, loaded, file, ops>>
         /\ origin' \in Int /\ originSet' \in BOOLEAN
<1>1. IsAxisList(axes) /\ IsGraphs(graph) /\ DOMAIN graph \subseteq DOMAIN sig
  BY DEF AxesInv
<1>2. UNCHANGED <<rows, sig, mouse, paused, measureVars, pending, loaded, file, ops>>
  BY DEF onTick, Stop
<1>3. Redrawn(axes, axes)
  BY <1>1, AxisListIs DEF Redrawn
<1>4. Redrawn(axes, axes')
  <2>1. CASE onTick
    <3>1. \/ axes' = axes
          \/ \E moved \in Moves :
                axes' = rescaleYAxesToWindow(axes, graph', FollowX(origin').lo, FollowX(origin').hi, moved)
      BY <2>1 DEF onTick
    <3> QED BY <1>1, <1>3, <3>1, RescaleWindowIs
  <2>2. CASE Stop
    BY <1>1, <1>3, <2>2, FitAllIs DEF Stop
  <2> QED BY <2>1, <2>2
<1>5. CASE UNCHANGED <<graph, origin, originSet>>
  BY <1>1, <1>2, <1>4, <1>5
<1>6. CASE refreshData /\ graph' = Reloaded(graph, origin')
  <2>1. origin' \in Int
    BY <1>6, OriginIs DEF refreshData
  <2>2. originSet' \in BOOLEAN
    BY <1>6, Zenon DEF refreshData
  <2>3. IsGraphs(graph') /\ DOMAIN graph' = DOMAIN graph
        /\ \A c \in DOMAIN graph : graph'[c].axis = graph[c].axis
    BY <1>1, <1>6, <2>1, ReloadedIs
  <2> QED BY <1>2, <1>4, <2>1, <2>2, <2>3
<1> QED BY <1>5, <1>6 DEF onTick, Stop

LEMMA AxesStep ==
  ASSUME TypeOK, AxesInv, DeferredInv, SpansInv, [Next]_vars
  PROVE  AxesInv'
<1>t. /\ IsAxisList(axes) /\ IsGraphs(graph) /\ IsSignals(sig) /\ IsLayout(loaded) /\ IsLayout(file)
      /\ origin \in Int /\ originSet \in BOOLEAN
  BY DEF TypeOK
<1>1. CASE PlotGesture \/ PlotMode
  <2>1. Redrawn(axes, axes') /\ UNCHANGED <<graph, rows, sig>>
    BY <1>1, PlotStep DEF hostVars
  <2> QED BY <1>t, <2>1, AxesRedrawn
<1>2. CASE EditAxes
  BY <1>2, AddAxisStep, RemoveAxisStep, RenameAxisStep DEF EditAxes
<1>3. CASE EditTable
  BY <1>3, ComboStep, VisibilityStep DEF EditTable
<1>4. CASE SaveLayout
  BY <1>4 DEF SaveLayout, plotVars, AxesInv
<1>5. CASE LoadLayout
  <2>1. IsLayout(NoLayout)
    BY NoLayoutIs
  <2> QED BY <1>t, <1>5, <2>1, LayoutStep DEF LoadLayout
<1>6. CASE Record
  BY <1>t, <1>6, StartStep DEF Record
<1>7. CASE \E c \in DOMAIN sig, t \in 0 .. MaxTime : Sample(c, t)
  <2>1. PICK c \in DOMAIN sig, t \in 0 .. MaxTime : Sample(c, t)
    BY <1>7
  <2>2. DOMAIN sig' = DOMAIN sig
    BY <1>t, <2>1, SampleStep
  <2>3. UNCHANGED <<axes, graph, rows>>
    BY <2>1 DEF Sample, plotVars
  <2> QED BY <2>2, <2>3 DEF AxesInv
<1>8. CASE onTick \/ Stop
  <2>1. /\ Redrawn(axes, axes') /\ IsGraphs(graph') /\ DOMAIN graph' = DOMAIN graph
        /\ \A c \in DOMAIN graph : graph'[c].axis = graph[c].axis
        /\ UNCHANGED <<rows, sig>>
    BY <1>t, <1>8, DrawStep
  <2> QED BY <2>1, AxesRedrawn
<1>9. CASE UNCHANGED vars
  BY <1>9 DEF vars, plotVars, hostVars, AxesInv
<1> QED BY <1>1, <1>2, <1>3, <1>4, <1>5, <1>6, <1>7, <1>8, <1>9 DEF Next

-----------------------------------------------------------------------------
(* The measurements                                                         *)

\* A point read on the axis list axs, in which the measurement's axis still is
\* where it was.
OnAxis(p, a, axs) == a \in 1 .. Len(axs) /\ a \in DOMAIN p /\ p[a] = axs[a].id
PlacedOne(m, axs) == /\ m.p1 # << >> /\ OnAxis(m.p1, m.anchor, axs)
                     /\ m.p2 # << >> => OnAxis(m.p2, m.anchor, axs)
Placed(ms, axs) == /\ ms \in Seq(Measurement)
                   /\ \A k \in 1 .. Len(ms) : /\ PlacedOne(ms[k], axs)
                                              /\ ms[k].p2 # << >> \/ k = Len(ms)

LEMMA PlacedIs ==
  ASSUME TypeOK
  PROVE  Placed(measurements, axes) <=>
           /\ MeasurementOnItsAxis /\ PointsInv
           /\ \A k \in DOMAIN measurements : measurements[k].p2 # << >> \/ k = Len(measurements)
<1>1. measurements \in Seq(Measurement) /\ DOMAIN measurements = 1 .. Len(measurements)
  BY LenProperties DEF TypeOK
<1>2. ASSUME NEW m
      PROVE  PlacedOne(m, axes) <=>
               /\ m.p1 # << >>
               /\ \A p \in {m.p1, m.p2} \ {<< >>} :
                    m.anchor \in Indices \cap DOMAIN p /\ p[m.anchor] = axes[m.anchor].id
  BY DEF PlacedOne, OnAxis, Indices
<1> QED BY <1>1, <1>2 DEF Placed, MeasurementOnItsAxis, PointsInv

\* Axes that are added or redrawn leave the measurements where they are.
LEMMA PlacedKept ==
  ASSUME NEW ms, NEW a, NEW b, Placed(ms, a), Len(a) \in Nat, Len(b) \in Nat, Len(a) <= Len(b),
         \A i \in 1 .. Len(a) : b[i].id = a[i].id
  PROVE  Placed(ms, b)
<1>1. \A p, n : OnAxis(p, n, a) => OnAxis(p, n, b)
  BY DEF OnAxis
<1> QED BY <1>1 DEF Placed, PlacedOne

LEMMA PlacedNone == \A axs : Placed(<< >>, axs)
<1>1. << >> \in Seq(Measurement) /\ 1 .. Len(<< >>) = {}
  OBVIOUS
<1> QED BY <1>1 DEF Placed

LEMMA PlacedAppend ==
  ASSUME NEW ms, NEW axs, Placed(ms, axs), \A k \in 1 .. Len(ms) : ms[k].p2 # << >>,
         NEW m \in Measurement, PlacedOne(m, axs)
  PROVE  Placed(Append(ms, m), axs)
<1> DEFINE b == Append(ms, m)
<1>1. ms \in Seq(Measurement) /\ Len(ms) \in Nat
  BY LenProperties DEF Placed
<1>2. /\ b \in Seq(Measurement) /\ Len(b) = Len(ms) + 1 /\ b[Len(ms) + 1] = m
      /\ \A j \in 1 .. Len(ms) : b[j] = ms[j]
  BY <1>1, AppendIs
<1> HIDE DEF b
<1>3. ASSUME NEW k \in 1 .. Len(b)
      PROVE  PlacedOne(b[k], axs) /\ (b[k].p2 # << >> \/ k = Len(b))
  <2>1. CASE k \in 1 .. Len(ms)
    BY <1>2, <2>1 DEF Placed
  <2>2. CASE k = Len(ms) + 1
    BY <1>2, <2>2
  <2> QED BY <1>1, <1>2, <2>1, <2>2
<1> QED BY <1>2, <1>3 DEF Placed, b

LEMMA PlacedFront ==
  ASSUME NEW ms, NEW axs, Placed(ms, axs), ms # << >>
  PROVE  /\ Placed(Front(ms), axs) /\ \A k \in 1 .. Len(Front(ms)) : Front(ms)[k].p2 # << >>
         /\ Last(ms) \in Measurement /\ PlacedOne(Last(ms), axs)
<1>1. ms \in Seq(Measurement) /\ Len(ms) \in Nat /\ Len(ms) # 0
  BY LenProperties, EmptySeq DEF Placed
<1>2. /\ Front(ms) \in Seq(Measurement) /\ Len(Front(ms)) = Len(ms) - 1
      /\ \A k \in 1 .. Len(ms) - 1 : Front(ms)[k] = ms[k]
  <2> DEFINE n == Len(ms) - 1
             f == SubSeq(ms, 1, n)
  <2>1. /\ n \in Nat /\ n <= Len(ms) /\ 1 \in Nat
        /\ \A j \in 1 .. n : ms[j] \in Measurement
    BY <1>1, ElementOfSeq
  <2>2. Front(ms) = f
    BY DEF Front
  <2> HIDE DEF n
  <2>3. /\ f \in Seq(Measurement) /\ Len(f) = IF 1 <= n THEN n - 1 + 1 ELSE 0
        /\ \A j \in 1 .. n - 1 + 1 : f[j] = ms[1 + j - 1]
    BY <1>1, <2>1, SubSeqProperties
  <2> HIDE DEF f
  <2>4. f \in Seq(Measurement) /\ Len(f) = n /\ \A j \in 1 .. n : f[j] = ms[j]
    BY <2>1, <2>3
  <2> QED BY <2>2, <2>4 DEF n
<1>3. Last(ms) = ms[Len(ms)] /\ Len(ms) \in 1 .. Len(ms)
  BY <1>1 DEF Last
<1>4. Last(ms) \in Measurement /\ PlacedOne(Last(ms), axs)
  BY <1>1, <1>3, ElementOfSeq DEF Placed
<1>5. ASSUME NEW k \in 1 .. Len(Front(ms))
      PROVE  PlacedOne(Front(ms)[k], axs) /\ Front(ms)[k].p2 # << >>
  <2>1. k \in 1 .. Len(ms) /\ k # Len(ms) /\ Front(ms)[k] = ms[k]
    BY <1>1, <1>2
  <2> QED BY <2>1 DEF Placed
<1> QED BY <1>2, <1>4, <1>5 DEF Placed

LEMMA PlacedRemove ==
  ASSUME NEW ms, NEW axs, Placed(ms, axs), NEW i \in 1 .. Len(ms)
  PROVE  Placed(RemoveAt(ms, i), axs)
<1> DEFINE b == RemoveAt(ms, i)
<1>1. ms \in Seq(Measurement) /\ Len(ms) \in Nat
  BY LenProperties DEF Placed
<1>2. /\ b \in Seq(Measurement) /\ Len(b) = Len(ms) - 1
      /\ \A j \in 1 .. Len(ms) - 1 : b[j] = IF j < i THEN ms[j] ELSE ms[j + 1]
  <2>1. i \in DOMAIN ms
    BY <1>1, LenProperties
  <2> QED BY <1>1, <2>1, RemoveAtIs
<1> HIDE DEF b
<1>3. ASSUME NEW k \in 1 .. Len(b)
      PROVE  PlacedOne(b[k], axs) /\ (b[k].p2 # << >> \/ k = Len(b))
  <2>1. PICK j \in 1 .. Len(ms) : b[k] = ms[j] /\ (j = k \/ j = k + 1) /\ (j = Len(ms) => k = Len(b))
    BY <1>1, <1>2
  <2> QED BY <2>1 DEF Placed
<1> QED BY <1>2, <1>3 DEF Placed, b

LEMMA PointIs ==
  ASSUME IsAxisList(axes)
  PROVE  /\ pointAt(axes) \in Seq(AxisIds) /\ pointAt(axes) # << >>
         /\ \A a \in 1 .. Len(axes) : OnAxis(pointAt(axes), a, axes)
<1>1. /\ Len(axes) \in 1 .. MaxAxes /\ DOMAIN axes = 1 .. Len(axes) /\ Len(axes) \in Nat
      /\ \A i \in 1 .. Len(axes) : axes[i].id \in AxisIds
  BY AxisListIs
<1> DEFINE p == pointAt(axes)
<1>2. p = [i \in 1 .. Len(axes) |-> axes[i].id]
  BY <1>1 DEF pointAt
<1>3. p \in Seq(AxisIds) /\ Len(p) = Len(axes) /\ DOMAIN p = 1 .. Len(axes)
      /\ \A i \in 1 .. Len(axes) : p[i] = axes[i].id
  <2> HIDE DEF p
  <2> QED BY <1>1, <1>2
<1> HIDE DEF p
<1>4. p # << >>
  BY <1>1, <1>3
<1> QED BY <1>3, <1>4 DEF OnAxis, p

\* A click completes the newest measurement or starts the next one.
LEMMA PlaceStep ==
  ASSUME IsAxisList(axes), Placed(measurements, axes), NEW s \in 0 .. Len(axes), placeMeasurePoint(s)
  PROVE  Placed(measurements', axes)
<1> DEFINE ms == measurements
           fresh == ms = << >> \/ Complete(Last(ms))
           pt == pointAt(axes)
           anchor == IF s = 0 THEN 1 ELSE s
           first == [Blank EXCEPT !.p1 = pt, !.anchor = anchor]
<1>1. Len(axes) \in 1 .. MaxAxes /\ MaxAxes \in Nat
  BY AxisListIs, PlotAssumption
<1>2. pt \in Seq(AxisIds) /\ pt # << >> /\ \A a \in 1 .. Len(axes) : OnAxis(pt, a, axes)
  BY PointIs
<1>3. anchor \in 1 .. Len(axes) /\ anchor \in AxisIds
  BY <1>1 DEF AxisIds
<1> HIDE DEF pt, anchor
<1>4. CASE fresh
  <2>1. measurements' = Append(ms, first)
    BY <1>4 DEF placeMeasurePoint, pt, anchor, Blank
  <2>2. << >> \in Seq(AxisIds) /\ 1 \in AxisIds
    BY <1>1 DEF AxisIds
  <2>3. Blank \in Measurement /\ Blank.p2 = << >>
    BY <2>2 DEF Blank, Measurement
  <2>5. first \in Measurement /\ first.p1 = pt /\ first.p2 = << >> /\ first.anchor = anchor
    BY <1>2, <1>3, <2>3 DEF Measurement
  <2>6. PlacedOne(first, axes)
    BY <1>2, <1>3, <2>5 DEF PlacedOne
  <2>4. \A k \in 1 .. Len(ms) : ms[k].p2 # << >>
    BY <1>4 DEF Placed, Complete, Last
  <2> HIDE DEF first
  <2> QED BY <2>1, <2>4, <2>5, <2>6, PlacedAppend
<1>5. CASE ~fresh
  <2> DEFINE m == Last(ms)
             second == [m EXCEPT !.p2 = pt]
  <2>1. /\ Placed(Front(ms), axes) /\ \A k \in 1 .. Len(Front(ms)) : Front(ms)[k].p2 # << >>
        /\ m \in Measurement /\ PlacedOne(m, axes)
    BY <1>5, PlacedFront
  <2>2. measurements' = Append(Front(ms), second)
    BY <1>5, <2>1 DEF placeMeasurePoint, pt, PlacedOne
  <2>3. m.anchor \in 1 .. Len(axes) /\ m.p1 # << >> /\ OnAxis(m.p1, m.anchor, axes)
    BY <2>1 DEF PlacedOne, OnAxis
  <2> HIDE DEF m
  <2>4. second \in Measurement /\ PlacedOne(second, axes)
    BY <1>2, <2>1, <2>3 DEF Measurement, PlacedOne
  <2> HIDE DEF second
  <2> QED BY <2>1, <2>2, <2>4, PlacedAppend
<1> QED BY <1>4, <1>5

LEMMA MeasuredStep ==
  ASSUME IsAxisList(axes), Placed(measurements, axes), Measuring
  PROVE  Placed(measurements', axes)
<1>1. CASE \E s \in 0 .. Len(axes) : placeMeasurePoint(s)
  BY <1>1, PlaceStep
<1>2. CASE removeMeasurement
  <2>1. CASE clearMeasurement
    BY <2>1, PlacedNone DEF clearMeasurement
  <2>2. CASE ~clearMeasurement
    <3>1. PICK i \in DOMAIN measurements : measurements' = RemoveAt(measurements, i)
      BY <1>2, <2>2 DEF removeMeasurement
    <3>2. i \in 1 .. Len(measurements)
      BY <3>1, LenProperties DEF Placed
    <3> QED BY <3>1, <3>2, PlacedRemove
  <2> QED BY <2>1, <2>2
<1>3. CASE setMeasureMode
  BY <1>3, PlacedNone DEF setMeasureMode, clearMeasurement
<1>4. CASE UNCHANGED measurements
  BY <1>4
<1> QED BY <1>1, <1>2, <1>3, <1>4 DEF Measuring, foldPanel, dragDivider, afterReplot

\* Whatever happens to the axis list, the measurements stay on their axes: the
\* steps that renumber it clear them.
LEMMA PlacedStep ==
  ASSUME TypeOK, AxesInv, DeferredInv, SpansInv, Placed(measurements, axes), [Next]_vars
  PROVE  Placed(measurements', axes')
<1>t. /\ IsAxisList(axes) /\ IsSignals(sig) /\ IsLayout(loaded) /\ IsLayout(file)
      /\ origin \in Int /\ originSet \in BOOLEAN
  BY DEF TypeOK
<1>n. Len(axes) \in Nat /\ Len(axes) >= 1
  BY <1>t, AxisListIs
<1>m. Len(axes) = 1 \/ Len(axes) > 1
  <2>1. \A k \in Nat : k >= 1 => k = 1 \/ k > 1
    OBVIOUS
  <2> QED BY <1>n, <2>1
<1>k. ASSUME measurements' = measurements, Redrawn(axes, axes') PROVE Placed(measurements', axes')
  BY <1>n, <1>k, PlacedKept DEF Redrawn
<1>1. CASE PlotGesture \/ PlotMode
  <2>1. Redrawn(axes, axes') /\ (UNCHANGED measureVars \/ (Measuring /\ UNCHANGED axes))
    BY <1>1, PlotStep
  <2>2. CASE UNCHANGED measureVars
    BY <1>k, <2>1, <2>2 DEF measureVars
  <2>3. CASE Measuring /\ UNCHANGED axes
    BY <1>t, <2>3, MeasuredStep
  <2> QED BY <2>1, <2>2, <2>3
<1>2. CASE AddAxis
  <2>1. Len(axes) < MaxAxes /\ DefaultLabel \in Labels
    BY <1>2, PlotAssumption DEF AddAxis
  <2>2. Len(axes') = Len(axes) + 1 /\ \A i \in Indices : axes'[i] = axes[i]
    BY <1>t, <1>2, <2>1, AddedIs DEF AddAxis, addYAxis
  <2>3. measurements' = measurements
    BY <1>2 DEF AddAxis, measureVars
  <2>4. /\ Len(axes') \in Nat /\ Len(axes) <= Len(axes')
        /\ \A i \in 1 .. Len(axes) : axes'[i].id = axes[i].id
    BY <1>n, <2>2 DEF Indices
  <2> QED BY <1>n, <2>3, <2>4, PlacedKept
<1>3. CASE \E i \in Indices : RemoveAxis(i)
  BY <1>3, PlacedNone DEF RemoveAxis, removeYAxis, clearMeasurement
<1>4. CASE \E i \in Indices, l \in Labels : RenameAxis(i, l)
  <2>1. PICK i \in Indices, l \in Labels : RenameAxis(i, l)
    BY <1>4
  <2>2. Len(axes') = Len(axes) /\ \A j \in 1 .. Len(axes) : axes'[j].id = axes[j].id
    BY <2>1, RenameAxisStep
  <2>3. measurements' = measurements
    BY <2>1 DEF RenameAxis, measureVars
  <2> QED BY <1>n, <2>2, <2>3, PlacedKept
<1>5. CASE EditTable
  <2>1. PICK c \in DOMAIN rows : onVisibilityChanged(c) \/ \E i \in Indices : onAxisComboChanged(c, i)
    BY <1>5 DEF EditTable
  <2>2. measurements' = measurements
    BY <2>1 DEF onVisibilityChanged, onAxisComboChanged, measureVars
  <2>3. Redrawn(axes, axes')
    <3>1. CASE onVisibilityChanged(c)
      BY <1>t, <3>1, AxisListIs DEF onVisibilityChanged, Redrawn
    <3>2. CASE \E i \in Indices : onAxisComboChanged(c, i)
      BY <3>2, ComboStep
    <3> QED BY <2>1, <3>1, <3>2
  <2> QED BY <1>k, <2>2, <2>3
<1>6. CASE UNCHANGED plotVars
  BY <1>6 DEF plotVars
<1>7. CASE LoadLayout
  <2>1. PICK l : IsLayout(l) /\ applyPlotLayout(l)
    BY <1>t, <1>7, NoLayoutIs DEF LoadLayout
  <2>2. CASE Len(axes) > 1
    BY <2>1, <2>2, PlacedNone DEF applyPlotLayout, clearMeasurement
  <2>3. CASE ~(Len(axes) > 1)
    <3>0. Len(axes) = 1
      BY <1>m, <2>3
    <3>1. measurements' = measurements
      BY <2>1, <2>3 DEF applyPlotLayout
    <3>2. axes'[1].id = axes[1].id /\ IsAxisList(axes')
      BY <2>1, LayoutStep DEF AxesInv
    <3>3. Len(axes') \in Nat /\ Len(axes') >= 1
      BY <3>2, AxisListIs
    <3>4. Len(axes) <= Len(axes') /\ \A i \in 1 .. Len(axes) : axes'[i].id = axes[i].id
      BY <3>0, <3>2, <3>3
    <3> QED BY <1>n, <3>1, <3>3, <3>4, PlacedKept
  <2> QED BY <2>2, <2>3
<1>8. CASE Record
  <2>1. PICK cs \in SUBSET Channels, ok \in BOOLEAN : Start(cs, ok)
    BY <1>8 DEF Record
  <2>2. Redrawn(axes, axes')
    BY <1>t, <2>1, StartStep
  <2>3. measurements' = measurements
    BY <2>1 DEF Start, measureVars
  <2> QED BY <1>k, <2>2, <2>3
<1>9. CASE onTick \/ Stop
  <2>1. Redrawn(axes, axes') /\ UNCHANGED measureVars
    BY <1>t, <1>9, DrawStep
  <2> QED BY <1>k, <2>1 DEF measureVars
<1>10. CASE SaveLayout \/ (\E c \in DOMAIN sig, t \in 0 .. MaxTime : Sample(c, t)) \/ UNCHANGED vars
  BY <1>6, <1>10 DEF SaveLayout, Sample, vars
<1> QED BY <1>1, <1>2, <1>3, <1>4, <1>5, <1>7, <1>8, <1>9, <1>10 DEF Next, EditAxes

-----------------------------------------------------------------------------
(* The panel of the measurement table                                       *)

\* The height d is in the panel, or put aside in it.
Remembered(p, d) ==
  /\ p \in Panel /\ d \in Nat
  /\ ~p.userSized => p.unfoldedPx = 0
  /\ p.userSized => /\ d \in DragHeights
                    /\ (IF p.unfoldedPx > 0 THEN p.unfoldedPx ELSE p.height) = d
PanelOK(p, d) == Remembered(p, d) /\ (~p.folded => p.unfoldedPx = 0)

LEMMA PanelIs ==
  ASSUME TypeOK
  PROVE  /\ PanelOK(panel, dragged) <=> PanelInv
         /\ PanelOK(panel, dragged) => (~panel.folded /\ panel.userSized => panel.height = dragged)
<1>1. panel \in Panel /\ dragged \in Nat
  BY DEF TypeOK
<1> QED BY <1>1 DEF PanelOK, Remembered, PanelInv, Panel

\* updateMeasurePanel() gives the height back, or keeps it aside.
LEMMA PanelUpdate ==
  ASSUME NEW p, NEW d, Remembered(p, d)
  PROVE  PanelOK(updateMeasurePanel(p), d)
<1>1. /\ p \in Panel /\ d \in Nat /\ p.height \in Nat /\ p.unfoldedPx \in Nat
      /\ d \in DragHeights => d > 0
  BY PlotAssumption DEF Remembered, Panel
<1>2. CASE p.folded
  <2> DEFINE px == IF p.userSized /\ p.unfoldedPx = 0 THEN p.height ELSE p.unfoldedPx
             q == [p EXCEPT !.height = HeadPx, !.unfoldedPx = px]
  <2>1. updateMeasurePanel(p) = q
    BY <1>1, <1>2 DEF updateMeasurePanel, Panel
  <2>2. px \in Nat /\ (p.userSized => px = d /\ px > 0) /\ (~p.userSized => px = 0)
    BY <1>1 DEF Remembered
  <2> HIDE DEF px
  <2>3. q \in Panel /\ q.folded = p.folded /\ q.userSized = p.userSized /\ q.unfoldedPx = px
    BY <1>1, <2>2 DEF Panel, HeadPx
  <2> HIDE DEF q
  <2>4. Remembered(q, d)
    BY <1>1, <2>2, <2>3 DEF Remembered
  <2> QED BY <1>2, <2>1, <2>3, <2>4 DEF PanelOK
<1>3. CASE ~p.folded /\ ~p.userSized
  <2> DEFINE q == [p EXCEPT !.height = HugPx]
  <2>1. updateMeasurePanel(p) = q
    BY <1>3 DEF updateMeasurePanel
  <2>2. /\ q \in Panel /\ q.folded = p.folded /\ q.userSized = p.userSized
        /\ q.unfoldedPx = p.unfoldedPx
    BY <1>1 DEF Panel, HugPx
  <2> HIDE DEF q
  <2> QED BY <1>3, <2>1, <2>2 DEF PanelOK, Remembered
<1>4. CASE ~p.folded /\ p.userSized /\ p.unfoldedPx = 0
  BY <1>4 DEF updateMeasurePanel, PanelOK
<1>5. CASE ~p.folded /\ p.userSized /\ p.unfoldedPx # 0
  <2> DEFINE q == [p EXCEPT !.height = p.unfoldedPx, !.unfoldedPx = 0]
  <2>1. updateMeasurePanel(p) = q
    BY <1>5 DEF updateMeasurePanel
  <2>2. /\ q \in Panel /\ q.folded = p.folded /\ q.userSized = p.userSized
        /\ q.unfoldedPx = 0 /\ q.height = p.unfoldedPx
    BY <1>1 DEF Panel
  <2> HIDE DEF q
  <2>3. p.unfoldedPx = d /\ d \in DragHeights
    BY <1>1, <1>5 DEF Remembered
  <2>4. Remembered(q, d)
    BY <1>1, <1>5, <2>2, <2>3 DEF Remembered
  <2> QED BY <2>1, <2>2, <2>4 DEF PanelOK
<1> QED BY <1>2, <1>3, <1>4, <1>5

LEMMA FoldStep ==
  ASSUME PanelOK(panel, dragged), foldPanel
  PROVE  PanelOK(panel', dragged')
<1> DEFINE b == ~panel.folded
           q == [panel EXCEPT !.folded = b]
<1>1. b \in BOOLEAN
  BY Zenon
<1>2. panel' = updateMeasurePanel(q) /\ dragged' = dragged
  BY DEF foldPanel
<1> HIDE DEF b
<1>3. panel \in Panel /\ Remembered(panel, dragged)
  BY DEF PanelOK, Remembered
<1>4. /\ q \in Panel /\ q.userSized = panel.userSized /\ q.unfoldedPx = panel.unfoldedPx
      /\ q.height = panel.height
  BY <1>1, <1>3 DEF Panel
<1> HIDE DEF q
<1>5. Remembered(q, dragged)
  BY <1>3, <1>4 DEF Remembered
<1> QED BY <1>2, <1>5, PanelUpdate

LEMMA DividerStep ==
  ASSUME PanelOK(panel, dragged), NEW h \in DragHeights, dragDivider(h)
  PROVE  PanelOK(panel', dragged')
<1> DEFINE q == [panel EXCEPT !.userSized = TRUE, !.height = h]
<1>1. /\ panel' = q /\ panel \in Panel /\ h \in Nat /\ panel.unfoldedPx \in Nat
      /\ dragged' = IF panel.folded /\ panel.unfoldedPx > 0 THEN dragged ELSE h
  BY PlotAssumption DEF dragDivider, PanelOK, Remembered, Panel
<1>2. /\ q \in Panel /\ q.userSized = TRUE /\ q.height = h /\ q.folded = panel.folded
      /\ q.unfoldedPx = panel.unfoldedPx
  BY <1>1 DEF Panel
<1> HIDE DEF q
<1>3. CASE panel.folded /\ panel.unfoldedPx > 0
  BY <1>1, <1>2, <1>3 DEF PanelOK, Remembered
<1>4. CASE ~panel.folded /\ panel.unfoldedPx > 0
  BY <1>4 DEF PanelOK
<1>5. CASE ~(panel.unfoldedPx > 0)
  BY <1>1, <1>2, <1>5 DEF PanelOK, Remembered
<1> QED BY <1>3, <1>4, <1>5

\* Nothing else touches the panel but to update it.
LEMMA PanelStep ==
  ASSUME TypeOK, PanelOK(panel, dragged), [Next]_vars
  PROVE  PanelOK(panel', dragged')
<1>1. CASE UNCHANGED <<panel, dragged>>
  BY <1>1
<1>2. CASE panel' = updateMeasurePanel(panel) /\ UNCHANGED dragged
  BY <1>2, PanelUpdate DEF PanelOK
<1>3. CASE foldPanel
  BY <1>3, FoldStep
<1>4. CASE \E h \in DragHeights : dragDivider(h)
  BY <1>4, DividerStep
<1>5. CASE PlotGesture \/ PlotMode
  <2>1. UNCHANGED measureVars \/ Measuring
    BY <1>5, PlotStep
  <2>2. CASE Measuring
    BY <1>2, <1>3, <1>4, <2>2 DEF Measuring, placeMeasurePoint, removeMeasurement, clearMeasurement,
       setMeasureMode, afterReplot
  <2> QED BY <1>1, <2>1, <2>2 DEF measureVars
<1>6. CASE EditAxes
  BY <1>1, <1>2, <1>6 DEF EditAxes, AddAxis, RemoveAxis, RenameAxis, removeYAxis, clearMeasurement, measureVars
<1>7. CASE EditTable
  BY <1>1, <1>7 DEF EditTable, onVisibilityChanged, onAxisComboChanged, measureVars
<1>8. CASE LoadLayout
  BY <1>1, <1>2, <1>8 DEF LoadLayout, applyPlotLayout, clearMeasurement
<1>9. CASE Record
  BY <1>1, <1>9 DEF Record, Start, measureVars
<1>10. CASE onTick \/ Stop
  BY <1>1, <1>10 DEF onTick, Stop, measureVars
<1>11. CASE SaveLayout \/ (\E c \in DOMAIN sig, t \in 0 .. MaxTime : Sample(c, t)) \/ UNCHANGED vars
  BY <1>1, <1>11 DEF SaveLayout, Sample, vars, plotVars
<1> QED BY <1>5, <1>6, <1>7, <1>8, <1>9, <1>10, <1>11 DEF Next

-----------------------------------------------------------------------------
(* Layouts, samples and the rest of the state                               *)

LEMMA RowsKept ==
  ASSUME AxesInv, EditAxes \/ EditTable
  PROVE  /\ DOMAIN rows' = DOMAIN rows
         /\ UNCHANGED <<xAxis, mouse, paused, measureMode, dragged, sig, pending, loaded, file,
                        recording, live, originSet, origin>>
         /\ ops' = ops + 1
<1>1. CASE EditAxes
  <2>1. CASE AddAxis
    BY <2>1 DEF AddAxis, Edits, measureVars, rebuildAxisCombos
  <2>2. CASE \E i \in Indices : RemoveAxis(i)
    BY <2>2 DEF RemoveAxis, Edits, rebuildAxisCombos
  <2>3. CASE \E i \in Indices, l \in Labels : RenameAxis(i, l)
    BY <2>3 DEF RenameAxis, Edits, measureVars, hostVars
  <2> QED BY <1>1, <2>1, <2>2, <2>3 DEF EditAxes
<1>2. CASE EditTable
  <2>1. PICK c \in DOMAIN rows : onVisibilityChanged(c) \/ \E i \in Indices : onAxisComboChanged(c, i)
    BY <1>2 DEF EditTable
  <2>2. CASE onVisibilityChanged(c)
    BY <2>2 DEF onVisibilityChanged, Edits, measureVars
  <2>3. CASE \E i \in Indices : onAxisComboChanged(c, i)
    BY <2>3 DEF onAxisComboChanged, Edits, measureVars
  <2> QED BY <2>1, <2>2, <2>3
<1> QED BY <1>1, <1>2

\* What a layout says of a channel that is not there stays for it.
LEMMA DeferredStep ==
  ASSUME TypeOK, AxesInv, DeferredInv, [Next]_vars
  PROVE  DeferredInv'
<1>t. IsLayout(loaded) /\ IsLayout(file) /\ IsLayout(NoLayout)
  BY NoLayoutIs DEF TypeOK
<1>1. CASE DOMAIN rows' = DOMAIN rows /\ UNCHANGED <<pending, loaded>>
  BY <1>1 DEF DeferredInv, Deferred, Without
<1>2. CASE PlotGesture \/ PlotMode \/ UNCHANGED vars
  BY <1>1, <1>2 DEF PlotGesture, PlotMode, vars, hostVars
<1>3. CASE EditAxes \/ EditTable
  BY <1>1, <1>3, RowsKept
<1>4. CASE LoadLayout
  <2>1. PICK l : IsLayout(l) /\ applyPlotLayout(l)
    BY <1>t, <1>4 DEF LoadLayout
  <2>2. pending' = Deferred(rows', l) /\ loaded' = l
    BY <2>1, LayoutStep DEF applyPlotLayout
  <2> QED BY <2>2 DEF DeferredInv
<1>5. CASE Record
  <2>1. PICK cs \in SUBSET Channels, ok \in BOOLEAN : Start(cs, ok)
    BY <1>5 DEF Record
  <2>2. pending' = Deferred(rows', loaded) /\ loaded' = loaded
    BY <1>t, <2>1, StartStep DEF Start
  <2> QED BY <2>2 DEF DeferredInv
<1>6. CASE SaveLayout \/ (\E c \in DOMAIN sig, t \in 0 .. MaxTime : Sample(c, t)) \/ onTick \/ Stop
  BY <1>1, <1>6 DEF SaveLayout, Sample, onTick, Stop
<1> QED BY <1>2, <1>3, <1>4, <1>5, <1>6 DEF Next

\* Start clears the channels it records, and no other channel loses samples.
LEMMA ClearedIs ==
  ASSUME IsSignals(sig), NEW cs \in SUBSET Channels, sig' = Extend(sig, [c \in cs |-> << >>])
  PROVE  /\ IsSignals(sig') /\ WithData' \subseteq WithData
         /\ \A c \in WithData' : sig'[c] = sig[c]
<1> DEFINE none == [c \in cs |-> << >>]
           S == {<< >>} \cup {<<a, b>> : a, b \in 0 .. MaxTime}
<1>1. DOMAIN none = cs /\ \A c \in cs : none[c] = << >>
  OBVIOUS
<1>2. sig' = Extend(sig, none)
  OBVIOUS
<1> HIDE DEF none
<1>3. /\ DOMAIN sig' = DOMAIN sig \cup cs /\ sig' = [c \in DOMAIN sig \cup cs |-> sig'[c]]
      /\ \A c \in cs : sig'[c] = << >>
      /\ \A c \in DOMAIN sig \ cs : sig'[c] = sig[c]
  <2>1. /\ DOMAIN Extend(sig, none) = DOMAIN sig \cup DOMAIN none
        /\ Extend(sig, none) = [x \in DOMAIN sig \cup DOMAIN none |-> Extend(sig, none)[x]]
        /\ \A x \in DOMAIN none : Extend(sig, none)[x] = none[x]
        /\ \A x \in DOMAIN sig \ DOMAIN none : Extend(sig, none)[x] = sig[x]
    BY ExtendIs
  <2> QED BY <1>1, <1>2, <2>1
<1>4. IsSignals(sig')
  <2>1. DOMAIN sig \subseteq Channels /\ sig \in [DOMAIN sig -> S]
    BY DEF IsSignals
  <2>2. << >> \in S
    OBVIOUS
  <2> HIDE DEF S
  <2>3. \A c \in DOMAIN sig' : sig'[c] \in S
    BY <1>3, <2>1, <2>2
  <2>4. sig' \in [DOMAIN sig' -> S]
    BY <1>3, <2>3
  <2> QED BY <1>3, <2>1, <2>4 DEF IsSignals, S
<1>5. \A c \in WithData' : c \in DOMAIN sig \ cs
  BY <1>3 DEF WithData
<1> QED BY <1>3, <1>4, <1>5 DEF WithData

\* The samples of a channel are in order, and the recording is not before its
\* origin.
LEMMA OriginStep ==
  ASSUME TypeOK, AxesInv, SpansInv, OriginInv, [Next]_vars
  PROVE  SpansInv' /\ OriginInv'
<1>t. IsSignals(sig) /\ origin \in Int /\ originSet \in BOOLEAN
  BY DEF TypeOK
<1>1. CASE UNCHANGED <<sig, recording, originSet, origin>>
  BY <1>1 DEF SpansInv, OriginInv, WithData
<1>2. CASE PlotGesture \/ PlotMode \/ UNCHANGED vars
  BY <1>1, <1>2 DEF PlotGesture, PlotMode, vars, hostVars
<1>3. CASE EditAxes \/ EditTable
  BY <1>1, <1>3, RowsKept
<1>4. CASE SaveLayout \/ LoadLayout
  BY <1>1, <1>4 DEF SaveLayout, LoadLayout, applyPlotLayout
<1>5. CASE Record
  <2>1. PICK cs \in SUBSET Channels, ok \in BOOLEAN : Start(cs, ok)
    BY <1>5 DEF Record
  <2>2. ~(recording' /\ originSet')
    BY <2>1 DEF Start
  <2>3. sig' = Extend(sig, [c \in cs |-> << >>])
    BY <2>1 DEF Start
  <2>4. WithData' \subseteq WithData /\ \A c \in WithData' : sig'[c] = sig[c]
    BY <1>t, <2>3, ClearedIs
  <2> QED BY <2>2, <2>4 DEF SpansInv, OriginInv
<1>6. CASE \E c \in DOMAIN sig, t \in 0 .. MaxTime : Sample(c, t)
  <2>1. PICK c \in DOMAIN sig, t \in 0 .. MaxTime : Sample(c, t)
    BY <1>6
  <2>2. /\ IsSignals(sig') /\ SpansInv' /\ WithData' = WithData \cup {c}
        /\ \A d \in WithData : sig[d][2] <= sig'[d][2]
    BY <1>t, <2>1, SampleStep
  <2>3. UNCHANGED <<recording, originSet, origin>>
    BY <2>1 DEF Sample
  <2>4. ASSUME recording, originSet PROVE \E d \in WithData' : origin <= sig'[d][2]
    <3>1. PICK d \in WithData : origin <= sig[d][2]
      BY <2>4 DEF OriginInv
    <3>2. sig[d][2] \in 0 .. MaxTime /\ d \in WithData'
      BY <1>t, <2>2, SignalIs
    <3>3. sig'[d][2] \in Nat
      <4>1. d \in DOMAIN sig' /\ sig'[d] \in {<<a, b>> : a, b \in 0 .. MaxTime}
        BY <2>2, <3>2 DEF WithData, IsSignals
      <4>2. PICK a \in 0 .. MaxTime, b \in 0 .. MaxTime : sig'[d] = <<a, b>>
        BY <4>1
      <4> QED BY <4>2, PreviewAssumption
    <3>4. sig[d][2] <= sig'[d][2] /\ sig[d][2] \in Int /\ sig'[d][2] \in Int
      BY <2>2, <3>2, <3>3
    <3> QED BY <1>t, <3>1, <3>2, <3>4
  <2> QED BY <2>2, <2>3, <2>4 DEF OriginInv
<1>7. CASE onTick
  <2>1. UNCHANGED <<sig, recording>> /\ refreshData
    BY <1>7 DEF onTick
  <2>2. ASSUME recording, originSet' PROVE \E d \in WithData : origin' <= sig[d][2]
    <3>1. CASE originSet
      <4>1. origin' = origin
        BY <1>t, <2>1, <3>1, OriginIs DEF refreshData
      <4> QED BY <2>2, <3>1, <4>1 DEF OriginInv
    <3>2. CASE ~originSet
      <4>1. WithData # {}
        BY <2>1, <2>2, <3>2 DEF refreshData
      <4>2. PICK d \in WithData : origin' = sig[d][1]
        BY <1>t, <2>1, <3>2, <4>1, OriginIs DEF refreshData
      <4> QED BY <4>2 DEF SpansInv
    <3> QED BY <3>1, <3>2
  <2>3. WithData' = WithData
    BY <2>1 DEF WithData
  <2>4. SpansInv'
    BY <2>1, <2>3 DEF SpansInv
  <2>5. OriginInv'
    BY <2>1, <2>2, <2>3 DEF OriginInv
  <2> QED BY <2>4, <2>5
<1>8. CASE Stop
  <2>1. UNCHANGED sig /\ ~recording'
    BY <1>8 DEF Stop
  <2> QED BY <2>1 DEF SpansInv, OriginInv, WithData
<1> QED BY <1>2, <1>3, <1>4, <1>5, <1>6, <1>7, <1>8 DEF Next

\* currentPlotLayout() writes a layout that can be read back.
LEMMA SavedIs ==
  ASSUME AxesInv, IsSignals(sig), SaveLayout
  PROVE  IsLayout(file')
<1> DEFINE labels == [i \in Indices |-> axes[i].label]
           chans == [c \in DOMAIN rows |-> rows[c].axis]
<1>1. file' = [axes |-> labels, chans |-> chans]
  BY DEF SaveLayout
<1>2. /\ Len(axes) \in 1 .. MaxAxes /\ MaxAxes \in Nat /\ axes \in Seq(Axis)
      /\ \A i \in 1 .. Len(axes) : axes[i] \in Axis
  BY AxisListIs, PlotAssumption DEF AxesInv
<1>3. labels \in Seq(Labels) /\ Len(labels) = Len(axes)
  <2>1. labels = [i \in 1 .. Len(axes) |-> axes[i].label]
    BY DEF Indices
  <2>2. \A i \in 1 .. Len(axes) : axes[i].label \in Labels
    BY <1>2 DEF Axis
  <2> QED BY <1>2, <2>1, <2>2
<1>4. DOMAIN chans = DOMAIN rows /\ chans \in [DOMAIN rows -> AxisIds]
  BY RowIs DEF AxesInv
<1>5. DOMAIN rows \subseteq Channels
  BY DEF AxesInv, IsSignals
<1> HIDE DEF labels, chans
<1>6. file'.axes = labels /\ file'.chans = chans /\ file' = [axes |-> file'.axes, chans |-> file'.chans]
  BY <1>1
<1> QED BY <1>2, <1>3, <1>4, <1>5, <1>6 DEF IsLayout

\* The part of TypeOK that is not the axes, the measurements or the panel.
HostType ==
  /\ IsSignals(sig) /\ IsLayout(loaded) /\ IsLayout(file)
  /\ mouse \in {"up", "drag", "region"} /\ paused \in BOOLEAN /\ measureMode \in BOOLEAN
  /\ recording \in BOOLEAN /\ live \subseteq Channels
  /\ originSet \in BOOLEAN /\ origin \in Int /\ ops \in Nat

LEMMA HostStep ==
  ASSUME TypeOK, AxesInv, SpansInv, [Next]_vars
  PROVE  HostType'
<1>t. HostType /\ TypeOK
  BY DEF TypeOK, HostType
<1>1. CASE PlotGesture \/ PlotMode
  <2>1. /\ UNCHANGED hostVars /\ ops' \in Nat
        /\ mouse' \in {"up", "drag", "region"} /\ paused' \in BOOLEAN /\ measureMode' \in BOOLEAN
    BY <1>1, PlotStep
  <2> QED BY <1>t, <2>1 DEF hostVars, HostType
<1>2. CASE EditAxes \/ EditTable
  <2>1. /\ UNCHANGED <<mouse, paused, measureMode, sig, loaded, file, recording, live, originSet, origin>>
        /\ ops' = ops + 1
    BY <1>2, RowsKept
  <2> QED BY <1>t, <2>1 DEF HostType
<1>3. CASE SaveLayout
  <2>1. IsLayout(file')
    BY <1>3, <1>t, SavedIs DEF HostType
  <2>2. /\ UNCHANGED <<mouse, paused, measureMode, sig, loaded, recording, live, originSet, origin>>
        /\ ops' = ops + 1
    BY <1>3 DEF SaveLayout, Edits, plotVars
  <2> QED BY <1>t, <2>1, <2>2 DEF HostType
<1>4. CASE LoadLayout
  <2>1. PICK l : IsLayout(l) /\ applyPlotLayout(l)
    BY <1>t, <1>4, NoLayoutIs DEF LoadLayout, HostType
  <2>2. ops' = ops + 1 /\ loaded' = l
        /\ UNCHANGED <<mouse, paused, measureMode, sig, file, recording, live, originSet, origin>>
    BY <1>4, <2>1 DEF LoadLayout, applyPlotLayout, Edits
  <2> QED BY <1>t, <2>1, <2>2 DEF HostType
<1>5. CASE Record
  <2>1. PICK cs \in SUBSET Channels, ok \in BOOLEAN : Start(cs, ok)
    BY <1>5 DEF Record
  <2>2. /\ UNCHANGED <<mouse, paused, measureMode, loaded, file, origin>> /\ ops' = ops + 1
        /\ recording' = ok /\ live' = (IF ok THEN cs ELSE {})
        /\ sig' = Extend(sig, [c \in cs |-> << >>])
    BY <2>1 DEF Start, Edits, measureVars
  <2>3. originSet' \in BOOLEAN
    BY <2>1, Zenon DEF Start
  <2>4. IsSignals(sig')
    BY <1>t, <2>2, ClearedIs DEF HostType
  <2> QED BY <1>t, <2>2, <2>3, <2>4 DEF HostType
<1>6. CASE \E c \in DOMAIN sig, t \in 0 .. MaxTime : Sample(c, t)
  <2>1. PICK c \in DOMAIN sig, t \in 0 .. MaxTime : Sample(c, t)
    BY <1>6
  <2>2. IsSignals(sig')
    BY <1>t, <2>1, SampleStep DEF HostType
  <2>3. UNCHANGED <<mouse, paused, measureMode, loaded, file, recording, live, originSet, origin, ops>>
    BY <2>1 DEF Sample, plotVars
  <2> QED BY <1>t, <2>2, <2>3 DEF HostType
<1>7. CASE onTick \/ Stop
  <2>1. /\ UNCHANGED <<sig, mouse, paused, measureVars, loaded, file, ops>>
        /\ origin' \in Int /\ originSet' \in BOOLEAN
    BY <1>t, <1>7, DrawStep DEF HostType
  <2>2. recording' \in BOOLEAN /\ live' \subseteq Channels
    BY <1>t, <1>7 DEF onTick, Stop, HostType
  <2> QED BY <1>t, <2>1, <2>2 DEF HostType, measureVars
<1>8. CASE UNCHANGED vars
  BY <1>t, <1>8 DEF HostType, vars, plotVars, hostVars
<1> QED BY <1>1, <1>2, <1>3, <1>4, <1>5, <1>6, <1>7, <1>8 DEF Next

-----------------------------------------------------------------------------
(* The invariant                                                            *)

Inv == TypeOK /\ PreviewInv

\* The invariant by parts, as the steps above keep them.
Parts == /\ AxesInv /\ HostType /\ Placed(measurements, axes) /\ PanelOK(panel, dragged)
         /\ DeferredInv /\ SpansInv /\ OriginInv

LEMMA PartsAre == Inv <=> Parts
<1>1. TypeOK <=> /\ HostType /\ IsAxisList(axes) /\ IsGraphs(graph) /\ IsRows(rows)
                 /\ measurements \in Seq(Measurement) /\ panel \in Panel /\ dragged \in Nat
  BY DEF TypeOK, HostType
<1>2. ASSUME Inv PROVE Parts
  BY <1>1, <1>2, AxesInvIs, PlacedIs, PanelIs
     DEF Inv, PreviewInv, NothingOnARemovedAxis, MeasurementTableSound, Parts
<1>3. ASSUME Parts PROVE Inv
  <2>1. TypeOK
    BY <1>1, <1>3 DEF Parts, AxesInv, Placed, PanelOK, Remembered
  <2> QED BY <1>3, <2>1, AxesInvIs, PlacedIs, PanelIs
          DEF Inv, PreviewInv, NothingOnARemovedAxis, MeasurementTableSound, Parts
<1> QED BY <1>2, <1>3

LEMMA InitInv == Init => Inv
<1> SUFFICES ASSUME Init PROVE Parts
  BY PartsAre
<1> DEFINE a == NewAxis(1, DefaultLabel)
<1>1. /\ axes = <<a>> /\ graph = << >> /\ rows = << >> /\ sig = << >> /\ measurements = << >>
      /\ pending = << >> /\ loaded = NoLayout /\ file \in Layouts
      /\ panel = [folded |-> FALSE, userSized |-> FALSE, unfoldedPx |-> 0, height |-> HugPx]
      /\ dragged = 0 /\ mouse = "up" /\ paused = FALSE /\ measureMode = FALSE
      /\ recording = FALSE /\ live = {} /\ originSet = FALSE /\ origin = 0 /\ ops = 0
  BY DEF Init, PlotInit
<1>2. DOMAIN << >> = {}
  OBVIOUS
<1>3. AxesInv
  <2>1. a \in Axis
    BY PlotAssumption DEF NewAxis, Axis, AxisIds
  <2> HIDE DEF a
  <2>2. <<a>> \in Seq(Axis) /\ Len(<<a>>) = 1 /\ DOMAIN <<a>> = {1}
    BY <2>1
  <2>3. IsAxisList(axes)
    BY <1>1, <2>2, PlotAssumption DEF IsAxisList
  <2>4. << >> = [c \in DOMAIN << >> |-> << >>[c]]
    BY <1>2
  <2>5. IsGraphs(graph) /\ IsRows(rows)
    BY <1>1, <1>2, <2>4 DEF IsGraphs, IsRows
  <2>6. RowsOn(rows, Len(axes)) /\ Live(axes, graph)
    BY <1>1, <1>2 DEF RowsOn, Live
  <2> QED BY <1>1, <2>3, <2>5, <2>6 DEF AxesInv
<1>4. HostType
  <2>1. IsSignals(sig)
    BY <1>1, <1>2 DEF IsSignals
  <2>2. IsLayout(loaded) /\ IsLayout(file)
    BY <1>1, NoLayoutIs, LayoutsAssumption
  <2>3. paused \in BOOLEAN /\ measureMode \in BOOLEAN /\ recording \in BOOLEAN /\ originSet \in BOOLEAN
    BY <1>1, Zenon
  <2>4. mouse \in {"up", "drag", "region"} /\ live \subseteq Channels /\ origin \in Int /\ ops \in Nat
    BY <1>1
  <2> QED BY <2>1, <2>2, <2>3, <2>4 DEF HostType
<1>5. PanelOK(panel, dragged)
  BY <1>1 DEF PanelOK, Remembered, Panel, HugPx
<1>6. DeferredInv
  <2>1. pending = << >> /\ DOMAIN loaded.chans = {}
    BY <1>1, <1>2 DEF NoLayout
  <2>2. Deferred(rows, loaded) = [x \in {} |-> loaded.chans[x]]
    BY <2>1 DEF Deferred, Without
  <2>3. << >> = [x \in {} |-> loaded.chans[x]]
    OBVIOUS
  <2> QED BY <2>1, <2>2, <2>3 DEF DeferredInv
<1>7. SpansInv /\ OriginInv
  BY <1>1, <1>2 DEF SpansInv, OriginInv, WithData
<1> QED BY <1>1, <1>3, <1>4, <1>5, <1>6, <1>7, PlacedNone DEF Parts

LEMMA StepInv == ASSUME Inv, [Next]_vars PROVE Inv'
<1>0. TypeOK /\ Parts
  BY PartsAre DEF Inv
<1>1. AxesInv /\ DeferredInv /\ SpansInv /\ OriginInv /\ Placed(measurements, axes)
      /\ PanelOK(panel, dragged)
  BY <1>0 DEF Parts
<1>2. AxesInv'
  BY <1>0, <1>1, AxesStep
<1>3. HostType'
  BY <1>0, <1>1, HostStep
<1>4. Placed(measurements', axes')
  BY <1>0, <1>1, PlacedStep
<1>5. PanelOK(panel', dragged')
  BY <1>0, <1>1, PanelStep
<1>6. DeferredInv'
  BY <1>0, <1>1, DeferredStep
<1>7. SpansInv' /\ OriginInv'
  BY <1>0, <1>1, OriginStep
<1>8. Parts'
  BY <1>2, <1>3, <1>4, <1>5, <1>6, <1>7 DEF Parts
<1> QED BY <1>8, PartsAre, PTL

-----------------------------------------------------------------------------
(* What the steps do                                                        *)

LEMMA TickFollows ==
  ASSUME Inv, Inv', onTick, xAxis.fit, WithData # {}
  PROVE  xAxis'.lo >= 0 /\ Newest - origin' \in xAxis'.lo .. xAxis'.hi
<1> DEFINE maxX == Newest - origin'
           lo == Larger(0, maxX - WindowLen)
           hi == Larger(maxX, lo + WindowLen)
           x == FollowX(origin')
<1>1. IsSignals(sig) /\ origin' \in Int /\ OriginInv' /\ WindowLen \in Nat
  BY PreviewAssumption DEF Inv, TypeOK, PreviewInv
<1>2. refreshData /\ recording' /\ UNCHANGED sig
  BY DEF onTick
<1>3. originSet' /\ WithData' = WithData
  BY <1>2, Zenon DEF refreshData, WithData
<1>4. PICK c \in WithData : origin' <= sig[c][2]
  BY <1>1, <1>2, <1>3 DEF OriginInv
<1>5. Newest \in Nat /\ sig[c][2] \in Nat /\ sig[c][2] <= Newest
  <2>1. Newest \in 0 .. MaxTime /\ sig[c][2] <= Newest /\ sig[c][2] \in 0 .. MaxTime
    BY <1>1, NewestIs, SignalIs
  <2> QED BY <2>1, PreviewAssumption
<1>6. maxX \in Int /\ maxX >= 0
  <2>1. \A a \in Int, b, d \in Nat : a <= b /\ b <= d => d - a \in Int /\ d - a >= 0
    OBVIOUS
  <2> QED BY <1>1, <1>4, <1>5, <2>1
<1> HIDE DEF maxX
<1>7. lo \in Int /\ lo >= 0 /\ lo <= maxX
  BY <1>1, <1>6 DEF Larger
<1> HIDE DEF lo
<1>8. maxX <= hi /\ hi \in Int
  BY <1>1, <1>6, <1>7 DEF Larger
<1> HIDE DEF hi
<1>9. x = [fit |-> TRUE, by |-> "auto", lo |-> lo, hi |-> hi]
  BY DEF FollowX, lo, maxX, hi
<1> HIDE DEF x
<1>10. xAxis' = [x EXCEPT !.fit = ~(mouse = "drag" /\ <<x.lo, x.hi>> # <<xAxis.lo, xAxis.hi>>)]
  BY <1>3 DEF onTick, x
<1>11. xAxis'.lo = lo /\ xAxis'.hi = hi
  <2> DEFINE b == ~(mouse = "drag" /\ <<x.lo, x.hi>> # <<xAxis.lo, xAxis.hi>>)
  <2>1. xAxis' = [x EXCEPT !.fit = b]
    BY <1>10
  <2> HIDE DEF b
  <2> QED BY <1>9, <2>1
<1>12. maxX \in lo .. hi
  BY <1>6, <1>7, <1>8
<1> QED BY <1>7, <1>11, <1>12 DEF maxX

\* While a recording goes on, nothing but its tick touches the origin.
LEMMA OriginStays ==
  ASSUME Inv, [Next]_vars, recording, recording', originSet
  PROVE  originSet' /\ origin' = origin
<1>t. TypeOK /\ AxesInv /\ IsSignals(sig) /\ origin \in Int
  BY PartsAre DEF Inv, TypeOK, Parts
<1>1. CASE PlotGesture \/ PlotMode \/ UNCHANGED vars
  BY <1>1 DEF PlotGesture, PlotMode, vars, hostVars
<1>2. CASE EditAxes \/ EditTable
  BY <1>t, <1>2, RowsKept
<1>3. CASE SaveLayout \/ LoadLayout \/ \E c \in DOMAIN sig, t \in 0 .. MaxTime : Sample(c, t)
  BY <1>3 DEF SaveLayout, LoadLayout, applyPlotLayout, Sample
<1>4. CASE Record \/ Stop
  BY <1>4 DEF Record, Start, Stop
<1>5. CASE onTick
  <2>1. refreshData
    BY <1>5 DEF onTick
  <2>2. origin' = origin
    BY <1>t, <2>1, OriginIs DEF refreshData
  <2> QED BY <2>1, <2>2 DEF refreshData
<1> QED BY <1>1, <1>2, <1>3, <1>4, <1>5 DEF Next

LEMMA LayoutFollowed ==
  ASSUME Inv, LoadLayout
  PROVE  /\ loaded'.axes # << >> => [i \in DOMAIN axes' |-> axes'[i].label] = loaded'.axes
         /\ \A c \in DOMAIN rows' :
              /\ graphYAxisIndex(axes', graph'[c].axis) = rows'[c].axis
              /\ c \in DOMAIN loaded'.chans /\ loaded'.chans[c] <= Len(axes')
                     => rows'[c].axis = loaded'.chans[c]
<1>t. AxesInv /\ IsLayout(file) /\ IsLayout(NoLayout) /\ IsAxisList(axes)
  BY PartsAre, NoLayoutIs DEF Inv, TypeOK, Parts
<1>1. PICK l : IsLayout(l) /\ applyPlotLayout(l)
  BY <1>t DEF LoadLayout
<1>2. /\ AxesInv' /\ Redrawn(LaidOut(l), axes')
      /\ \A c \in DOMAIN rows' : graph'[c].axis = axes'[rows'[c].axis].id
      /\ \A c \in DOMAIN rows' \cap DOMAIN l.chans :
           l.chans[c] <= Len(axes') => rows'[c].axis = l.chans[c]
  BY <1>t, <1>1, LayoutStep
<1>3. loaded' = l
  BY <1>1 DEF applyPlotLayout
<1>4. ASSUME l.axes # << >> PROVE [i \in DOMAIN axes' |-> axes'[i].label] = l.axes
  <2>1. Len(LaidOut(l)) = Larger(1, Len(l.axes))
        /\ \A i \in 1 .. Len(l.axes) : LaidOut(l)[i].label = l.axes[i]
    BY <1>t, <1>1, LaidOutIs
  <2>2. l.axes \in Seq(Labels) /\ Len(l.axes) \in Nat /\ Len(l.axes) # 0
    BY <1>1, <1>4, LenProperties, EmptySeq DEF IsLayout
  <2>3. Len(axes') = Len(l.axes) /\ \A i \in 1 .. Len(l.axes) : axes'[i].label = l.axes[i]
    <3>1. Larger(1, Len(l.axes)) = Len(l.axes)
      BY <2>2 DEF Larger
    <3> QED BY <1>2, <2>1, <3>1 DEF Redrawn
  <2>4. DOMAIN axes' = 1 .. Len(l.axes)
    BY <1>2, <2>3, LenProperties DEF Redrawn
  <2>5. l.axes = [i \in 1 .. Len(l.axes) |-> l.axes[i]]
    BY <2>2
  <2> QED BY <2>3, <2>4, <2>5
<1>5. ASSUME NEW c \in DOMAIN rows' PROVE graphYAxisIndex(axes', graph'[c].axis) = rows'[c].axis
  <2>1. rows'[c].axis \in 1 .. Len(axes') /\ IsAxisList(axes')
    BY <1>2 DEF AxesInv, RowsOn
  <2> QED BY <1>2, <2>1, IndexIs
<1> QED BY <1>2, <1>3, <1>4, <1>5

LEMMA RecordFollows ==
  ASSUME Inv, Record, NEW c \in (DOMAIN rows' \ DOMAIN rows) \cap DOMAIN loaded.chans,
         loaded.chans[c] <= Len(axes)
  PROVE  /\ rows'[c].axis = loaded.chans[c]
         /\ graphYAxisIndex(axes', graph'[c].axis) = loaded.chans[c]
<1>t. AxesInv /\ IsLayout(loaded) /\ DeferredInv
  BY PartsAre DEF Inv, TypeOK, Parts
<1>1. PICK cs \in SUBSET Channels, ok \in BOOLEAN : Start(cs, ok)
  BY DEF Record
<1>2. /\ AxesInv' /\ Redrawn(axes, axes') /\ rows'[c].axis = loaded.chans[c]
      /\ graph'[c].axis = axes[loaded.chans[c]].id
  BY <1>t, <1>1, StartStep
<1>3. IsAxisList(axes') /\ loaded.chans[c] \in 1 .. Len(axes') /\ Len(axes') = Len(axes)
  BY <1>2 DEF AxesInv, RowsOn, Redrawn
<1>4. axes'[loaded.chans[c]].id = axes[loaded.chans[c]].id
  BY <1>2, <1>3 DEF Redrawn
<1> QED BY <1>2, <1>3, <1>4, IndexIs

LEMMA HandRangeStays ==
  ASSUME Inv, EditAxes \/ EditTable, NEW i \in DOMAIN axes, NEW j \in DOMAIN axes',
         axes[i].id = axes'[j].id, ~axes[i].fit, axes[i].range = "user"
  PROVE  axes'[j].range = "user"
<1>t. AxesInv /\ IsAxisList(axes)
  BY PartsAre DEF Inv, Parts, AxesInv
<1>n. /\ DOMAIN axes = 1 .. Len(axes) /\ i \in Indices /\ Len(axes) \in Nat
      /\ \A k, m \in 1 .. Len(axes) : axes[k].id = axes[m].id => k = m
  BY <1>t, AxisListIs DEF Indices
<1>r. ASSUME Redrawn(axes, axes') PROVE i = j
  <2>1. DOMAIN axes' = 1 .. Len(axes) /\ axes'[j].id = axes[j].id
    BY <1>r, LenProperties DEF Redrawn
  <2> QED BY <1>n, <2>1
<1>1. CASE AddAxis
  <2>1. Len(axes) < MaxAxes /\ DefaultLabel \in Labels
    BY <1>1, PlotAssumption DEF AddAxis
  <2>2. IsAxisList(axes') /\ Len(axes') = Len(axes) + 1 /\ \A k \in Indices : axes'[k] = axes[k]
    BY <1>t, <1>1, <2>1, AddedIs DEF AddAxis, addYAxis
  <2>3. /\ DOMAIN axes' = 1 .. Len(axes') /\ i \in 1 .. Len(axes')
        /\ \A k, m \in 1 .. Len(axes') : axes'[k].id = axes'[m].id => k = m
    BY <1>n, <2>2, AxisListIs
  <2> QED BY <1>n, <2>2, <2>3
<1>2. CASE \E k \in Indices : RemoveAxis(k)
  <2>1. PICK k \in Indices : RemoveAxis(k)
    BY <1>2
  <2>2. axes' = RemoveAt(axes, k) /\ k # 1
    BY <2>1 DEF RemoveAxis, removable, removeYAxis
  <2>3. PICK m \in Indices : axes'[j] = axes[m]
    BY <1>t, <2>2, RemovedIs
  <2> QED BY <1>n, <2>3 DEF Indices
<1>3. CASE \E k \in Indices, l \in Labels : RenameAxis(k, l)
  <2>1. PICK k \in Indices, l \in Labels : RenameAxis(k, l)
    BY <1>3
  <2>2. /\ IsAxisList(axes') /\ Len(axes') = Len(axes)
        /\ \A m \in 1 .. Len(axes) : axes'[m].id = axes[m].id /\ axes'[m].range = axes[m].range
    BY <1>t, <2>1, RenameAxisStep
  <2>3. j \in 1 .. Len(axes)
    BY <2>2, AxisListIs
  <2> QED BY <1>n, <2>2, <2>3
<1>4. CASE EditTable
  <2>1. PICK c \in DOMAIN rows : onVisibilityChanged(c) \/ \E k \in Indices : onAxisComboChanged(c, k)
    BY <1>4 DEF EditTable
  <2>2. CASE onVisibilityChanged(c)
    <3>1. axes' = axes
      BY <2>2 DEF onVisibilityChanged
    <3> QED BY <1>n, <3>1
  <2>3. CASE \E k \in Indices : onAxisComboChanged(c, k)
    <3>1. Redrawn(axes, axes')
      BY <1>t, <2>3, ComboStep
    <3>2. axes' = rescaleAllYAxes(axes, graph', {})
      BY <2>3 DEF onAxisComboChanged
    <3>3. axes'[i] = axes[i]
      BY <1>t, <3>2, RescaleAllIs
    <3> QED BY <1>r, <3>1, <3>3
  <2> QED BY <2>1, <2>2, <2>3
<1> QED BY <1>1, <1>2, <1>3, <1>4 DEF EditAxes

-----------------------------------------------------------------------------
(* Theorems                                                                 *)

LEMMA PreviewCorrect == Spec => []Inv
<1>1. Inv /\ [Next]_vars => Inv'
  BY StepInv
<1> QED BY <1>1, InitInv, PTL DEF Spec

\* The axes are what they should be whatever is added, removed, laid out or
\* recorded: each with an identity of its own, at least one and never more than
\* fit, and a saved layout can be read back.
THEOREM TypeCorrect == Spec => []TypeOK
<1>1. Inv => TypeOK
  BY DEF Inv
<1> QED BY <1>1, PreviewCorrect, PTL

\* Graphs, rows and measurements stay on the axis they were put on, for any
\* number of axes and any layouts, although two of them hold it by index and one
\* by pointer (removeYAxis, applyPlotLayout, rebuildAxisCombos).
THEOREM NothingLeftOnARemovedAxis == Spec => []NothingOnARemovedAxis
<1>1. Inv => NothingOnARemovedAxis
  BY DEF Inv, PreviewInv
<1> QED BY <1>1, PreviewCorrect, PTL

\* Only the newest measurement is half-placed, and the open table has the height
\* the user dragged it to, however often it was folded, filled or switched off
\* (updateMeasurePanel).
THEOREM MeasurementTableKept == Spec => []MeasurementTableSound
<1>1. Inv => MeasurementTableSound
  BY DEF Inv, PreviewInv
<1> QED BY <1>1, PreviewCorrect, PTL

\* The tick leaves the newest sample in the X range, and the origin of x does not
\* move during a recording (onTick, refreshData).
THEOREM TheViewFollows == Spec => FollowsTheRecording
<1> DEFINE Follows == /\ onTick /\ xAxis.fit /\ WithData # {}
                           => xAxis'.lo >= 0 /\ Newest - origin' \in xAxis'.lo .. xAxis'.hi
                      /\ recording /\ recording' /\ originSet => originSet' /\ origin' = origin
<1>1. Inv /\ Inv' /\ [Next]_vars => Follows
  BY TickFollows, OriginStays
<1>2. Inv /\ Inv' /\ [Next]_vars => [Follows]_vars
  BY <1>1
<1> QED BY <1>2, PreviewCorrect, PTL DEF Spec, FollowsTheRecording

\* A layout leaves the table, the graphs and the axes in agreement, and a channel
\* that a recording brings is drawn where the loaded layout asked for it
\* (applyPlotLayout, reapplyChannelAssignments, onChannelAdded).
THEOREM LayoutsAreHonoured == Spec => LayoutHonoured
<1> DEFINE Honoured ==
      /\ LoadLayout =>
           /\ loaded'.axes # << >> => [i \in DOMAIN axes' |-> axes'[i].label] = loaded'.axes
           /\ \A c \in DOMAIN rows' :
                /\ graphYAxisIndex(axes', graph'[c].axis) = rows'[c].axis
                /\ c \in DOMAIN loaded'.chans /\ loaded'.chans[c] <= Len(axes')
                       => rows'[c].axis = loaded'.chans[c]
      /\ Record => \A c \in (DOMAIN rows' \ DOMAIN rows) \cap DOMAIN loaded.chans :
           loaded.chans[c] <= Len(axes) =>
               /\ rows'[c].axis = loaded.chans[c]
               /\ graphYAxisIndex(axes', graph'[c].axis) = loaded.chans[c]
<1>1. Inv => Honoured
  BY LayoutFollowed, RecordFollows
<1>2. Inv /\ [Next]_vars => [Honoured]_vars
  BY <1>1
<1> QED BY <1>2, PreviewCorrect, PTL DEF Spec, LayoutHonoured

\* No edit of the channel table or the axis list refits an axis whose range was
\* set by hand (rescaleAllYAxes skips an axis without auto-fit).
THEOREM HandRangesSurvive == Spec => HandRangeKept
<1> DEFINE Kept == EditAxes \/ EditTable =>
                     \A i \in DOMAIN axes, j \in DOMAIN axes' :
                       axes[i].id = axes'[j].id /\ ~axes[i].fit /\ axes[i].range = "user"
                         => axes'[j].range = "user"
<1>1. Inv => Kept
  BY HandRangeStays
<1>2. Inv /\ [Next]_vars => [Kept]_vars
  BY <1>1
<1> QED BY <1>2, PreviewCorrect, PTL DEF Spec, HandRangeKept
=============================================================================
